---------------------------- MODULE ResultModels ----------------------------
(***************************************************************************)
(* The classes of models/ that the client validates answers with.  Of a    *)
(* class the model keeps what decides whether an answer of the documented  *)
(* shape is read: the fields in which it admits null (all others raise a   *)
(* pydantic ValidationError on one), and the classes of its parts.         *)
(* Inherited fields count; aliases stand for the class they name.          *)
(***************************************************************************)

Model(name, admits, parts) == [name |-> name, admits |-> admits, parts |-> parts]

\* Classes that admit null nowhere and have no parts.
Strict(names) == {Model(n, {}, {}) : n \in names}

-----------------------------------------------------------------------------
(* models/a2a.py *)

A2aModels == {
   Model("TrustedAgent", {"label", "created_at"}, {}),
   Model("OrgA2AAgentResponse", {"label", "created_at"}, {}),
   Model("A2AAgentListItem", {"label", "created_at"}, {}),
   Model("OrgA2AAgentListItem", {"label", "created_at"}, {}),
   Model("A2ADelegationEvent",
      {"agent_name", "created_at", "error", "settlement_tx", "delivery_error",
       "delivery_resolved_at", "delivery_settlement_tx"}, {}),
   Model("PossiblyDeliveredDelegationItem",
      {"agent_name", "agent_url", "billing_method", "created_at", "delivery_error",
       "delivery_settlement_tx", "delivery_started_at", "settlement_tx", "task_status",
       "task_type"}, {})}
  \cup Strict({"A2AAgentDeletedResponse", "ResolveA2ADelegationResponse"})

-----------------------------------------------------------------------------
(* models/agent.py *)

AgentModels == {
   Model("AgentToolsResponse", {}, {"AgentTool"}),
   Model("AgentDecisionRecord", {"confidence"}, {}),
   Model("AgentDecisionListResponse", {"next_cursor"}, {"AgentDecisionRecord"}),
   Model("AgentDecisionsResponse", {"next_cursor"}, {"AgentDecisionRecord"}),
   Model("EventDispatchResponse", {"run_id", "schedule_id", "result_path"}, {})}
  \cup Strict({"AgentTool", "RunOutcomeResponse", "ToolExclusionListResponse",
   "ToolExclusionsResponse", "ToolExclusionActionResponse",
   "ToolExclusionCreateResponse", "ToolExclusionRemovedResponse"})

-----------------------------------------------------------------------------
(* models/auth.py *)

AuthModels == {
   Model("TokenResponse", {"refresh_token"}, {}),
   Model("AuthMeResponse",
      {"sub", "iss", "exp", "iat", "address", "chain_id", "org_slug"}, {}),
   Model("CreateInviteResponse", {"email"}, {})}
  \cup Strict({"SiweNonceResponse", "VerifyEmailResponse", "ResendVerificationResponse",
   "CreateUserResponse", "CreateOrgResponse", "CreateClientCredentialsResponse",
   "PrincipalSpendLimitResponse"})

-----------------------------------------------------------------------------
(* models/billing.py *)

BillingModels == {
   Model("BillingPricingResponse",
      {"network", "pricing"}, {"PricingRuleWithOverrides", "ToolPricing"}),
   Model("BillingHistoryItem", {"settlement_tx"}, {}),
   Model("InvoiceItem", {"settlement_tx"}, {}),
   Model("InvoiceListResponse", {"next_cursor"}, {"InvoiceItem"}),
   Model("CreditHistoryEntry", {"reason"}, {}),
   Model("CreditHistoryResponse", {"next_cursor"}, {"CreditHistoryEntry"})}
  \cup Strict({"ToolPricing", "BillingBalanceResponse"})

SettlementModels == {
   Model("StripeSessionStatusResponse", {"new_balance_fmt"}, {}),
   Model("UsdcTopupResponse", {"new_balance_usdc"}, {}),
   Model("AdminTopupResponse", {"amount_usdc"}, {}),
   Model("PendingSettlementItem", {"last_error", "next_retry_at"}, {}),
   Model("PendingSettlementsResponse", {}, {"PendingSettlementItem"}),
   Model("ChargeReconciliationResponse", {}, {"ReconciliationCheckResponse"})}
  \cup Strict({"StripeTopupResponse", "UsdcTopupRequirementsResponse", "SettlementRetryResponse",
   "RevenueSummaryResponse", "SettlementBalanceResponse", "ToolPricingOverrideResponse",
   "ToolPricingDeleteResponse", "ReconciliationCheckResponse"})

-----------------------------------------------------------------------------
(* models/labeling.py *)

LabelingModels == {
   Model("LabelingDefinitionListResponse", {}, {"LabelingDefinitionItem"}),
   Model("LabelingPredictionListResponse", {}, {"LabelingPredictionItem"}),
   Model("PredictionProofAnchor",
      {"tx_hash", "anchor_address", "block_number", "anchored_at"}, {}),
   Model("PredictionProofResponse", {"anchor"}, {"PredictionProofAnchor"}),
   Model("LabelingResultItem", {"observation_id", "actual", "score"}, {}),
   Model("LabelingResultListResponse", {}, {"LabelingResultItem"})}
  \cup Strict({"LabelingBindingResponse", "LabelingDefinitionItem", "LabelingPredictionItem",
   "PredictionSubmitResponse", "LabelingOverrideResponse"})

-----------------------------------------------------------------------------
(* models/llm.py *)

LlmModels == {
   Model("ModelInfo", {"benchmarks"}, {"ModelPricing", "ModelRunBenchmarks"}),
   Model("ModelBenchmarksResponse", {}, {"ModelInfo"}),
   Model("LlmConfigResponse",
      {"api_base", "model_reasoning_effort", "reasoning_effort"}, {})}
  \cup Strict({"ModelPricing", "ModelRunBenchmarks", "LlmConfigDeletedResponse"})

-----------------------------------------------------------------------------
(* models/marketplace.py *)

CatalogModels == {
   Model("MarketplaceCatalogResponse", {"next_cursor"}, {"MarketplaceTool"}),
   Model("MarketplaceCatalogDetailResponse", {}, {"MarketplaceToolSummary"}),
   Model("MarketplaceToolSummary", {"output_schema", "unique_caller_count"}, {}),
   Model("PublicToolReputation", {"unique_caller_count"}, {}),
   Model("PublicReputationResponse", {"generated_at"}, {"PublicToolReputation"}),
   Model("MarketplaceAuthorConfigResponse", {"settlement_wallet"}, {}),
   Model("MarketplaceAuthorProfileResponse", {"next_cursor"}, {"MarketplaceToolSummary"})}
  \cup Strict({"MarketplaceTool"})

EarningsModels == {
   Model("MarketplaceEarningsResponse", {"next_cursor"}, {"MarketplaceEarningEntry"}),
   Model("MarketplaceEarningsByToolResponse",
      {"next_cursor"}, {"MarketplaceEarningsByToolEntry"}),
   Model("MarketplaceWithdrawalResponse", {"tx_hash"}, {}),
   Model("MarketplaceWithdrawalHistoryItem", {"tx_hash"}, {}),
   Model("MarketplaceWithdrawalsListResponse",
      {"next_cursor"}, {"MarketplaceWithdrawalHistoryItem"}),
   Model("CompleteWithdrawalResponse", {"id"}, {})}
  \cup Strict({"MarketplaceEarningEntry", "MarketplaceEarningsByToolEntry",
   "MarketplaceBalanceResponse"})

SweepModels == {
   Model("MarketplaceSweepResponse", {"tx_hash", "amount_usdc"}, {}),
   Model("SweepStatusItem", {"last_sweep_error", "next_sweep_at"}, {}),
   Model("SweepStatusResponse", {}, {"SweepStatusItem"}),
   Model("AdminWithdrawalItem", {"settled_at"}, {}),
   Model("AdminWithdrawalListResponse", {}, {"AdminWithdrawalItem"})}
  \cup Strict({"AdminWithdrawalActionResponse", "WithdrawalResetResponse"})

SubscriptionModels == {
   Model("MarketplaceSubscriptionItem", {"org_id", "is_active"}, {}),
   Model("MarketplaceSubscriptionListResponse",
      {"next_cursor"}, {"MarketplaceSubscriptionItem"})}
  \cup Strict({"MarketplaceSubscriptionResponse", "UnsubscribeResponse", "RunFeedbackResponse"})

ImportModels == {
   Model("MarketplaceImportPreviewTool",
      {}, {"ImportPreviewDroppedFeatures", "ImportPreviewSchemaStatus"}),
   Model("MarketplaceImportPreviewResponse",
      {}, {"MarketplaceImportPreviewError", "MarketplaceImportPreviewTool"}),
   Model("MarketplaceImportPublishedTool", {"mcp_server_id", "mcp_tool_name"}, {}),
   Model("MarketplaceImportPublishCreatedItem", {}, {"MarketplaceImportPublishedTool"}),
   Model("MarketplaceImportPublishResponse",
      {}, {"MarketplaceImportPublishCreatedItem", "MarketplaceImportPublishError"})}
  \cup Strict({"MarketplaceImportPreviewError", "ImportPreviewSchemaStatus",
   "ImportPreviewDroppedFeatures", "MarketplaceImportPublishError"})

RegistrationModels == {
   Model("MarketplaceAgentSummary",
      {"registered_at", "confidence", "is_stale", "last_event_at", "reputation_score",
       "sample_size", "success_rate", "unique_caller_count"}, {}),
   Model("MarketplaceAgentDirectoryResponse", {"next_cursor"}, {"MarketplaceAgentSummary"}),
   Model("MarketplaceAuthorIndexResponse", {"next_cursor"}, {"MarketplaceAuthorSummary"}),
   Model("MarketplaceAgentRegistrationPreviewResponse",
      {"agent_url", "price_per_task_usdc", "detail"}, {}),
   Model("MarketplaceAgentRegistrationTestResponse",
      {"agent_url"}, {"MarketplaceAgentRegistrationCheck"})}
  \cup Strict({"MarketplaceQuoteResponse", "MarketplaceDelegationQuoteResponse",
   "MarketplaceAuthorSummary", "MarketplaceAgentRegistrationResponse",
   "MarketplaceAgentRegistrationCheck"})

-----------------------------------------------------------------------------
(* models/mcp.py *)

McpModels == {
   Model("OrgMcpServer", {"auth_header_name", "last_schema_changed_at", "schema_hash"}, {}),
   Model("DiscoverMcpToolsResponse", {}, {"McpToolDefinition"}),
   Model("TestMcpToolResponse", {"latency_ms", "result", "error"}, {})}
  \cup Strict({"McpServerDeletedResponse", "McpToolDefinition"})

-----------------------------------------------------------------------------
(* models/memory.py *)

MemoryModels == {
   Model("MemoryEntry", {"source_run_id"}, {}),
   Model("MemoryListResponse", {"next_cursor"}, {"MemoryEntry"}),
   Model("MemoryCreatedResponse", {"source_run_id"}, {}),
   Model("AdminMemoryItem", {"source_run_id"}, {}),
   Model("AdminMemoryListResponse", {}, {"AdminMemoryItem"})}
  \cup Strict({"MemoryDeletedResponse", "AdminMemoryPurgeResponse"})

-----------------------------------------------------------------------------
(* models/org.py *)

OrgModels == {
   Model("OrgCredentialsEntry", {"disabled_at"}, {})}
  \cup Strict({"RegenerateCredentialsResponse", "OrgCredentialDisableResponse",
   "OrgSpendingConfigResponse"})

-----------------------------------------------------------------------------
(* models/scheduling.py *)

\* Mutant: the output of a run that failed is not optional.
ScheduleModels_OutputRequired == {
   Model("ScheduledRun",
      {"callback_url", "callback_format", "next_run_at", "last_run_at"}, {}),
   Model("ScheduledRunListResponse", {"next_cursor"}, {"ScheduledRun"}),
   Model("ScheduledRunsPage", {"next_cursor"}, {"ScheduledRunResult"}),
   Model("EventRunResultItem", {"error", "chain_id", "hop_index"}, {}),
   Model("EventRunResultsResponse", {"next_cursor"}, {"EventRunResultItem"})}
  \cup Strict({"ScheduledRunResult"})

ScheduleModels == {
   Model("ScheduledRun",
      {"callback_url", "callback_format", "next_run_at", "last_run_at"}, {}),
   Model("ScheduledRunListResponse", {"next_cursor"}, {"ScheduledRun"}),
   Model("ScheduledRunsPage", {"next_cursor"}, {"ScheduledRunResult"}),
   Model("EventRunResultItem", {"output_text", "error", "chain_id", "hop_index"}, {}),
   Model("EventRunResultsResponse", {"next_cursor"}, {"EventRunResultItem"})}
  \cup Strict({"ScheduledRunResult"})

EventTriggerModels == {
   Model("EventTrigger",
      {"callback_url", "next_trigger_id", "trigger_token", "event_path", "last_run_at"}, {}),
   Model("EventTriggerListResponse", {"next_cursor"}, {"EventTrigger"}),
   Model("EventTriggerCreatedResponse",
      {"callback_url", "next_trigger_id", "trigger_token", "event_path", "last_run_at"}, {}),
   Model("EventTaskArtifact", {}, {"EventTaskArtifactPart"}),
   Model("EventTaskResponse",
      {"artifacts", "metadata"}, {"EventTaskArtifact", "EventTaskStatus"})}
  \cup Strict({"EventTaskArtifactPart", "EventTaskStatus", "ScheduleRunNowResponse",
   "ScheduleDeletedResponse", "RotateSecretResponse"})

-----------------------------------------------------------------------------
(* models/scorecards.py *)

ScorecardModels == {
   Model("ScorecardItem",
      {"coverage", "mean_brier", "adjusted_brier", "accuracy", "calibration"},
      {"CalibrationBin"}),
   Model("LeaderboardResponse", {}, {"ScorecardItem"}),
   Model("ScorecardResponse", {}, {"ScorecardItem"}),
   Model("ScorecardTaskListResponse", {}, {"ScorecardTask"})}
  \cup Strict({"CalibrationBin", "ScorecardTask"})

-----------------------------------------------------------------------------
(* models/telemetry.py *)

TelemetryModels == {
   Model("TelemetryCompletenessBySource", {"tool_event_coverage"}, {}),
   Model("TelemetryCompletenessResponse", {}, {"TelemetryCompletenessBySource"}),
   Model("DiscoveryFunnelResponse", {"challenge_to_settle_rate"}, {"DiscoveryStageDay"}),
   Model("MachineFunnelResponse",
      {"repeat_payer_rate", "settlement_failure_rate", "wallet_conversion_rate"}, {})}
  \cup Strict({"DiscoveryStageDay"})

-----------------------------------------------------------------------------
(* models/tools.py *)

ToolModels == {
   Model("OrgTool", {"output_schema", "webhook_url", "mcp_server_id", "mcp_tool_name"}, {}),
   Model("TestWebhookResponse",
      {"status_code", "latency_ms", "response_body", "error"}, {})}
  \cup Strict({"ToolDeletedResponse"})

-----------------------------------------------------------------------------
(* models/usage.py *)

UsageModels == Strict({"UsageSummary", "PricingRuleWithOverrides"})

-----------------------------------------------------------------------------
(* models/wallets.py *)

WalletModels == {
   Model("Wallet", {"user_id"}, {}),
   Model("LinkWalletResponse", {"user_id"}, {}),
   Model("AgentWalletResponse", {"balance_usdc", "balance_error"}, {})}
  \cup Strict({"AgentWalletDeactivatedResponse", "WalletDeletedResponse"})

-----------------------------------------------------------------------------
Models ==
  UNION {A2aModels, AgentModels, AuthModels, BillingModels, SettlementModels,
         LabelingModels, LlmModels, CatalogModels, EarningsModels,
         SweepModels, SubscriptionModels, ImportModels, RegistrationModels,
         McpModels, MemoryModels, OrgModels, ScheduleModels,
         EventTriggerModels, ScorecardModels, TelemetryModels, ToolModels,
         UsageModels, WalletModels}

ModelOf == [n \in {m.name : m \in Models} |-> CHOOSE m \in Models : m.name = n]

\* Every part is one of the classes.
ASSUME PartsAssumption == \A m \in Models : m.parts \subseteq DOMAIN ModelOf

\* Classes whose fields all have defaults: they read any JSON object.
AllOptional ==
  {"AgentDecisionsResponse", "AgentToolsResponse", "ImportPreviewDroppedFeatures",
   "ModelInfo", "ModelPricing", "ModelRunBenchmarks", "ScheduledRunsPage", "UsageSummary"}

\* The classes of an answer that is a `model`, its parts included.
WithParts(names) == names \cup UNION {ModelOf[n].parts : n \in names}
Within(model) ==
  IF model = "none" THEN {} ELSE WithParts(WithParts(WithParts({model})))

\* pydantic reads the value `odd` (see ApiDocument) in the part it occurs in.
Admits(odd) == odd[2] \in ModelOf[odd[1]].admits
=============================================================================
