---------------------------- MODULE ApiDocument ----------------------------
(***************************************************************************)
(* What the client relies on of the Teardrop API: the operations of        *)
(* spec/openapi.json by whom they answer, what they answer with, and the   *)
(* values of an answer a client might not expect.  An operation is named   *)
(* by its method and path without a space between, the path's arguments    *)
(* by *.                                                                   *)
(***************************************************************************)

\* Answered without a bearer token.
PublicOps == {
   "GET/message:status/*", "GET/auth/siwe/nonce", "POST/register",
   "POST/register/invite", "POST/auth/refresh", "GET/auth/verify-email",
   "POST/auth/resend-verification", "GET/billing/pricing", "GET/models/benchmarks",
   "GET/marketplace/agents", "GET/marketplace/authors", "GET/marketplace/authors/*",
   "GET/marketplace/catalog", "GET/marketplace/catalog/*/*", "GET/marketplace/quote",
   "GET/marketplace/delegation/quote", "GET/.well-known/reputation.json",
   "GET/scorecards/tasks", "GET/scorecards/*/*", "GET/scorecards/*/*/*",
   "POST/agent/events/*"}

\* "Authenticated by the per-trigger secret header", X-Teardrop-Trigger-Secret.
SecretOps == {"POST/agent/events/*"}

\* Answered with 204 and no body.
EmptyOps == {
   "POST/auth/logout", "DELETE/org/principals/*/spend-limit",
   "DELETE/marketplace/agent-registration"}

\* Answered with a JSON array.
ArrayOps == {
   "GET/a2a/agents", "GET/a2a/delegations", "GET/admin/a2a/agents/*",
   "GET/admin/a2a/delegations/possibly-delivered", "GET/admin/mcp/servers/*",
   "GET/admin/tools/*", "GET/agent/tools", "GET/org/credentials",
   "GET/org/principals/spend-limits", "GET/billing/history", "GET/mcp/servers",
   "GET/tools", "GET/wallets/me"}

\* Of those, the ones whose array ends at the limit asked for.
LimitedOps == {"GET/a2a/delegations", "GET/billing/history"}

\* Answered page by page, each page with the cursor of the next.  Newest first, which
\* the document says of decisions and memories and is assumed of the others.
PagedOps == {
   "GET/agent/decisions", "GET/billing/invoices", "GET/billing/credit-history",
   "GET/agent/schedules/*/runs", "GET/agent/event-triggers/*/runs",
   "GET/marketplace/agents", "GET/marketplace/authors", "GET/marketplace/catalog",
   "GET/marketplace/authors/*", "GET/marketplace/earnings",
   "GET/marketplace/withdrawals", "GET/memories"}

\* Idempotent by a key in the body: 201 the first time, 200 without a body after that.
ReplayOps == {"POST/labeling/predictions"}

\* Changes of a stored object, of which absent fields are left alone.
UpdateOps == {
   "PATCH/admin/orgs/*/spending", "PATCH/agent/event-triggers/*",
   "PATCH/agent/schedules/*", "PATCH/mcp/servers/*", "PATCH/tools/*", "PUT/llm-config"}

\* Fields whose value may be null where the class has them: pairs of the name of the
\* class that reads them and the field; "source=eval" is the value "eval" of `source`.
ApiOdd ==
  {"A2AAgentListItem"} \X {"created_at", "label"}
  \cup {"A2ADelegationEvent"} \X
         {"agent_name", "created_at", "delivery_error", "delivery_resolved_at",
          "delivery_settlement_tx", "error", "settlement_tx"}
  \cup {"AdminMemoryItem"} \X {"source_run_id"}
  \cup {"AdminWithdrawalItem"} \X {"settled_at"}
  \cup {"AgentDecisionListResponse"} \X {"next_cursor"}
  \cup {"AgentDecisionRecord"} \X {"confidence"}
  \cup {"AgentDecisionsResponse"} \X {"next_cursor"}
  \cup {"AgentWalletResponse"} \X {"balance_error", "balance_usdc"}
  \cup {"AuthMeResponse"} \X {"address", "chain_id", "org_name", "org_slug"}
  \cup {"BillingPricingResponse"} \X {"network", "pricing"}
  \cup {"CreateInviteResponse"} \X {"invite_url"}
  \cup {"CreditHistoryResponse"} \X {"next_cursor"}
  \cup {"DiscoveryFunnelResponse"} \X {"challenge_to_settle_rate"}
  \cup {"EventRunResultItem"} \X {"chain_id", "error", "hop_index", "output_text"}
  \cup {"EventRunResultsResponse"} \X {"next_cursor"}
  \cup {"EventTrigger"} \X
         {"callback_url", "event_path", "last_run_at", "next_trigger_id",
          "trigger_token"}
  \cup {"EventTriggerCreatedResponse"} \X
         {"callback_url", "event_path", "last_run_at", "next_trigger_id",
          "trigger_token"}
  \cup {"InvoiceListResponse"} \X {"next_cursor"}
  \cup {"LabelingResultItem"} \X {"actual", "observation_id", "score"}
  \cup {"LlmConfigResponse"} \X
         {"api_base", "created_at", "has_api_key", "is_byok", "max_tokens",
          "model_reasoning_effort", "org_id", "reasoning_effort",
          "routing_preference", "temperature", "timeout_seconds", "updated_at"}
  \cup {"MachineFunnelResponse"} \X
         {"repeat_payer_rate", "settlement_failure_rate",
          "wallet_conversion_rate"}
  \cup {"MarketplaceAgentDirectoryResponse"} \X {"next_cursor"}
  \cup {"MarketplaceAgentRegistrationPreviewResponse"} \X
         {"agent_url", "detail", "price_per_task_usdc"}
  \cup {"MarketplaceAgentRegistrationTestResponse"} \X {"agent_url"}
  \cup {"MarketplaceAgentSummary"} \X
         {"confidence", "is_stale", "last_event_at", "registered_at",
          "reputation_score", "sample_size", "success_rate",
          "unique_caller_count"}
  \cup {"MarketplaceAuthorConfigResponse"} \X
         {"created_at", "settlement_wallet", "updated_at"}
  \cup {"MarketplaceAuthorIndexResponse"} \X {"next_cursor"}
  \cup {"MarketplaceAuthorProfileResponse"} \X {"next_cursor"}
  \cup {"MarketplaceCatalogResponse"} \X {"next_cursor"}
  \cup {"MarketplaceEarningsResponse"} \X {"next_cursor"}
  \cup {"MarketplaceImportPublishedTool"} \X
         {"base_price_usdc", "mcp_server_id", "mcp_tool_name"}
  \cup {"MarketplaceToolSummary"} \X
         {"output_schema", "reputation_score", "success_rate",
          "unique_caller_count"}
  \cup {"MarketplaceWithdrawalHistoryItem"} \X {"tx_hash"}
  \cup {"MarketplaceWithdrawalsListResponse"} \X {"next_cursor"}
  \cup {"MemoryEntry"} \X {"source_run_id"}
  \cup {"MemoryListResponse"} \X {"next_cursor"}
  \cup {"ModelBenchmarksResponse"} \X {"updated_at"}
  \cup {"OrgA2AAgentListItem"} \X {"created_at", "label"}
  \cup {"OrgA2AAgentResponse"} \X {"label"}
  \cup {"OrgCredentialsEntry"} \X {"disabled_at"}
  \cup {"OrgMcpServer"} \X {"auth_header_name", "last_schema_changed_at", "schema_hash"}
  \cup {"OrgTool"} \X
         {"base_price_usdc", "mcp_server_id", "mcp_tool_name", "output_schema",
          "webhook_url"}
  \cup {"PendingSettlementItem"} \X {"last_error", "next_retry_at"}
  \cup {"PossiblyDeliveredDelegationItem"} \X
         {"agent_name", "agent_url", "billing_method", "created_at",
          "delivery_error", "delivery_settlement_tx", "delivery_started_at",
          "settlement_tx", "task_status", "task_type"}
  \cup {"PredictionProofAnchor"} \X
         {"anchor_address", "anchored_at", "block_number", "tx_hash"}
  \cup {"PredictionProofResponse"} \X {"anchor"}
  \cup {"PublicReputationResponse"} \X {"generated_at"}
  \cup {"PublicToolReputation"} \X {"unique_caller_count"}
  \cup {"ScheduledRun"} \X {"callback_url", "last_run_at"}
  \cup {"ScheduledRunResult"} \X {"error", "output_text"}
  \cup {"ScheduledRunsPage"} \X {"next_cursor"}
  \cup {"ScorecardItem"} \X
         {"accuracy", "adjusted_brier", "calibration", "coverage", "mean_brier"}
  \cup {"StripeSessionStatusResponse"} \X {"new_balance_fmt"}
  \cup {"SweepStatusItem"} \X {"last_sweep_error", "next_sweep_at"}
  \cup {"TelemetryCompletenessBySource"} \X {"source=eval", "tool_event_coverage"}
  \cup {"TestMcpToolResponse"} \X {"error", "result"}
  \cup {"TestWebhookResponse"} \X {"error", "response_body", "status_code"}
  \cup {"TrustedAgent"} \X {"label"}
=============================================================================
