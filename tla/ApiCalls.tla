------------------------------ MODULE ApiCalls ------------------------------
(***************************************************************************)
(* The calls of AsyncTeardropClient that are one request and its answer,   *)
(* a row each: what the method asks of the Teardrop API, what it sends,    *)
(* and how it reads the answer.  The calls with a cache read and write it  *)
(* around the request given here (LlmConfigCache, DiscoveryCache); those   *)
(* that log in store the token they get (TokenManager).  Methods that only *)
(* call another one (list_definitions, bind, clear_llm_api_key) and the    *)
(* methods of the synchronous facade have no row of their own.             *)
(***************************************************************************)

(* name   the method, with its module where that is not the client itself
   op     HTTP method and path of the request; * is a path argument
   token  whether the headers are those of _headers, which gets a token
   sends  the JSON body: "nothing"; "fields" built in the method; a dump of the
          request model with "all" fields, those "set" to something but None, those
          "given" by the caller, those "changed" from their default; or, in
          set_llm_config, "sentinel": those set, and None where it was passed
   reads  the answer is "nothing"; a "model"; a "page" with a cursor the method can
          be given, or a "first_page" with one it cannot; an "array" of models, or
          the "items" of an object or array; "tools" of an object or array; a page of
          runs ("schedule_page", "trigger_page"); a "replay" on status 200; "json"
   model  the class of models/ that validates it, or each of its items *)
Call(name, op, token, sends, reads, model) ==
  [name |-> name, op |-> op, token |-> token, sends |-> sends, reads |-> reads, model |-> model]

\* Mutant: public calls get a token as well.
Open_WithToken(name, op, model) == Call(name, op, TRUE, "nothing", "model", model)

\* Without a body, an answer that is one model; with a token, and without.
Ask(name, op, model)  == Call(name, op, TRUE, "nothing", "model", model)
Open(name, op, model) == Call(name, op, FALSE, "nothing", "model", model)

\* With a token and a body.
Submit(name, op, sends, model) == Call(name, op, TRUE, sends, "model", model)

-----------------------------------------------------------------------------
(* client/a2a.py *)

A2aCalls == {
   Call("get_message_status", "GET/message:status/*", FALSE, "nothing", "json", "none"),
   Submit("add_trusted_agent", "POST/a2a/agents", "set", "OrgA2AAgentResponse"),
   Call("list_trusted_agents", "GET/a2a/agents", TRUE, "nothing", "items",
        "OrgA2AAgentListItem"),
   Ask("remove_trusted_agent", "DELETE/a2a/agents/*", "A2AAgentDeletedResponse"),
   Call("get_delegations", "GET/a2a/delegations", TRUE, "nothing", "items",
        "A2ADelegationEvent")}

-----------------------------------------------------------------------------
(* client/admin.py *)

AdminDelegationCalls == {
   Submit("admin_add_a2a_agent", "POST/admin/a2a/agents", "set", "TrustedAgent"),
   Ask("admin_delete_a2a_agent", "DELETE/admin/a2a/agents/*", "A2AAgentDeletedResponse"),
   Call("admin_list_a2a_agents", "GET/admin/a2a/agents/*", TRUE, "nothing", "array",
        "A2AAgentListItem"),
   Call("admin_list_possibly_delivered_delegations",
        "GET/admin/a2a/delegations/possibly-delivered", TRUE, "nothing", "items",
        "PossiblyDeliveredDelegationItem"),
   Submit("admin_resolve_a2a_delegation", "POST/admin/a2a/delegations/*/resolve",
          "changed", "ResolveA2ADelegationResponse")}

AdminBillingCalls == {
   Ask("admin_get_pending_settlements", "GET/admin/billing/pending",
       "PendingSettlementsResponse"),
   Ask("admin_retry_settlement", "POST/admin/billing/pending/*/retry",
       "SettlementRetryResponse"),
   Ask("admin_get_revenue", "GET/admin/billing/revenue", "RevenueSummaryResponse"),
   Ask("admin_get_charge_reconciliation", "GET/admin/billing/charges/reconciliation",
       "ChargeReconciliationResponse"),
   Submit("admin_topup_credits", "POST/admin/credits/topup", "all", "AdminTopupResponse")}

AdminAccountCalls == {
   Submit("admin_create_client_credentials", "POST/admin/client-credentials", "all",
          "CreateClientCredentialsResponse"),
   Submit("admin_create_org", "POST/admin/orgs", "all", "CreateOrgResponse"),
   Submit("admin_create_user", "POST/admin/users", "all", "CreateUserResponse")}

AdminMarketplaceCalls == {
   Submit("admin_complete_withdrawal", "POST/admin/marketplace/complete-withdrawal/*",
          "all", "CompleteWithdrawalResponse"),
   Ask("admin_process_withdrawal", "POST/admin/marketplace/process-withdrawal/*",
       "AdminWithdrawalActionResponse"),
   Ask("admin_reset_withdrawal", "POST/admin/marketplace/reset-withdrawal/*",
       "WithdrawalResetResponse"),
   Ask("admin_get_settlement_balance", "GET/admin/marketplace/settlement-balance",
       "SettlementBalanceResponse"),
   Ask("admin_sweep_marketplace", "POST/admin/marketplace/sweep", "MarketplaceSweepResponse"),
   Ask("admin_sweep_retry_withdrawal", "POST/admin/marketplace/sweep-retry/*",
       "WithdrawalResetResponse"),
   Ask("admin_get_sweep_status", "GET/admin/marketplace/sweep-status", "SweepStatusResponse"),
   Ask("admin_list_withdrawals", "GET/admin/marketplace/withdrawals",
       "AdminWithdrawalListResponse")}

AdminDataCalls == {
   Call("admin_list_mcp_servers", "GET/admin/mcp/servers/*", TRUE, "nothing", "array",
        "OrgMcpServer"),
   Ask("admin_list_org_memories", "GET/admin/memories/org/*", "AdminMemoryListResponse"),
   Ask("admin_purge_org_memories", "DELETE/admin/memories/org/*", "AdminMemoryPurgeResponse"),
   Ask("admin_get_spending_config", "GET/admin/orgs/*/spending", "OrgSpendingConfigResponse"),
   Submit("admin_update_spending_config", "PATCH/admin/orgs/*/spending", "set",
          "OrgSpendingConfigResponse"),
   Submit("admin_upsert_tool_pricing", "POST/admin/pricing/tools", "all",
          "ToolPricingOverrideResponse"),
   Ask("admin_delete_tool_pricing", "DELETE/admin/pricing/tools/*",
       "ToolPricingDeleteResponse"),
   Call("admin_list_tools", "GET/admin/tools/*", TRUE, "nothing", "array", "OrgTool")}

AdminUsageCalls == {
   Ask("admin_get_usage_org", "GET/admin/usage/org/*", "UsageSummary"),
   Ask("admin_get_usage_user", "GET/admin/usage/*", "UsageSummary"),
   Ask("admin_get_telemetry_completeness", "GET/admin/telemetry/completeness",
       "TelemetryCompletenessResponse"),
   Ask("admin_get_discovery_funnel", "GET/admin/telemetry/discovery-funnel",
       "DiscoveryFunnelResponse"),
   Ask("admin_get_machine_funnel", "GET/admin/telemetry/machine-funnel",
       "MachineFunnelResponse")}

-----------------------------------------------------------------------------
(* client/agent.py *)

AgentCalls == {
   Call("get_agent_tools", "GET/agent/tools", TRUE, "nothing", "tools", "AgentTool"),
   Call("get_decisions", "GET/agent/decisions", TRUE, "nothing", "page",
        "AgentDecisionListResponse"),
   Submit("set_run_outcome", "PATCH/agent/runs/*/outcome", "set", "RunOutcomeResponse"),
   Submit("dispatch_event", "POST/agent/events/*", "fields", "EventDispatchResponse"),
   Ask("get_tool_exclusions", "GET/agent/tool-exclusions", "ToolExclusionListResponse"),
   Ask("list_tool_exclusions", "GET/agent/tool-exclusions", "ToolExclusionsResponse"),
   Submit("add_tool_exclusion", "POST/agent/tool-exclusions", "fields",
          "ToolExclusionActionResponse"),
   Submit("create_tool_exclusion", "POST/agent/tool-exclusions", "set",
          "ToolExclusionCreateResponse"),
   Ask("remove_tool_exclusion", "DELETE/agent/tool-exclusions/*",
       "ToolExclusionRemovedResponse"),
   Call("delete_tool_exclusion", "DELETE/agent/tool-exclusions/*", TRUE, "nothing",
        "nothing", "none"),
   Call("get_agent_decisions", "GET/agent/decisions", TRUE, "nothing", "page",
        "AgentDecisionsResponse")}

-----------------------------------------------------------------------------
(* client/auth.py *)

AccountCalls == {
   Open("get_siwe_nonce", "GET/auth/siwe/nonce", "SiweNonceResponse"),
   Ask("get_me", "GET/auth/me", "AuthMeResponse"),
   Call("register", "POST/register", FALSE, "fields", "model", "TokenResponse"),
   Call("register_invite", "POST/register/invite", FALSE, "fields", "model", "TokenResponse"),
   Call("refresh", "POST/auth/refresh", FALSE, "fields", "model", "TokenResponse"),
   Call("logout", "POST/auth/logout", TRUE, "fields", "nothing", "none"),
   Open("verify_email", "GET/auth/verify-email", "VerifyEmailResponse"),
   Call("resend_verification", "POST/auth/resend-verification", FALSE, "fields", "model",
        "ResendVerificationResponse")}

OrgCalls == {
   Submit("invite", "POST/org/invite", "fields", "CreateInviteResponse"),
   Call("get_org_credentials", "GET/org/credentials", TRUE, "nothing", "array",
        "OrgCredentialsEntry"),
   Ask("regenerate_org_credentials", "POST/org/credentials/regenerate",
       "RegenerateCredentialsResponse"),
   Ask("disable_org_credential", "POST/org/credentials/*/disable",
       "OrgCredentialDisableResponse"),
   Call("get_org_principal_spend_limits", "GET/org/principals/spend-limits", TRUE,
        "nothing", "items", "PrincipalSpendLimitResponse"),
   Submit("set_org_principal_spend_limit", "PUT/org/principals/*/spend-limit", "set",
          "PrincipalSpendLimitResponse"),
   Call("delete_org_principal_spend_limit", "DELETE/org/principals/*/spend-limit", TRUE,
        "nothing", "nothing", "none")}

-----------------------------------------------------------------------------
(* client/billing.py *)

BillingCalls == {
   Ask("get_balance", "GET/billing/balance", "BillingBalanceResponse"),
   Open("get_pricing", "GET/billing/pricing", "BillingPricingResponse"),
   Call("get_billing_history", "GET/billing/history", TRUE, "nothing", "items",
        "BillingHistoryItem"),
   Call("get_invoices", "GET/billing/invoices", TRUE, "nothing", "first_page",
        "InvoiceListResponse"),
   Ask("get_invoice", "GET/billing/invoice/*", "InvoiceItem"),
   Call("get_credit_history", "GET/billing/credit-history", TRUE, "nothing", "first_page",
        "CreditHistoryResponse"),
   Submit("topup_stripe", "POST/billing/topup/stripe", "all", "StripeTopupResponse"),
   Ask("get_stripe_topup_status", "GET/billing/topup/stripe/status",
       "StripeSessionStatusResponse"),
   Ask("get_usdc_topup_requirements", "GET/billing/topup/usdc/requirements",
       "UsdcTopupRequirementsResponse"),
   Submit("topup_usdc", "POST/billing/topup/usdc", "set", "UsdcTopupResponse")}

-----------------------------------------------------------------------------
(* client/event_triggers.py *)

EventTriggerCalls == {
   Submit("event_triggers.create", "POST/agent/event-triggers", "set",
          "EventTriggerCreatedResponse"),
   Ask("event_triggers.list", "GET/agent/event-triggers", "EventTriggerListResponse"),
   Ask("event_triggers.get", "GET/agent/event-triggers/*", "EventTrigger"),
   Submit("event_triggers.update", "PATCH/agent/event-triggers/*", "given", "EventTrigger"),
   Ask("event_triggers.delete", "DELETE/agent/event-triggers/*", "ScheduleDeletedResponse"),
   Ask("event_triggers.rotate_secret", "POST/agent/event-triggers/*/rotate-secret",
       "RotateSecretResponse"),
   Ask("event_triggers.get_run", "GET/agent/event-triggers/*/runs/*", "EventTaskResponse"),
   Call("event_triggers.runs", "GET/agent/event-triggers/*/runs", TRUE, "nothing",
        "trigger_page", "EventRunResultsResponse")}

-----------------------------------------------------------------------------
(* client/labeling.py *)

LabelingCalls == {
   Ask("labeling.get_definitions", "GET/labeling/definitions",
       "LabelingDefinitionListResponse"),
   Ask("labeling.get_predictions", "GET/labeling/predictions",
       "LabelingPredictionListResponse"),
   Call("labeling.submit_prediction", "POST/labeling/predictions", TRUE, "all", "replay",
        "PredictionSubmitResponse"),
   Ask("labeling.get_prediction_proof", "GET/labeling/predictions/*/proof",
       "PredictionProofResponse"),
   Ask("labeling.get_results", "GET/labeling/results", "LabelingResultListResponse"),
   Submit("labeling.bind_definition", "POST/labeling/bindings", "set",
          "LabelingBindingResponse"),
   Submit("labeling.override_result", "POST/labeling/results/*/override", "set",
          "LabelingOverrideResponse")}

-----------------------------------------------------------------------------
(* client/llm.py *)

LlmCalls == {
   Ask("get_llm_config", "GET/llm-config", "LlmConfigResponse"),
   Submit("set_llm_config", "PUT/llm-config", "sentinel", "LlmConfigResponse"),
   Ask("delete_llm_config", "DELETE/llm-config", "LlmConfigDeletedResponse"),
   Open("get_model_benchmarks", "GET/models/benchmarks", "ModelBenchmarksResponse"),
   Ask("get_org_model_benchmarks", "GET/models/benchmarks/org", "ModelBenchmarksResponse")}

-----------------------------------------------------------------------------
(* client/marketplace.py *)

RegistrationCalls == {
   Ask("get_agent_registration", "GET/marketplace/agent-registration",
       "MarketplaceAgentRegistrationResponse"),
   Submit("set_agent_registration", "PUT/marketplace/agent-registration", "set",
          "MarketplaceAgentRegistrationResponse"),
   Call("delete_agent_registration", "DELETE/marketplace/agent-registration", TRUE,
        "nothing", "nothing", "none"),
   Submit("preview_agent_registration", "POST/marketplace/agent-registration/preview",
          "set", "MarketplaceAgentRegistrationPreviewResponse"),
   Submit("test_agent_registration", "POST/marketplace/agent-registration/test", "set",
          "MarketplaceAgentRegistrationTestResponse")}

CatalogCalls == {
   Call("get_marketplace_agents", "GET/marketplace/agents", FALSE, "nothing", "page",
        "MarketplaceAgentDirectoryResponse"),
   Call("get_marketplace_authors", "GET/marketplace/authors", FALSE, "nothing", "page",
        "MarketplaceAuthorIndexResponse"),
   Open("get_marketplace_quote", "GET/marketplace/quote", "MarketplaceQuoteResponse"),
   Open("get_marketplace_delegation_quote", "GET/marketplace/delegation/quote",
        "MarketplaceDelegationQuoteResponse"),
   Call("get_marketplace_catalog", "GET/marketplace/catalog", FALSE, "nothing", "page",
        "MarketplaceCatalogResponse"),
   Ask("get_marketplace_catalog_detail", "GET/marketplace/catalog/*/*",
       "MarketplaceCatalogDetailResponse"),
   Open("get_public_reputation", "GET/.well-known/reputation.json",
        "PublicReputationResponse")}

AuthorCalls == {
   Submit("set_author_config", "POST/marketplace/author-config", "fields",
          "MarketplaceAuthorConfigResponse"),
   Ask("get_author_config", "GET/marketplace/author-config",
       "MarketplaceAuthorConfigResponse"),
   Call("get_author_profile", "GET/marketplace/authors/*", TRUE, "nothing", "first_page",
        "MarketplaceAuthorProfileResponse"),
   Ask("get_marketplace_balance", "GET/marketplace/balance", "MarketplaceBalanceResponse"),
   Call("get_earnings", "GET/marketplace/earnings", TRUE, "nothing", "page",
        "MarketplaceEarningsResponse"),
   Call("get_earnings_by_tool", "GET/marketplace/earnings/by-tool", TRUE, "nothing",
        "page", "MarketplaceEarningsByToolResponse"),
   Submit("withdraw", "POST/marketplace/withdraw", "set", "MarketplaceWithdrawalResponse"),
   Call("get_withdrawals", "GET/marketplace/withdrawals", TRUE, "nothing", "page",
        "MarketplaceWithdrawalsListResponse")}

SubscriptionCalls == {
   Submit("subscribe", "POST/marketplace/subscriptions", "fields",
          "MarketplaceSubscriptionResponse"),
   Ask("get_subscriptions", "GET/marketplace/subscriptions",
       "MarketplaceSubscriptionListResponse"),
   Ask("unsubscribe", "DELETE/marketplace/subscriptions/*", "UnsubscribeResponse"),
   Submit("submit_feedback", "POST/marketplace/tools/*/*/feedback", "set",
          "RunFeedbackResponse"),
   Submit("import_preview", "POST/marketplace/import/preview", "set",
          "MarketplaceImportPreviewResponse"),
   Submit("import_publish", "POST/marketplace/import/publish", "set",
          "MarketplaceImportPublishResponse")}

-----------------------------------------------------------------------------
(* client/mcp.py *)

McpCalls == {
   Submit("create_mcp_server", "POST/mcp/servers", "set", "OrgMcpServer"),
   Call("list_mcp_servers", "GET/mcp/servers", TRUE, "nothing", "items", "OrgMcpServer"),
   Ask("get_mcp_server", "GET/mcp/servers/*", "OrgMcpServer"),
   Submit("update_mcp_server", "PATCH/mcp/servers/*", "given", "OrgMcpServer"),
   Ask("delete_mcp_server", "DELETE/mcp/servers/*", "McpServerDeletedResponse"),
   Ask("discover_mcp_server_tools", "POST/mcp/servers/*/discover", "DiscoverMcpToolsResponse"),
   Submit("test_mcp_tool", "POST/mcp/servers/*/test-tool", "fields", "TestMcpToolResponse")}

-----------------------------------------------------------------------------
(* client/memory.py *)

MemoryCalls == {
   Call("list_memories", "GET/memories", TRUE, "nothing", "first_page", "MemoryListResponse"),
   Submit("create_memory", "POST/memories", "set", "MemoryCreatedResponse"),
   Ask("delete_memory", "DELETE/memories/*", "MemoryDeletedResponse")}

-----------------------------------------------------------------------------
(* client/schedules.py *)

ScheduleCalls == {
   Submit("schedules.create", "POST/agent/schedules", "set", "ScheduledRun"),
   Ask("schedules.list", "GET/agent/schedules", "ScheduledRunListResponse"),
   Ask("schedules.get", "GET/agent/schedules/*", "ScheduledRun"),
   Submit("schedules.update", "PATCH/agent/schedules/*", "given", "ScheduledRun"),
   Ask("schedules.delete", "DELETE/agent/schedules/*", "ScheduleDeletedResponse"),
   Ask("schedules.run_now", "POST/agent/schedules/*/run", "ScheduleRunNowResponse"),
   Call("schedules.runs", "GET/agent/schedules/*/runs", TRUE, "nothing", "schedule_page",
        "ScheduledRunsPage")}

-----------------------------------------------------------------------------
(* client/scorecards.py *)

ScorecardCalls == {
   Open("scorecards.list_tasks", "GET/scorecards/tasks", "ScorecardTaskListResponse"),
   Open("scorecards.get_leaderboard", "GET/scorecards/*/*", "LeaderboardResponse"),
   Open("scorecards.get_scorecard", "GET/scorecards/*/*/*", "ScorecardResponse")}

-----------------------------------------------------------------------------
(* client/tools.py *)

ToolCalls == {
   Submit("create_tool", "POST/tools", "set", "OrgTool"),
   Call("list_tools", "GET/tools", TRUE, "nothing", "items", "OrgTool"),
   Ask("get_tool", "GET/tools/*", "OrgTool"),
   Submit("update_tool", "PATCH/tools/*", "given", "OrgTool"),
   Ask("delete_tool", "DELETE/tools/*", "ToolDeletedResponse"),
   Submit("test_webhook", "POST/tools/test-webhook", "fields", "TestWebhookResponse")}

-----------------------------------------------------------------------------
(* client/usage.py *)

UsageCalls == {
   Ask("get_usage", "GET/usage/me", "UsageSummary"),
   Ask("get_admin_usage_org", "GET/admin/usage/org/*", "UsageSummary"),
   Ask("get_admin_usage_user", "GET/admin/usage/*", "UsageSummary")}

-----------------------------------------------------------------------------
(* client/wallets.py *)

WalletCalls == {
   Submit("link_wallet", "POST/wallets/link", "all", "LinkWalletResponse"),
   Call("get_wallets", "GET/wallets/me", TRUE, "nothing", "items", "Wallet"),
   Ask("delete_wallet", "DELETE/wallets/*", "WalletDeletedResponse"),
   Ask("provision_agent_wallet", "POST/wallets/agent", "AgentWalletResponse"),
   Ask("get_agent_wallet", "GET/wallets/agent", "AgentWalletResponse"),
   Ask("deactivate_agent_wallet", "DELETE/wallets/agent", "AgentWalletDeactivatedResponse")}

-----------------------------------------------------------------------------
SdkCalls ==
  UNION {A2aCalls, AdminDelegationCalls, AdminBillingCalls, AdminAccountCalls,
         AdminMarketplaceCalls, AdminDataCalls, AdminUsageCalls, AgentCalls,
         AccountCalls, OrgCalls, BillingCalls, EventTriggerCalls,
         LabelingCalls, LlmCalls, RegistrationCalls, CatalogCalls,
         AuthorCalls, SubscriptionCalls, McpCalls, MemoryCalls,
         ScheduleCalls, ScorecardCalls, ToolCalls, UsageCalls, WalletCalls}
=============================================================================
