---------------------------- MODULE ServerEvents ----------------------------
(***************************************************************************)
(* ClientCalls with what a call lets the server send later: callbacks of   *)
(* an event trigger, signed with the secret that rotate_secret changes and *)
(* verified by the caller (WebhookVerify), and events of agent runs, which *)
(* name the tools of an MCP server or of a subscription (ToolNames).       *)
(***************************************************************************)
EXTENDS ClientCalls, WebhookVerify, ToolNames

CONSTANTS
  Tolerance,  \* tolerance_seconds of the receiver
  Skews,      \* by how much the receiver's clock may be ahead
  MaxTime     \* bound of the clock

ASSUME ClockAssumption ==
  Tolerance \in Nat /\ Skews \subseteq Int /\ MaxTime \in Nat

VARIABLES
  secret,    \* the trigger's, by how often it was rotated
  offered,   \* the secret in the last answer to rotate_secret
  known,     \* the secret the receiver verifies with
  clock,     \* the server's clock
  skew,      \* of the receiver's
  callback,  \* the callback on its way, or delivered with a verdict
  tool       \* the tool an event names

secrets == <<secret, offered, known>>
events == <<secrets, clock, skew, callback, tool>>

Rotates == call.name = "event_triggers.rotate_secret"

NoCallback == [verdict |-> "none sent"]
NoTool == [kind |-> "none"]

EventsInit ==
  /\ Init
  /\ secret = 0 /\ offered = 0 /\ known = 0
  /\ clock = 0
  /\ skew \in IF Rotates THEN Skews ELSE {0}
  /\ callback = NoCallback
  /\ tool = NoTool

-----------------------------------------------------------------------------
(* The trigger's secret *)

\* Every request that is served rotates the secret, a late one too.
ServeRotation ==
  /\ Serve
  /\ secret' = IF Rotates THEN secret + 1 ELSE secret
  /\ offered' = secret'
  /\ UNCHANGED <<known, clock, skew, callback, tool>>

ServeLateRotation ==
  /\ ServeLate
  /\ secret' = IF Rotates THEN secret + 1 ELSE secret
  /\ UNCHANGED <<offered, known, clock, skew, callback, tool>>

\* The caller gives its receiver the secret of the answer.
ReceiveSecret ==
  /\ ReceiveResult
  /\ known' = offered
  /\ UNCHANGED <<secret, offered, clock, skew, callback, tool>>

-----------------------------------------------------------------------------
(* Callbacks *)

Payloads == {"p", "q"}

\* What a header may hold before the two parts that verify_webhook is after: another
\* scheme, values it cannot read, the parts of another signature.
Others == {Part("v0", Text), Part("v1", Nothing), Part("t", Text), Part("v1", NonAscii),
           Part("v1", Mac(1, 1, "p")), Part("t", Number(1))}

SendCallback(payload) ==
  /\ Rotates /\ callback = NoCallback
  /\ \E others \in {<<>>} \cup {<<o>> : o \in Others} :
       callback' = [payload |-> payload, signed |-> secret, sent |-> clock,
                    header |-> others \o SignWebhook(payload, secret, clock),
                    body |-> payload, with |-> known, at |-> clock,
                    verdict |-> "on its way"]
  /\ UNCHANGED <<vars, secrets, clock, skew, tool>>

\* What comes in before the receiver as the body may have been encoded anew.
Verify(body) ==
  /\ callback.verdict = "on its way"
  /\ callback' = [callback EXCEPT
       !.body = body, !.with = known, !.at = clock + skew,
       !.verdict = VerifyWebhook(body, callback.header, known, Tolerance, clock + skew)]
  /\ UNCHANGED <<vars, secrets, clock, skew, tool>>

Tick ==
  /\ Rotates /\ clock < MaxTime
  /\ clock' = clock + 1
  /\ UNCHANGED <<vars, secrets, skew, callback, tool>>

-----------------------------------------------------------------------------
(* Tools *)

Words(characters, n) == UNION {[1..k -> characters] : k \in 1..n}

\* The names CreateMcpServerRequest admits begin with a letter.
ServerNames == {w \in Words({"a", Underscore}, 3) : w[1] = "a"}

CallMcpTool ==
  /\ call.name = "create_mcp_server" /\ done /\ tool = NoTool
  /\ \E s \in ServerNames, name \in Words({"a", Underscore}, 3) :
       tool' = [kind |-> "mcp", of |-> s, name |-> name,
                text |-> s \o McpSeparator \o name]
  /\ UNCHANGED <<vars, secrets, clock, skew, callback>>

\* A tool subscribed to by its qualified name, of which neither part has a slash
\* (spec/openapi.json:7265); in events its name is `{org_slug}__{tool_name}`
\* (docs/marketplace.md:202).
CallMarketplaceTool ==
  /\ call.name = "subscribe" /\ done /\ tool = NoTool
  /\ \E slug \in Words({"a", Underscore}, 2), name \in Words({"a", Underscore}, 3) :
       tool' = [kind |-> "marketplace", of |-> slug, name |-> name,
                qualified |-> slug \o MarketplaceSeparator \o name,
                text |-> slug \o McpSeparator \o name]
  /\ UNCHANGED <<vars, secrets, clock, skew, callback>>

-----------------------------------------------------------------------------
EventsNext ==
  \/ ServeRotation \/ ServeLateRotation \/ ReceiveSecret
  \/ /\ \/ NoToken \/ Send \/ ReceiveRefusal \/ ReceiveNone \/ ReceiveUnreadable
        \/ ReceivePage \/ GivenUp \/ Stop \/ Repeat
        \/ Refuse \/ ProxyAnswer \/ NewEntry
     /\ UNCHANGED events
  \/ \E p \in Payloads : SendCallback(p) \/ Verify(p)
  \/ Tick
  \/ CallMcpTool \/ CallMarketplaceTool

EventsSpec ==
  EventsInit /\ [][EventsNext]_<<vars, events>> /\ WF_vars(NoToken \/ Send \/ Receive \/ GivenUp)

-----------------------------------------------------------------------------
(* Properties *)

\* A callback is verified exactly if it came as it was signed, with the secret the
\* receiver has, and at most the tolerance before or after its time by the receiver's
\* clock: whatever precedes its signature in the header, and however rotations, lost
\* answers and late requests fall between its sending and its arrival.
VerifiedIfSigned ==
  callback.verdict \notin {"none sent", "on its way"} =>
    (callback.verdict = "verified" <=>
       /\ callback.body = callback.payload
       /\ callback.with = callback.signed
       /\ callback.at - callback.sent \in -Tolerance..Tolerance)

\* No separator begins in the owner's name: none in it, none across its end.
Separable(s) == Find(s, McpSeparator) = 0 /\ Last(s) # Underscore

\* The name of a tool in an event comes apart, by parse_mcp_tool_name, where it was put
\* together, for every tool and every separable owner, single underscores belonging to
\* the names as the docstring says; an owner's name that ends in an underscore is cut
\* short of it.  A marketplace tool's is read so too, as that of an MCP server with the
\* name of the slug.  parse_marketplace_tool_name takes qualified names apart.
NamesSplit ==
  /\ tool.kind \in {"mcp", "marketplace"} =>
       (ParseMcpToolName(tool.text) = [is_mcp |-> TRUE, server |-> tool.of, tool |-> tool.name]
          <=> Separable(tool.of))
  /\ tool.kind = "marketplace" =>
       ParseMarketplaceToolName(tool.qualified) = [org_slug |-> tool.of, tool_name |-> tool.name]

\* docs/marketplace.md:202: "Marketplace tools are namespaced as {org_slug}__{tool_name}
\* in tool call events", and parse_marketplace_tool_name("acme__web_search") gives the
\* slug and the tool's name.
EventNamesSplit ==
  tool.kind = "marketplace" =>
    ParseMarketplaceToolName(tool.text) = [org_slug |-> tool.of, tool_name |-> tool.name]
=============================================================================
