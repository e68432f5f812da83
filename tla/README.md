# Verification of the Teardrop SDK

TLA+ models of the Teardrop Python SDK: the parts that keep state between calls,
and its some 140 stateless calls against the API they are made to; TLC instances that
check them, and TLAPS proofs of their safety properties. Paths below are relative to the repository; `client/…`, `auth.py`
and `streaming/…` are under `src/teardrop/`.

## 1. The system

`AsyncTeardropClient` (`client/_async.py`) is a set of mixins over
`_AsyncClientBase` (`client/_core.py`). All of its coroutines run on one event
loop, so two tasks interleave only where one of them awaits. What it keeps:

| Component | State | Operations | Interacts with |
|---|---|---|---|
| Token manager, `auth.py` | `_token`, `_expires_at`, `_refresh_token`, `_lock`, credentials | `get_token`, `authenticate_siwe` | called by `_headers` of every authenticated call; five logins write its fields |
| Auth calls, `client/auth.py` | the token cell | `register`, `register_invite`, `refresh`, `bootstrap_x402`, SIWE; stateless ones | write the token cell without its lock |
| LLM configuration, `client/llm.py` | `_llm_config_cache`, `_llm_config_lock` | `get_llm_config`, `set_llm_config`, `clear_llm_api_key`, `delete_llm_config` | takes the token lock while it holds its own |
| Model benchmarks, `client/llm.py` | `_model_benchmarks_cache`, its lock | `get_model_benchmarks` | public GET |
| Agent card, `client/agent_card.py` | `_agent_card`, `_agent_card_fetched_at`, its lock | `get_agent_card(force_refresh)`, `from_agent_card` | public GET |
| HTTP session, `client/_core.py` | `_http` | `_get_http`, `close`, `_raise_for_status`, `_HttpProxy` | under every call |
| Agent runs, `client/agent.py`, `streaming/sse.py` | locals of `iter_sse_events` | `run`, `iter_sse_events`, `collect_text` | a streaming POST over the session |
| Synchronous facade, `client/_sync.py`, `client/_admin_sync.py` | `_portal`, `_portal_exit` | `_ensure_portal`, `_run`, `run_sync`, `close` | one thread with an event loop; any thread may call |
| Schedules, event triggers | the cursor of `runs_iter` | CRUD, `runs`, `runs_iter`, `rotate_secret` | pages of the server |
| Webhook verification, `webhook_verify.py` | none | `sign_webhook`, `verify_webhook` | the clock, the secret of a trigger |
| Tool names, `streaming/tool_names.py` | none | `parse_mcp_tool_name`, `parse_marketplace_tool_name` | the names in an agent run's events |
| Marketplace, A2A, billing, MCP, tools, wallets, memory, usage, labeling, scorecards, administration, `client/*.py` and `models/*.py` | none | a request and the reading of its answer each | the session, the token manager, the API of `spec/openapi.json` |

What is hard in it: the check, lock, check-again pattern of four caches, with
cancellation at every await; logins that write the token cell while a fetch is in
flight; requests whose outcome the caller never learns; a session closed under
running calls; an incremental parser fed by a connection that may break;
threads over an event loop in the facade; walks through lists that grow; and answers
that the API documents but a model's class does not take.

What makes each component correct:

- token manager: one POST per expiry however many tasks need the token; the
  expiry judged by is that of the token returned; a client with credentials
  hands out no stale token; no cancellation strands the lock; a login sticks
- LLM configuration: reads coalesced; after any mix of reads, writes and failures
  the cache is no older than the last write of this client; bounded staleness
  towards other writers; a delete is idempotent
- agent card, benchmarks: the same for reads, and a forced read is fresh
- session: at most one HTTP client open; calls fail on a closed one only when
  `close()` overlapped them; errors are `TeardropError`s
- SSE: exactly one event per block, in order, and nothing of a broken one
- facade: one event loop at a time, stopped by `close()`; a portal that is held takes
  calls; an HTTP client is used on its own loop; `close()` ends once no stream is read
- stateless calls: a call needs a token where its operation does and nowhere else;
  every answer the API documents is read; an answer that is not the API's is noticed
  by who looks at it;
  an update leaves a field alone, clears or changes it as its caller wished
- pagination: each entry once, in order, all of them, and an end
- labeling: `None`, "already submitted", comes only to who submitted before
- webhooks: a callback is verified exactly if it came as signed, with the receiver's
  secret, within the tolerance

## 2. Modules

| Module | Models | Checked by | Proofs |
|---|---|---|---|
| `AnyioLock` | `anyio.Lock`, external, from how the SDK uses it: a record of owner and queue, with the cancellation of a waiter | every module that uses it | `AnyioLockProofs`: each operation keeps its type and discipline |
| `TokenManager` | `auth.py` and the logins of `client/auth.py` | `MCTokenManager` | `TokenManagerProofs` |
| `StaleRegister` | no code: what a cached read promises | refined by the two caches | |
| `LlmConfigCache` | get, set and delete of `client/llm.py` | itself | `LlmConfigCacheProofs` |
| `DiscoveryCache` | `get_agent_card`, `get_model_benchmarks` | itself | `DiscoveryCacheProofs` |
| `HttpSession` | `_get_http`, `close`, `_HttpProxy`, `_raise_for_status` | itself | `HttpSessionProofs` |
| `SseStream` | `run`, `iter_sse_events` | itself | `SseStreamProofs` |
| `SyncFacade` | `_ensure_portal`, `_run`, `run_sync`, `close` of `client/_sync.py` and `client/_admin_sync.py` | itself | `SyncFacadeProofs` |
| `ApiCalls` | the methods of `client/*.py` that make one request, a row each, and the rows of each group | `MCClientCalls` | |
| `ResultModels` | `models/*.py`: the answer classes, the fields whose type has `None`, the classes within a class, the classes that any object fits | `MCClientCalls` | |
| `ApiDocument` | the API, external, from `spec/openapi.json`: which operations are public, paged, arrays, which fields are nullable | `MCClientCalls` | |
| `ClientCalls` | a row of `ApiCalls`, or a walk through pages, from caller to server and back | `MCClientCalls` | `ClientCallsProofs` |
| `WebhookVerify`, `ToolNames` | `webhook_verify.py`; the name parsers of `streaming/tool_names.py`: operators | `MCClientCalls` | `ClientCallsProofs` |
| `ServerEvents` | `ClientCalls` composed with what a call lets the server send later: signed callbacks, events that name tools | `MCClientCalls` | `ClientCallsProofs` |

Conventions. A step of a module is what a task does between two awaits: code
without an await between is one action. `pc[t]` says at which await task `t`
is. Ghost variables are marked where they are declared; no guard reads one. An
operator named `X_Y` beside a definition `X` is a plausible bug of `X`, kept to
show that a property notices it; nothing uses it.

### TokenManager

`token` is a record of where the token came from and the expiry in it (0 for an
opaque one), `expiresAt` and `refreshToken` are the two other fields. `get_token`
is `GetFast`, `GetStatic` and `GetWithoutCredentials` (the three ends before the
lock), `GetSlow` (joins the lock), `RecheckFresh` and `RecheckStale` (owner's
second look, then the POST), `FetchAnswered`, `FetchFailed` (a bad status, a bad
body, a transport error, cancellation) and `LockCancelled`. A login is a POST
(`LoginPost`) and, any time later, `StoreLogin` with its name, or `LoginFailed`.
Credentials and the constructor's token are chosen in `Init`, so all
constructors are covered.

### LlmConfigCache, DiscoveryCache and StaleRegister

The server is a history of versions with their times. A call queues for the lock,
looks at the cache again, sends its request; the server serves it at some moment;
the answer is stored, found malformed, or never seen (`GivenUp`). Writes by
others, and writes of this client that were given up and arrive late, are
`OtherWrite`. `StaleRegister` is the promise: a read returns a version no older
than any returned before, and not one replaced `Window` ago or earlier. Both caches implement it
with `Window = TTL + Delay`, where `Delay` bounds how long an answer is under
way: the code stores the time of arrival, so an answer's travel adds to its age.
`DiscoveryCache` adds forced reads, which skip the cache twice.

### HttpSession

Clients are numbered; `http` is the one the SDK holds. A call looks it up once
(`Begin`; calls behind a cache's lock do so later, `Queue` then `Begin`), may wait
for a token, and sends. `Close` may come between. Every call ends with an
outcome: the class of its exception, its cause and the status of the answer.
The `RuntimeError` of httpx for a closed client and the exceptions of pydantic are part
of it. `_raise_for_status` and `_HttpProxy._call` are `ErrorOf` and `Translated`.

### SseStream

A line is a field and a value; the value of a data line is one of the pieces of
JSON the parser tells apart, one with an empty `event` and data that is no dictionary
among them. Empty data lines are white space to `json.loads` wherever they fall after
the bracket that opens (`Parsed`). One action per branch of the parser, plus the end of
the body, a broken connection and a caller that stops. `Events` is an independent
definition of the same events that looks at the whole body at once: the lines of a
block are those after the last blank line, an event ends where a block with data does
and takes the last `event` of its block, the last `id` and `retry` since the event before,
and the data of its block in order. `Body` is what counts of the lines received: all, and
one more blank line if the body came to its end. `NoText` stands for the empty string.

### SyncFacade

Portals are numbered as they start; `portal` is the one in `_portal`, `running` those
whose loop runs, `stopped` those told to stop. A thread waits in a call or in one
of the three stages of `close()` (`closing`: the coroutine that closes the HTTP client;
`exiting`, `joining`: the two halves of `_portal_exit`). Its coroutine is a process
of its own, because an interrupted thread leaves it in the loop (`Interrupted`); `streams` says
which coroutines are a `run_sync`'s, which may go on as long as the server likes. `LookUp` is
the step in which the coroutine gets the HTTP client, the only one that ties a client
to a loop.

The facade has no lock, and two threads that make its first call together each
start a portal. The model is of callers that make the first use and `close()`
alone (`Alone`); calls of any number of threads in between overlap freely.
Two ghosts bound what holds: `torn`, a `close()` interrupted in `_portal_exit`, which skips the
assignments of `None` and leaves a stopped portal every later call is sent to;
and `clean`, which ends when `close()` runs beside a call that was interrupted:
that call may look up its HTTP client after `close()` has closed it, and the
next portal then finds a client of the former loop.

### ApiCalls, ResultModels, ApiDocument and ClientCalls

A row has the name of the method, the operation of the API it requests (method and
path), whether it calls `_headers` (`token`), how its body drops fields (`sends`: `set` is
`exclude_unset`, `null` keeps them, and so on), how it
reads the answer (`reads`) and the class it validates with (`model`). The rows are the
methods' data; what all methods have in common is the control, in `ClientCalls`: headers or
`NoToken`, the request, the status, `None` or the body, a `ValidationError`, and for
`runs_iter` the next page. `schedule_page` is `_parse_schedule_run_page` with its three
shapes, `trigger_page` the strict one of event triggers, `replay` the 200 and 201 of
`submit_prediction`, `first_page` the calls whose method takes no cursor.

The server is modelled from its document: a page holds some of the entries left and a
cursor unless none is left; the list grows at its head. It may refuse a request, or never answer;
a proxy before it may answer with JSON of any shape (`ProxyBodies`) or text of its own. A
request whose caller gave up may arrive late, and the caller may repeat a call that failed: a
walk by its own loop over `runs()` from the cursor it has, one by `runs_iter`, whose generator
is over once it has raised and shows no cursor, from the beginning. An answer holds at most one
*odd* value: a null in a nullable field, or a string outside the `Literal`, of the
answer's class or a class within it. `Odd` comes from the document, `Admits` from the classes, and
neither is derived from the other. `Takes` says of each reading which bodies its code goes
through without an exception: a comprehension over the body takes `[]`, `{}` and `""`, and
`data.get("items", [])` any object.

`start` is a ghost (the entries when the first page was made) and so is `garbled` (this
try was answered by the proxy).

The properties name the exceptions the code has, each with its line: the calls that get
a token nobody asks for (`NeedlessToken`), those that read any JSON (`ReadsAnything`), the
bodies that the rest read as an empty list (`EmptyList`), the nullable fields that are
refused (`Refused`). The last are divergences from the document: an unrated tool, for one,
whose `reputation_score` is null (`spec/openapi.json:4630`), makes
`get_marketplace_catalog_detail` and `get_author_profile` raise (`models/marketplace.py:50`),
though not `get_marketplace_catalog`, whose class has no such field.

### ServerEvents, WebhookVerify and ToolNames

`rotate_secret` is the call whose answer matters later: each served request, late or
repeated, makes a new secret; the receiver verifies with the one in the last answer it got.
A callback is signed with the server's secret and time, may arrive after a rotation, with
another body, after other parts in its header, and is judged by the receiver's clock.
A signature is a record of what was signed and with what, so equal signatures are
signatures of the same: HMAC is taken to be injective. A header is a sequence of parts, and
`VerifyWebhook` reads it as the code does: the last `t`, the last `v1`.

A tool's name is a sequence of characters, since where the separators fall is the whole
question: `CallMcpTool` and `CallMarketplaceTool` build a name as the server does and the
properties take it apart with the code's parsers. A marketplace tool has two names: the
qualified one it is subscribed to by, `org_slug/tool_name`, and the one in events,
`org_slug__tool_name` (`docs/marketplace.md:202`), which has the form of an MCP tool's.
`parse_mcp_tool_name` therefore takes it for one, and `parse_marketplace_tool_name`, to which
the documentation gives it, raises.

## 3. Runs

| Run | Shows | Instance |
|---|---|---|
| `token_logins` | types, fields in step, provenance of the refresh token, freshness of what is returned, lock discipline, single flight, no fetch over a usable token, every call ends | 3 tasks, so that one owns, one is first and one second in the queue; two of them log in, each with logins of its own; clock to 2 |
| `token_login_sticks` (violation) | a login is overwritten by a fetch that was in flight | 2 tasks |
| `llm_cache` | one request at a time, coalesced reads, coherence, refinement of `StaleRegister`, every call ends | 2 tasks beside another writer, 3 versions, TTL 2, clock to 4: past one TTL plus delay |
| `llm_delete_twice` (violation) | a repeated delete leaves the deleted configuration cached | 1 task |
| `discovery_reads` | one fetch at a time, coalescing, forced reads fresh, refinement of `StaleRegister` | 2 tasks, forced and not, clock to 4 |
| `session_calls` | one open client, closed only by `close()` | 3 tasks, 3 clients: two closes and reopenings |
| `session_errors` (violation) | transport errors and a Retry-After date escape untranslated | 2 tasks |
| `sse_events` | the parser against its definition | every body of up to 5 lines over 14 kinds of line: two blocks with two fields each |
| `facade_threads` | one loop, held portal takes calls, clients on their loop, `close()` ends once no stream is read | 3 threads, 3 portals: closed twice and used again |
| `sse_ids` (violation) | an id reaches a later block | 5 lines |
| `client_calls` | tokens where needed, replays, garbled answers, order and completeness of walks, updates, documented answers read, walks end, callbacks, tool names | every row; lists of up to 5 entries in pages of 2, three tries, clocks one behind to two ahead |
| `event_names` (violation) | a marketplace tool's name in an event is not taken apart | every row, one try, names of up to 3 characters |

Bounds. `MaxTime`, `MaxWrites`, `MaxVersions`, `MaxClients`, `MaxPortals`, `MaxLines`,
`MaxEntries` and `MaxTries` cut infinite runs short and nothing else; each instance is
large enough that an entry
is filled, expires and is filled again, or a client is closed and opened twice.
Two tasks show every
race of the caches; the lock's queue, where a third task matters, is checked in
`token_logins` and proved in `AnyioLockProofs` for any number. Five entries in pages of two
are three pages with a last one that is not full, and room for the list to grow between
them; three tries are one that is lost, one that arrives late, and one that returns. A
tolerance of 1 with skews of -2 and 1 and a clock to 2 puts callbacks on both edges of the
tolerance and past them. No symmetry is used.

`CHECK_DEADLOCK FALSE` stands where the system may stop: a stream that ended, a call
that ended, a
session or a facade whose bound of clients or portals is used up. The token and cache modules never stop.

Fairness. The event loop runs each task that can run, and httpx is constructed
with a timeout, so each request is answered or fails: weak fairness per task, on
the steps of the lock's owner and on the end of its request. Nothing is assumed of
cancellation, of callers, or of the clock. In `ClientCalls` that is weak fairness of
`NoToken \/ Send \/ Receive \/ GivenUp`: a sent request ends at the latest by its timeout, and
nothing is assumed of the server, which need never answer. In `SyncFacade` a coroutine that makes
requests ends, for the same reason, but nothing is assumed of one that reads a stream for
`run_sync` (`WF_vars(t \notin streams /\ Ends(t))`): heartbeats keep it from timing out, so
`close()` waits behind an interrupted one as long as the server sends them. `CloseEnds` says
that it ends once no stream is read. Whether httpx breaks a stream when its client is closed
is left open: the model's stream may end at any time and need not.

What a property leaves out by its form: `get_token`'s freshness is relative to the buffer,
whatever its size; the LLM calls' end takes the token lock inside theirs for a step that ends;
walks with a limit or without a cursor argument may be short; `admin_update_spending_config`
drops a null. Each is a hazard of `PROJECT.json` with its line.

Violations. A run marked so checks one statement of the documentation, a
docstring or a test; the counterexample is what the code does. They are listed
as findings, with the quoted line, in `PROJECT.json`.

## 4. Proofs

All theorems hold for every value of the constants under the named assumptions in
the modules (`Nobody` is no task; times are naturals; `Logins` are login calls).

- `AnyioLockProofs`. `Disciplined(lock, engaged)`: exactly one engaged task owns
  the lock, the others are in the queue once each, an unengaged lock is free.
  Acquire, release and abandonment keep it. Everything else cites these lemmas.
- `TokenManagerProofs`. `IInv` is types, lock discipline, `ExpiryMatchesToken` and
  `FetchOnlyOverStale`. The last is not inductive alone: an answer makes the cell
  fresh, and only the lock discipline says that no other fetch is in flight then.
  Single flight and what `get_token` returns follow. `RefreshTokenProvenance` is
  inductive alone.
- `LlmConfigCacheProofs`. The invariant adds to the properties that versions are
  ordered (cache, answer, last returned, history) and dated (an answer describes
  the server at its time, a cache entry is at most `Delay` younger than its
  answer). From it: coherence, coalescing, and `Spec => BoundedStaleness`: initial
  states map to initial states and every step to a `Read`, `Write`, `Tick` or stutter of
  the register.
- `DiscoveryCacheProofs`. The same order of versions; for forced reads the invariant adds
  that an answer under way is no older than the beginning of the call it is for, since the
  server gave it later. `Coalesced` and the refinement hold with and without forced reads.
- `HttpSessionProofs`. `ClosedOnlyByClose` speaks of calls that have failed; the
  invariant adds `HeldIsOpen`: while a call waits for its token, the client it looked up is
  open or a `close()` overlapped it.
- `SyncFacadeProofs`. None of the properties is inductive alone. The invariant
  says at each stage of `close()` what is true of the others: it runs alone, holds a
  portal, has told it to stop in its last stage only (`CloseAlone`); coroutines,
  interrupted ones included, are on a loop that runs (`OnLoop`); a stopped portal is
  being joined or was torn (`Held`); and the open HTTP client belongs to the held
  portal (`Affinity`).
- `SseStreamProofs`. The parser's locals say nothing of what was yielded, and what was
  yielded nothing of them, so `YieldsTheEvents` is not inductive: `BlockInv` adds that each
  local is what the definition finds in the lines since the last blank line, or since the
  last event. A blank line then builds the event the definition puts there. That the events before
  it stay where they are is a fact of the definition: its events are a sequence by rank, and a
  line added at the end has the highest. Bodies are of any length, the pieces of data any set.
- `ClientCallsProofs`. What a walk has got, the answer under way and the cursor lie one
  behind the other in the list as it was at the beginning (`WalkInv`, `AnswerInv`): no page is
  yielded twice, and the page without a cursor ends at the oldest entry (`LastInv`). What the
  server stored is what one request makes of it (`EffectInv`), so late and repeated requests
  change nothing. Of the calls it is assumed only that pages are read as pages, that one
  update drops None and that replays are read as such (`RowAssumption`, which TLC evaluates
  on all rows). `EventsImplementCalls` carries the results over to `EventsSpec`.
  - Answers. An answer that is not the API's is one of `ProxyAnswers` until it is read
    (`GarbledInv`), and the table of readings says who takes which of them (`ProxyAnswerRead`);
    it has no cursor, so no walk goes on behind it. `GarbledIsNoticed` is an action property:
    a call that makes a result of such an answer reads anything, or got an empty list. An answer of the API
    has the body its operation documents and an odd value of a class within the answer.
  - Rows. `TokenCorrect` and `DocumentedCorrect` are about the SDK's own calls, so they assume
    `Calls \subseteq SdkCalls`, and they look at each row (`TokenRows`, `BodyRows`) and each class
    (`ModelRows`); `DocumentedCorrect` uses `PartsAssumption`, which has no constants, so that
    TLC's evaluation settles it. What they add to the run is every list, page size and
    interleaving.
  - Callbacks. The parts of `SignWebhook` are the last of their keys whatever precedes them, so
    `verify_webhook` compares the digest it was sent with one for the same timestamp;
    `VerifiedIfSigned` follows for any tolerance, skew and secret.
  - Names. `McpNamesSplit` and `MarketplaceNamesSplit` are about names of any length over any
    characters, `NamesCorrect` about the ones the model's server makes: event names of both kinds
    by the MCP parser, qualified ones by the marketplace's. In a name put together
    the separator that was put there is the first, unless one begins in the server's name or
    across its end.

Only model-checked: liveness (`GetTokenEnds`, `CallsEnd`, `CloseEnds`, `WalkEnds`), which is
out of the prover's reach, and what the violation runs refute. All other properties of
the runs are stated by a theorem.

## 5. Not modelled

- Wording of messages, logging, base URLs, path quoting, the fields of a model that no
  property tells apart.
- Threads, but for `SyncFacade`: the other modules describe one event loop. First
  calls of two threads at once, which the facade does not support. The delegating
  methods of the facade are all `Run`.
- `from_agent_card`, a constructor and a first call: if that fails, its portal runs until
  the garbage collector finds the client nobody got.
- The validators of request models (lengths, patterns, ranges): pure checks of one value
  that a unit test reaches.
- `_parse_list_response`: nothing calls it.
- `format_usdc` and `parse_usdc` (`streaming/usdc.py`): floats, which TLC does not have.
- `collect_text` and the typed payload classes of SSE events: pure functions of an event.
- What a POST that arrives twice does at the server, but for `rotate_secret` and
  `submit_prediction`: the document promises nothing of it.
- `get_token`'s window of 30 seconds against the 30 minutes of the documentation: a
  difference of constants, listed as a hazard.
- The export lists of the `__init__` files.

## 6. Plan

Done: all modules of section 2 with their runs and proofs. Left, most useful first:

1. Composition of `TokenManager`, `LlmConfigCache` and `HttpSession` on one event loop:
   nested locks end, a call sends the token it was given.
2. `from_agent_card` in `SyncFacade`.
