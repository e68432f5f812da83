---------------------------- MODULE ClientCalls ----------------------------
(***************************************************************************)
(* One call of the client from its caller to the Teardrop API and back:    *)
(* a row of ApiCalls, or the walk through all the pages of one that takes  *)
(* a cursor.  runs_iter of schedules and event triggers is such a walk;    *)
(* for the other calls the caller repeats the call with the cursor.        *)
(*                                                                         *)
(* The server adds entries to a list while it is walked, and may refuse;   *)
(* a proxy before it may answer in its place; requests and answers are     *)
(* lost, and a request whose caller gave up may still arrive; the caller   *)
(* repeats a call that failed, a walk from the cursor it has or, where     *)
(* runs_iter keeps the cursor to itself, from the beginning.               *)
(***************************************************************************)
EXTENDS Integers, SequencesExt, ApiDocument, ResultModels

CONSTANTS
  Calls,      \* the calls the caller chooses from
  PageSize,   \* entries of a page
  MaxEntries, \* bound of the entries of the server's list
  MaxTries    \* bound of the tries of a call

Readings == {"nothing", "model", "page", "first_page", "array", "items", "tools",
             "schedule_page", "trigger_page", "replay", "json"}

ASSUME CallsAssumption ==
  \A c \in Calls : /\ c.token \in BOOLEAN
                   /\ c.reads \in Readings
                   /\ c.model \in {"none"} \cup DOMAIN ModelOf
ASSUME BoundAssumption ==
  PageSize \in Nat \ {0} /\ MaxEntries \in Nat /\ MaxTries \in Nat \ {0}

VARIABLES
  call,         \* the call made
  credentials,  \* the client can get a token (TokenManager)
  wish,         \* what an update is to make of a field that admits null
  pc,           \* "ready", "sent", "answered", "ended"
  outcome,      \* how the call ended
  tries,        \* tries so far
  cursor,       \* of the next page; 0 for None
  got,          \* the entries the caller got from pages and arrays
  answer,       \* the response on its way
  late,         \* a request given up is still on its way
  entries,      \* the server's list has the entries entries, ..., 2, 1
  stored,       \* the server's field that the wish is about
  done,         \* the server has done what the call asks
  start,        \* ghost: entries when the first page was made
  garbled       \* ghost: the answer of this try was not the API's

chosen == <<call, credentials, wish>>
caller == <<pc, outcome, tries, cursor, got>>
server == <<late, entries, stored, done>>
ghosts == <<start, garbled>>
vars == <<chosen, caller, answer, server, ghosts>>

Walks(c) == c.reads \in {"page", "schedule_page", "trigger_page"}

\* What the client's rows have in common: pages are read as pages, one update alone has
\* a dump without None (client/admin.py:366), and only a replay is read as one.
ASSUME RowAssumption ==
  \A c \in Calls :
    /\ c.op \in PagedOps => Walks(c) \/ c.reads = "first_page"
    /\ c.op \in UpdateOps /\ c.sends \in {"set", "changed"} =>
         c.name = "admin_update_spending_config"
    /\ c.reads = "replay" => c.op \in ReplayOps

-----------------------------------------------------------------------------
(* Requests *)

\* Mutant: None is sent as an empty string.
Body_EmptyString(sends, w) == IF w = "null" THEN "" ELSE w

\* Mutant: every dump leaves out the fields that are None.
Body_NullsDropped(sends, w) == IF w = "null" THEN "unset" ELSE w

\* What the request's body holds of a field, given what the caller assigned to it:
\* nothing ("unset"), None ("null") or a value ("new").
Body(sends, w) == IF sends \in {"set", "changed"} /\ w = "null" THEN "unset" ELSE w

\* The server leaves an absent field alone.
Stored(old, field) == IF field = "unset" THEN old ELSE field

-----------------------------------------------------------------------------
(* Answers *)

NoOdd == <<"none", "none">>

\* `odd` is a value of the answer that only some fields may take.
Response(status, body, items, next, odd) ==
  [status |-> status, body |-> body, items |-> items, next |-> next, odd |-> odd]

NoAnswer == Response("none", "empty", <<>>, 0, NoOdd)
Plain(status, body) == Response(status, body, <<>>, 0, NoOdd)

\* The odd values an answer of this call may hold.
Odd(c) == {NoOdd} \cup {odd \in ApiOdd : odd[1] \in Within(c.model)}

\* The k entries below top, newest first.
Below(top, k) == [i \in 1..k |-> top - i]

\* The entries older than the cursor's; a cursor is the entry it follows.
Top == IF cursor = 0 THEN entries + 1 ELSE cursor

\* A page has some of the entries that are left, unless none is, and a cursor
\* unless none is left behind it; then it may still have one.
Pages(c) ==
  {Response("ok", "page", Below(Top, k), next, odd) :
     k \in {n \in 0..PageSize : n < Top /\ (n = 0 => Top = 1)},
     next \in 0..MaxEntries, odd \in Odd(c)}

Consistent(page) ==
  LET rest == Top - Len(page.items) IN
  page.next \in IF rest > 1 THEN {rest}
                ELSE IF page.items # <<>> THEN {0, rest}
                ELSE {0}

\* What the API answers a request that it serves.
Answers(c) ==
  CASE c.op \in EmptyOps  -> {Plain("ok", "empty")}
    [] c.op \in ReplayOps -> {IF done THEN Plain("ok", "empty") ELSE Plain("created", "object")}
    [] c.op \in PagedOps  -> {p \in Pages(c) : Consistent(p)}
    [] c.op \in ArrayOps  ->
         LET limit == IF c.op \in LimitedOps THEN Min({PageSize, entries}) ELSE entries IN
         {Response("ok", "array", Below(entries + 1, limit), 0, odd) : odd \in Odd(c)}
    [] OTHER -> {Response("ok", "object", <<>>, 0, odd) : odd \in Odd(c)}

\* What a proxy may answer in place of the API: an object or array of objects without
\* the fields a method looks for; null, a number, a boolean or a string; an object, an
\* array or a string that is empty; no JSON.
ProxyBodies == {"other", "others", "scalar", "empty_object", "empty_array", "empty_string", "text"}

ProxyAnswers == {Plain("ok", body) : body \in ProxyBodies}

-----------------------------------------------------------------------------
(* Reading an answer *)

Raises(a) == a.status \in {"unauthorized", "error"}

ApiBodies == {"empty", "object", "page", "array"}

\* The bodies each reading takes.  A comprehension over the body takes whatever it can
\* go through without an element; data.get("items", []) takes every object.
Takes ==
  [nothing       |-> ApiBodies \cup ProxyBodies,
   model         |-> {"object"},
   replay        |-> {"object"},
   page          |-> {"object", "page"},
   first_page    |-> {"object", "page"},
   array         |-> {"array", "empty_object", "empty_array", "empty_string"},
   items         |-> {"array", "page", "object", "other", "empty_object", "empty_array"},
   tools         |-> {"array", "object", "other", "empty_object", "empty_array"},
   schedule_page |-> {"array", "page", "object", "other", "scalar",
                      "empty_object", "empty_array", "empty_string"},
   trigger_page  |-> {"array", "page", "empty_array"},
   json          |-> (ApiBodies \cup ProxyBodies) \ {"empty", "text"}]

\* An object of which no field is known is one of a class whose fields all have defaults.
TakesAnyObject(c) == c.reads \in {"model", "page", "first_page"} /\ c.model \in AllOptional

\* Mutant: the 201 of a new submission is taken for the replay.
ReturnsNone_OnCreated(c, a) == c.reads = "nothing" \/ (c.reads = "replay" /\ a.status = "created")

\* The method returns None without a look at the body.
ReturnsNone(c, a) == c.reads = "nothing" \/ (c.reads = "replay" /\ a.status = "ok")

\* Mutant: any object is a page of a trigger's runs, an empty one if need be.
Readable_AnyPage(c, a) ==
  \/ ReturnsNone(c, a)
  \/ /\ \/ a.body \in Takes[c.reads]
        \/ a.body \in {"other", "empty_object"} /\ (TakesAnyObject(c) \/ c.reads = "trigger_page")
     /\ a.odd # NoOdd => Admits(a.odd)

Readable(c, a) ==
  \/ ReturnsNone(c, a)
  \/ /\ \/ a.body \in Takes[c.reads]
        \/ a.body \in {"other", "empty_object"} /\ TakesAnyObject(c)
     /\ a.odd # NoOdd => Admits(a.odd)

-----------------------------------------------------------------------------
(* The caller *)

Init ==
  /\ call \in Calls
  /\ credentials \in BOOLEAN
  /\ wish \in IF call.op \in UpdateOps THEN {"unset", "null", "new"} ELSE {"unset"}
  /\ pc = "ready"
  /\ outcome = "none"
  /\ tries = 1
  /\ cursor = 0
  /\ got = <<>>
  /\ answer = NoAnswer
  /\ late = FALSE
  /\ entries \in IF call.op \in PagedOps \cup ArrayOps THEN 0..MaxEntries ELSE {0}
  /\ stored = "old"
  /\ done = FALSE
  /\ start = 0
  /\ garbled = FALSE

Ends(how) == pc' = "ended" /\ outcome' = how /\ answer' = NoAnswer

\* _headers finds no token and no credentials.
NoToken ==
  /\ pc = "ready" /\ call.token /\ ~credentials
  /\ Ends("no_token")
  /\ UNCHANGED <<chosen, tries, cursor, got, server, ghosts>>

Send ==
  /\ pc = "ready" /\ (call.token => credentials)
  /\ pc' = "sent"
  /\ UNCHANGED <<chosen, outcome, tries, cursor, got, answer, server, ghosts>>

\* _raise_for_status.
ReceiveRefusal ==
  /\ pc = "answered" /\ Raises(answer)
  /\ Ends(answer.status)
  /\ UNCHANGED <<chosen, tries, cursor, got, server, ghosts>>

ReceiveNone ==
  /\ pc = "answered" /\ ~Raises(answer) /\ ReturnsNone(call, answer)
  /\ Ends("none_returned")
  /\ UNCHANGED <<chosen, tries, cursor, got, server, ghosts>>

\* A ValidationError of pydantic or a JSONDecodeError.
ReceiveUnreadable ==
  /\ pc = "answered" /\ ~Raises(answer) /\ ~Readable(call, answer)
  /\ Ends("unreadable")
  /\ UNCHANGED <<chosen, tries, cursor, got, server, ghosts>>

\* Mutant: a short page is taken for the last.
ReceiveResult_ShortPage ==
  /\ pc = "answered" /\ ~Raises(answer)
  /\ ~ReturnsNone(call, answer) /\ Readable(call, answer)
  /\ ~Walks(call) \/ Len(answer.items) < PageSize
  /\ got' = got \o answer.items
  /\ Ends("returned")
  /\ UNCHANGED <<chosen, tries, cursor, server, ghosts>>

\* The last page, or the only answer.
ReceiveResult ==
  /\ pc = "answered" /\ ~Raises(answer)
  /\ ~ReturnsNone(call, answer) /\ Readable(call, answer)
  /\ ~Walks(call) \/ answer.next = 0
  /\ got' = got \o answer.items
  /\ Ends("returned")
  /\ UNCHANGED <<chosen, tries, cursor, server, ghosts>>

\* Mutant: the next request goes out with the cursor of the last.
ReceivePage_SameCursor ==
  /\ pc = "answered" /\ ~Raises(answer) /\ Readable(call, answer)
  /\ Walks(call) /\ answer.next # 0
  /\ got' = got \o answer.items
  /\ pc' = "ready" /\ answer' = NoAnswer
  /\ UNCHANGED <<chosen, outcome, tries, cursor, server, ghosts>>

\* A page with a cursor: the loop of runs_iter goes round.
ReceivePage ==
  /\ pc = "answered" /\ ~Raises(answer) /\ Readable(call, answer)
  /\ Walks(call) /\ answer.next # 0
  /\ got' = got \o answer.items
  /\ cursor' = answer.next
  /\ pc' = "ready" /\ answer' = NoAnswer
  /\ UNCHANGED <<chosen, outcome, tries, server, ghosts>>

\* Mutant: no timeout; only a connection that breaks during the answer is noticed.
GivenUp_NoTimeout ==
  /\ pc = "answered"
  /\ Ends("lost")
  /\ UNCHANGED <<chosen, tries, cursor, got, server, ghosts>>

\* No answer within the timeout, or a broken connection; a request that did not
\* get through may still do so.
GivenUp ==
  /\ pc \in {"sent", "answered"}
  /\ Ends("lost")
  /\ late' \in {late, late \/ pc = "sent"}
  /\ UNCHANGED <<chosen, tries, cursor, got, entries, stored, done, ghosts>>

\* The caller leaves a walk.
Stop ==
  /\ pc = "ready" /\ cursor # 0
  /\ Ends("stopped")
  /\ UNCHANGED <<chosen, tries, cursor, got, server, ghosts>>

\* The caller repeats a call that failed, and a walk by its own loop over the pages from
\* the cursor it has.  A runs_iter that raised is over and shows no cursor: its caller
\* begins anew and drops what it had.
Repeat ==
  /\ pc = "ended" /\ outcome \in {"lost", "error", "unreadable"}
  /\ tries < MaxTries
  /\ tries' = tries + 1
  /\ pc' = "ready" /\ outcome' = "none"
  /\ garbled' = FALSE
  /\ \/ UNCHANGED <<cursor, got>>
     \/ call.reads \in {"schedule_page", "trigger_page"} /\ cursor' = 0 /\ got' = <<>>
  /\ UNCHANGED <<chosen, answer, server, start>>

-----------------------------------------------------------------------------
(* The server, and a proxy before it *)

Authorized == (call.op \in PublicOps \/ call.token) /\ call.op \notin SecretOps

\* What serving the request does to the server.
Effect ==
  /\ done' = TRUE
  /\ stored' = Stored(stored, Body(call.sends, wish))

Serve ==
  /\ pc = "sent" /\ Authorized
  /\ pc' = "answered"
  /\ answer' \in Answers(call)
  /\ Effect
  /\ start' = IF cursor = 0 THEN entries ELSE start
  /\ UNCHANGED <<chosen, outcome, tries, cursor, got, late, entries, garbled>>

\* Any documented error but a 401: a bad argument, a conflict, a limit.
Refuse ==
  /\ pc = "sent"
  /\ pc' = "answered"
  /\ answer' = Plain(IF Authorized THEN "error" ELSE "unauthorized", "other")
  /\ UNCHANGED <<chosen, outcome, tries, cursor, got, server, ghosts>>

ProxyAnswer ==
  /\ pc = "sent"
  /\ pc' = "answered"
  /\ answer' \in ProxyAnswers
  /\ garbled' = TRUE
  /\ UNCHANGED <<chosen, outcome, tries, cursor, got, server, start>>

ServeLate ==
  /\ late /\ Authorized
  /\ late' = FALSE
  /\ Effect
  /\ UNCHANGED <<chosen, caller, answer, entries, ghosts>>

NewEntry ==
  /\ call.op \in PagedOps \cup ArrayOps /\ entries < MaxEntries
  /\ entries' = entries + 1
  /\ UNCHANGED <<chosen, caller, answer, late, stored, done, ghosts>>

-----------------------------------------------------------------------------
Receive ==
  ReceiveRefusal \/ ReceiveNone \/ ReceiveUnreadable \/ ReceiveResult \/ ReceivePage

Next ==
  \/ NoToken \/ Send \/ Receive \/ GivenUp \/ Stop \/ Repeat
  \/ Serve \/ Refuse \/ ProxyAnswer \/ ServeLate \/ NewEntry

Spec == Init /\ [][Next]_vars

\* The event loop goes on with a call that can go on, and httpx has a timeout; the
\* server need not answer.
FairSpec == Spec /\ WF_vars(NoToken \/ Send \/ Receive \/ GivenUp)

-----------------------------------------------------------------------------
(* Properties *)

\* Types, and the answer and the outcome belong to their stages.
TypeOK ==
  /\ call \in Calls /\ credentials \in BOOLEAN /\ wish \in {"unset", "null", "new"}
  /\ pc \in {"ready", "sent", "answered", "ended"}
  /\ outcome \in {"none", "no_token", "returned", "none_returned", "unreadable",
                  "unauthorized", "error", "lost", "stopped"}
  /\ tries \in 1..MaxTries
  /\ cursor \in 0..MaxEntries /\ entries \in 0..MaxEntries /\ start \in 0..MaxEntries
  /\ \A i \in DOMAIN got : got[i] \in 1..MaxEntries
  /\ late \in BOOLEAN /\ done \in BOOLEAN /\ garbled \in BOOLEAN
  /\ stored \in {"old", "null", "new"}
  /\ answer = NoAnswer <=> pc # "answered"
  /\ outcome = "none" <=> pc # "ended"

\* The calls that get a token for an operation that asks none (agent.py:121,
\* marketplace.py:198 and 235).
NeedlessToken ==
  {"dispatch_event", "get_marketplace_catalog_detail", "get_author_profile"}

\* A client without credentials makes every public call, and no call is refused for
\* want of a token; dispatch_event, which sends no trigger secret, is refused.
TokenWhereNeeded ==
  /\ outcome = "no_token" => call.op \notin PublicOps \/ call.name \in NeedlessToken
  /\ outcome = "unauthorized" => call.op \in SecretOps

\* submit_prediction returns None, "already submitted", only to a caller that has
\* submitted it before, were it in a try whose answer was lost.
ReplayOnlyToRepeat ==
  call.reads = "replay" /\ outcome = "none_returned" /\ ~garbled => tries > 1

\* The calls that read JSON which is not the API's as an empty or default result: they
\* take the items of any object (client/_core.py:76, client/a2a.py:47), look at no body,
\* or validate with a class whose fields all have defaults.
ReadsAnything(c) ==
  \/ c.reads \in {"nothing", "replay", "items", "tools", "schedule_page", "json"}
  \/ TakesAnyObject(c)

\* The bodies that the other calls read as an empty list: `[]`, which is one, and, where
\* the body itself is gone through (client/admin.py:86, client/auth.py:147), `{}` and "".
EmptyList(reads) ==
  CASE reads = "array"        -> {"empty_array", "empty_object", "empty_string"}
    [] reads = "trigger_page" -> {"empty_array"}
    [] OTHER                  -> {}

\* All other calls notice an answer that is not the API's, but for an empty list: the
\* runs of an event trigger accept "bare arrays", and malformed envelopes "raise a
\* Pydantic ValidationError rather than being treated as empty history"
\* (docs/schedules-and-event-triggers.md:62).
GarbledIsNoticed ==
  [][pc = "answered" /\ outcome' \in {"returned", "none_returned"} /\ garbled
       => ReadsAnything(call) \/ answer.body \in EmptyList(call.reads)]_vars

\* A walk yields the entries there were when it began, newest first and each once,
\* though the server's list grows and pages are lost and asked for again.
EachOnceInOrder == \A i \in DOMAIN got : got[i] = start + 1 - i

\* A walk that ends by itself has yielded them all.  The calls without an argument for
\* the cursor get the first page only (client/billing.py:51 and 71, client/memory.py:17,
\* client/marketplace.py:230).
WalkComplete ==
  /\ outcome = "returned" /\ ~garbled
  /\ call.op \in (PagedOps \cup ArrayOps) \ LimitedOps
  /\ call.reads # "first_page"
  => Len(got) = start

\* An update that returns made of the field what its caller wished: left it alone,
\* cleared it or changed it, however often it was sent.  None is dropped by the
\* spending configuration only, whose dump excludes it (client/admin.py:366).
UpdateHonoured ==
  /\ outcome = "returned" /\ ~garbled /\ call.op \in UpdateOps
  /\ ~(call.name = "admin_update_spending_config" /\ wish = "null")
  => stored = IF wish = "unset" THEN "old" ELSE wish

\* The odd values of the API's document that its client refuses: the field's type has no
\* None, or, of `source`, the Literal has no "eval".  The document means each: of
\* reputation_score it says "Null when the tool is unrated" (spec/openapi.json:4630).
Refused ==
  {"AuthMeResponse"} \X {"org_name"} \cup {"CreateInviteResponse"} \X {"invite_url"}
  \cup {"LlmConfigResponse"} \X
         {"created_at", "has_api_key", "is_byok", "max_tokens", "org_id",
          "routing_preference", "temperature", "timeout_seconds", "updated_at"}
  \cup {"MarketplaceAuthorConfigResponse"} \X {"created_at", "updated_at"}
  \cup {"MarketplaceImportPublishedTool", "OrgTool"} \X {"base_price_usdc"}
  \cup {"MarketplaceToolSummary"} \X {"reputation_score", "success_rate"}
  \cup {"ModelBenchmarksResponse"} \X {"updated_at"}
  \cup {"ScheduledRunResult"} \X {"error", "output_text"}
  \cup {"TelemetryCompletenessBySource"} \X {"source=eval"}

BecomesUnreadable == pc = "answered" /\ pc' = "ended" /\ outcome' = "unreadable"

\* Every answer the API documents is read by every call that can get it, but for the
\* values in Refused.
DocumentedAnswersAreRead == [][BecomesUnreadable => garbled \/ answer.odd \in Refused]_vars

\* Every call ends, however long the list grows and whatever is lost: each request is
\* answered or given up, and each page brings the walk nearer to the oldest entry.
WalkEnds == []<>(pc = "ended")
=============================================================================
