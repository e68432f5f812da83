---------------------------- MODULE HttpSession ----------------------------
(***************************************************************************)
(* How the calls of one AsyncTeardropClient share its HTTP client, and     *)
(* what each of them raises (client/_core.py).                             *)
(*                                                                         *)
(* The httpx.AsyncClient is opened by the first call that needs it, closed *)
(* by close() and opened anew by the next call.  A call looks it up once,  *)
(* may then wait for a token or for an answer while another task closes    *)
(* it, and goes on with the client it looked up.                           *)
(***************************************************************************)
EXTENDS Integers

CONSTANTS
  Tasks,
  Statuses,     \* status codes of answers
  MaxClients    \* bound of the HTTP clients opened over time

ASSUME StatusAssumption == Statuses \subseteq 200..599 /\ MaxClients \in Nat

VARIABLES
  http,         \* the client the SDK holds, by number: 0 before the first one
  open,         \* the clients that are not closed
  pc,           \* where each task is in its call
  held,         \* the client its call looked up
  outcome,      \* what its last call ended with
  overlapped    \* ghost: a close() took place since the lookup

vars == <<http, open, pc, held, outcome, overlapped>>
session == <<http, open>>

-----------------------------------------------------------------------------
(* Errors *)

TransportErrors == {"ConnectError", "TimeoutException", "ReadError", "RemoteProtocolError"}

\* What _HttpProxy makes of an error of httpx: two kinds are translated.
Translated(e) == IF e \in {"ConnectError", "TimeoutException"} THEN "TeardropError" ELSE e

\* A Retry-After header is a number of seconds or a date; int() reads the former.
RetryAfter == {"seconds", "date"}

\* What an answer with another status than 2xx is raised as.
ErrorOf(status, retryAfter) ==
  CASE status = 401 -> "AuthenticationError"
    [] status = 402 -> "PaymentRequiredError"
    [] status = 403 -> "ForbiddenError"
    [] status = 404 -> "NotFoundError"
    [] status = 409 -> "ConflictError"
    [] status = 422 -> "ValidationError"
    [] status = 429 -> IF retryAfter = "seconds" THEN "RateLimitError" ELSE "ValueError"
    [] status \in {502, 504} -> "GatewayError"
    [] OTHER -> "APIError"

\* TeardropError and its subclasses.
TeardropErrors ==
  {"TeardropError", "AuthenticationError", "PaymentRequiredError", "ForbiddenError",
   "RateLimitError", "APIError", "NotFoundError", "ConflictError", "ValidationError",
   "GatewayError"}
Errors == TeardropErrors \cup TransportErrors \cup
          {"none", "ValueError", "RuntimeError", "pydantic.ValidationError", "CancelledError"}
Results == [error : Errors,
            from : {"answer", "body", "token", "transport", "closed", "caller"},
            status : {0, 200} \cup Statuses]

Result == [error |-> "none", from |-> "answer", status |-> 200]
Raised(error, from, status) == [error |-> error, from |-> from, status |-> status]

-----------------------------------------------------------------------------
(* The HTTP client *)

Init ==
  /\ http = 0 /\ open = {}
  /\ pc = [t \in Tasks |-> "idle"]
  /\ held = [t \in Tasks |-> 0]
  /\ outcome = [t \in Tasks |-> Result]
  /\ overlapped = [t \in Tasks |-> FALSE]

\* Mutant: a client that was closed is used again.
GetHttp_KeepsClosed ==
  /\ http' = IF http = 0 THEN 1 ELSE http
  /\ open' = IF http = 0 THEN {1} ELSE open

\* Mutant: every call opens a client.
GetHttp_AlwaysNew ==
  /\ http < MaxClients
  /\ http' = http + 1
  /\ open' = open \cup {http'}

\* Mutant: the new client is used but not stored.
GetHttp_NotStored ==
  /\ http < MaxClients
  /\ open' = IF http \in open THEN open ELSE open \cup {http + 1}
  /\ UNCHANGED http

\* The client the SDK holds if it is open, else a new one.
GetHttp ==
  /\ http' = IF http \in open THEN http ELSE http + 1
  /\ http' <= MaxClients
  /\ open' = open \cup {http'}

Goto(t, place) == pc' = [pc EXCEPT ![t] = place]

\* The call of t ends: it returns or raises.
Finish(t, result) ==
  /\ Goto(t, "idle")
  /\ outcome' = [outcome EXCEPT ![t] = result]
  /\ UNCHANGED <<session, held, overlapped>>

Close(t) ==
  /\ pc[t] = "idle"
  /\ http \in open
  /\ open' = open \ {http}
  /\ overlapped' = [u \in Tasks |-> overlapped[u] \/ held[u] = http]
  /\ UNCHANGED <<http, pc, held, outcome>>

-----------------------------------------------------------------------------
(* A call *)

\* A cached read waits for the lock of its cell before it looks up the client.
Queue(t) ==
  /\ pc[t] = "idle"
  /\ Goto(t, "queued")
  /\ UNCHANGED <<session, held, outcome, overlapped>>

\* The lookup.  A call without a token, or whose token is at hand, sends its
\* request in the same step; the others wait for get_token first.
Begin(t) ==
  /\ pc[t] \in {"idle", "queued"}
  /\ GetHttp
  /\ held' = [held EXCEPT ![t] = http']
  /\ overlapped' = [overlapped EXCEPT ![t] = FALSE]
  /\ \E place \in {"token", "sent"} : Goto(t, place)
  /\ outcome' = [outcome EXCEPT ![t] = Result]

\* httpx refuses a request of a closed client with a RuntimeError.
TokenReady(t) ==
  /\ pc[t] = "token"
  /\ IF held[t] \in open
       THEN Goto(t, "sent") /\ UNCHANGED <<session, held, outcome, overlapped>>
       ELSE Finish(t, Raised("RuntimeError", "closed", 0))

TokenRefused(t) ==
  /\ pc[t] = "token"
  /\ Finish(t, Raised("AuthenticationError", "token", 0))

Answered(t) ==
  /\ pc[t] = "sent"
  /\ \E status \in Statuses, retryAfter \in RetryAfter :
       IF status \in 200..299
         THEN Finish(t, Result)
         ELSE Finish(t, Raised(ErrorOf(status, retryAfter), "answer", status))

\* The body of a 2xx does not parse; pydantic's exception reaches the caller.
Malformed(t) ==
  /\ pc[t] = "sent"
  /\ Finish(t, Raised("pydantic.ValidationError", "body", 200))

\* No answer: the request of the call, or that for its token, breaks off.
Broken(t) ==
  /\ pc[t] \in {"token", "sent"}
  /\ \E e \in TransportErrors : Finish(t, Raised(Translated(e), "transport", 0))

\* The task is cancelled in its call.
Cancelled(t) ==
  /\ pc[t] # "idle"
  /\ Finish(t, Raised("CancelledError", "caller", 0))

Call(t) ==
  \/ Queue(t) \/ Begin(t) \/ TokenReady(t) \/ TokenRefused(t)
  \/ Answered(t) \/ Malformed(t) \/ Broken(t) \/ Cancelled(t)

Next == \E t \in Tasks : Call(t) \/ Close(t)

Spec == Init /\ [][Next]_vars

-----------------------------------------------------------------------------
(* Properties *)

TypeOK ==
  /\ http \in 0..MaxClients /\ open \subseteq 1..http
  /\ pc \in [Tasks -> {"idle", "queued", "token", "sent"}]
  /\ held \in [Tasks -> 0..MaxClients]
  /\ overlapped \in [Tasks -> BOOLEAN]
  /\ outcome \in [Tasks -> Results]

\* No client leaks: whatever calls and closes overlap, the only client that can
\* be open is the one close() will close (_get_http, close).
OneOpenClient == open \subseteq {http}

\* A call finds its client closed only if somebody called close() after the call
\* had looked it up: a call that starts after close() always works (_get_http).
ClosedOnlyByClose ==
  \A t \in Tasks : outcome[t].from = "closed" => overlapped[t]

\* docs/agent-runs.md: "All exceptions inherit from `TeardropError`": whether the
\* server refuses a request or the connection fails (_raise_for_status,
\* _HttpProxy: "translate transport errors into TeardropError").
RaisesTeardropErrors ==
  \A t \in Tasks :
    outcome[t].from \in {"answer", "transport"} =>
      outcome[t].error \in TeardropErrors \cup {"none"}
=============================================================================
