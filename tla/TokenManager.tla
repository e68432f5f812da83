---------------------------- MODULE TokenManager ----------------------------
(***************************************************************************)
(* TokenManager (teardrop/auth.py) and the client calls that write its     *)
(* fields from outside (teardrop/client/auth.py): one cached access token, *)
(* refreshed under a lock when credentials allow it, replaced without the  *)
(* lock by SIWE, registration, refresh and x402 logins.                    *)
(*                                                                         *)
(* Tasks run on one event loop, so the code between two awaits is one      *)
(* step; they interleave at the lock and at every POST.  A POST is         *)
(* answered, fails, or its task is cancelled.  Tokens are what the manager *)
(* can tell of them: the call whose answer carried them and the expiry     *)
(* _read_exp finds in them.                                                *)
(***************************************************************************)
EXTENDS AnyioLock

CONSTANTS
  Tasks,        \* tasks that use the client
  CredSets,     \* the sets of credential arguments a client is built with
  StaticExps,   \* expiries of a token passed to the constructor
  Lifetimes,    \* lifetimes the server gives to tokens
  Buffer,       \* _REFRESH_BUFFER, in ticks of the clock
  Logins,       \* the logins each task calls
  MaxTime       \* bound of the clock

Credentials == {"email", "secret", "client_id", "client_secret"}
LoginCalls == {"siwe", "register", "register_invite", "refresh", "x402"}

ASSUME TaskAssumption == Nobody \notin Tasks
ASSUME CredentialAssumption == CredSets \subseteq SUBSET Credentials
ASSUME LoginAssumption == Logins \in [Tasks -> SUBSET LoginCalls]
ASSUME TimeAssumption ==
  /\ StaticExps \subseteq Nat /\ Lifetimes \subseteq Nat
  /\ Buffer \in Nat /\ MaxTime \in Nat

VARIABLES
  now,           \* time.time()
  creds,         \* _email, _secret, _client_id, _client_secret that are set
  token,         \* _token
  refreshToken,  \* _refresh_token, as the call that brought it
  expiresAt,     \* _expires_at
  lock,          \* _lock
  pc,            \* where each task is
  got            \* what get_token returned to each task

config == <<now, creds>>
session == <<token, refreshToken, expiresAt>>
vars == <<now, creds, token, refreshToken, expiresAt, lock, pc, got>>

NoToken == [src |-> "none", exp |-> 0]

\* Mutant: what is kept is the moment to refresh.
ReadExp_SubtractsBuffer(tok) == tok.exp - Buffer

\* An unparsable token reads as expiring at 0.
ReadExp(tok) == tok.exp

CanRefresh == {"email", "secret"} \subseteq creds
              \/ {"client_id", "client_secret"} \subseteq creds

Fresh == token # NoToken /\ now < expiresAt - Buffer

\* Tokens the server can answer with: a readable expiry, or none.
Minted(src) == {[src |-> src, exp |-> e] : e \in {now + l : l \in Lifetimes} \cup {0}}

Init ==
  /\ now = 0
  /\ creds \in CredSets
  /\ token \in {NoToken} \cup {[src |-> "static", exp |-> e] : e \in StaticExps}
  /\ refreshToken = "none"
  /\ expiresAt = ReadExp(token)
  /\ lock = Free
  /\ pc = [t \in Tasks |-> "idle"]
  /\ got = [t \in Tasks |-> NoToken]

Goto(t, place) == pc' = [pc EXCEPT ![t] = place]

\* get_token hands the token the cell holds after the step to its caller.
Return(t) == Goto(t, "returned") /\ got' = [got EXCEPT ![t] = token']

-----------------------------------------------------------------------------
(* get_token *)

GetFast(t) ==
  /\ pc[t] = "idle"
  /\ Fresh
  /\ UNCHANGED <<config, session, lock>>
  /\ Return(t)

\* Mutant: the stale token is returned although credentials could refresh it.
GetStatic_IgnoresCredentials(t) ==
  /\ pc[t] = "idle"
  /\ ~Fresh /\ token # NoToken
  /\ UNCHANGED <<config, session, lock>>
  /\ Return(t)

GetStatic(t) ==
  /\ pc[t] = "idle"
  /\ ~Fresh /\ ~CanRefresh /\ token # NoToken
  /\ UNCHANGED <<config, session, lock>>
  /\ Return(t)

GetWithoutCredentials(t) ==
  /\ pc[t] = "idle"
  /\ ~Fresh /\ ~CanRefresh /\ token = NoToken
  /\ Goto(t, "raised")
  /\ UNCHANGED <<config, session, lock, got>>

\* Mutant: the token is fetched without the lock.
GetSlow_Unlocked(t) ==
  /\ pc[t] = "idle"
  /\ ~Fresh /\ CanRefresh
  /\ Goto(t, "fetching")
  /\ UNCHANGED <<config, session, lock, got>>

GetSlow(t) ==
  /\ pc[t] = "idle"
  /\ ~Fresh /\ CanRefresh
  /\ lock' = Acquire(lock, t)
  /\ Goto(t, "locking")
  /\ UNCHANGED <<config, session, got>>

\* Another task refreshed the token while this one waited for the lock.
RecheckFresh(t) ==
  /\ pc[t] = "locking" /\ lock.owner = t
  /\ Fresh
  /\ UNCHANGED <<config, session>>
  /\ lock' = Release(lock)
  /\ Return(t)

\* Mutant: no second look at the token under the lock.
RecheckStale_NoRecheck(t) ==
  /\ pc[t] = "locking" /\ lock.owner = t
  /\ Goto(t, "fetching")
  /\ UNCHANGED <<config, session, lock, got>>

\* POST /token.
RecheckStale(t) ==
  /\ pc[t] = "locking" /\ lock.owner = t
  /\ ~Fresh
  /\ Goto(t, "fetching")
  /\ UNCHANGED <<config, session, lock, got>>

\* The answer need not carry a refresh token; the old one is kept then.
FetchAnswered(t) ==
  /\ pc[t] = "fetching"
  /\ token' \in Minted("credentials")
  /\ refreshToken' \in {"credentials", refreshToken}
  /\ expiresAt' = ReadExp(token')
  /\ lock' = Release(lock)
  /\ Return(t)
  /\ UNCHANGED config

\* Mutant: an exception leaves the lock taken.
FetchFailed_KeepsLock(t) ==
  /\ pc[t] = "fetching"
  /\ Goto(t, "raised")
  /\ UNCHANGED <<config, session, lock, got>>

\* A status other than 200, a body that is no TokenResponse, a transport
\* error, or cancellation: leaving the `async with` releases the lock.
FetchFailed(t) ==
  /\ pc[t] = "fetching"
  /\ lock' = Release(lock)
  /\ Goto(t, "raised")
  /\ UNCHANGED <<config, session, got>>

\* Mutant: a cancelled waiter stays in the queue.
LockCancelled_StaysQueued(t) ==
  /\ pc[t] = "locking"
  /\ Goto(t, "raised")
  /\ UNCHANGED <<config, session, lock, got>>

LockCancelled(t) ==
  /\ pc[t] = "locking"
  /\ lock' = Abandon(lock, t)
  /\ Goto(t, "raised")
  /\ UNCHANGED <<config, session, got>>

\* The request goes out with the token, or the caller sees the exception.
CallerProceeds(t) ==
  /\ pc[t] \in {"returned", "raised"}
  /\ Goto(t, "idle")
  /\ got' = [got EXCEPT ![t] = NoToken]
  /\ UNCHANGED <<config, session, lock>>

-----------------------------------------------------------------------------
(* Logins: a POST without a token and without the lock, then the answer is *)
(* stored over whatever the cell holds.                                    *)

LoginPost(t, call) ==
  /\ pc[t] = "idle"
  /\ Goto(t, call)
  /\ UNCHANGED <<config, session, lock, got>>

StoreLogin(t, call, refresh) ==
  /\ pc[t] = call
  /\ token' \in Minted(call)
  /\ refreshToken' = refresh
  /\ expiresAt' = ReadExp(token')
  /\ Goto(t, "idle")
  /\ UNCHANGED <<config, lock, got>>

AuthenticateSiwe(t) == \E r \in {"siwe", "none"} : StoreLogin(t, "siwe", r)
Register(t) == \E r \in {"register", "none"} : StoreLogin(t, "register", r)
RegisterInvite(t) ==
  \E r \in {"register_invite", "none"} : StoreLogin(t, "register_invite", r)
Refresh(t) == \E r \in {"refresh", "none"} : StoreLogin(t, "refresh", r)

\* Mutants: a login that forgets one of the three fields.
BootstrapX402_KeepsExpiry(t) ==
  /\ pc[t] = "x402"
  /\ token' \in Minted("x402")
  /\ refreshToken' = "none"
  /\ Goto(t, "idle")
  /\ UNCHANGED <<config, expiresAt, lock, got>>
BootstrapX402_KeepsRefreshToken(t) == StoreLogin(t, "x402", refreshToken)

BootstrapX402(t) == StoreLogin(t, "x402", "none")

LoginFailed(t) ==
  /\ pc[t] \in LoginCalls
  /\ Goto(t, "idle")
  /\ UNCHANGED <<config, session, lock, got>>

-----------------------------------------------------------------------------
Tick ==
  /\ now < MaxTime
  /\ now' = now + 1
  /\ UNCHANGED <<creds, session, lock, pc, got>>

GetToken(t) == GetFast(t) \/ GetStatic(t) \/ GetWithoutCredentials(t) \/ GetSlow(t)
Recheck(t) == RecheckFresh(t) \/ RecheckStale(t)
FetchToken(t) == FetchAnswered(t) \/ FetchFailed(t)
Login(t) ==
  \/ \E call \in Logins[t] : LoginPost(t, call)
  \/ AuthenticateSiwe(t) \/ Register(t) \/ RegisterInvite(t)
  \/ Refresh(t) \/ BootstrapX402(t) \/ LoginFailed(t)

Next ==
  \/ \E t \in Tasks : \/ GetToken(t) \/ Recheck(t) \/ FetchToken(t)
                      \/ LockCancelled(t) \/ CallerProceeds(t) \/ Login(t)
  \/ Tick

Spec == Init /\ [][Next]_vars

\* The event loop runs every task that is ready, and httpx answers or gives up
\* on every POST (the client sets a timeout).
Fairness == \A t \in Tasks : WF_vars(Recheck(t)) /\ WF_vars(FetchToken(t))

FairSpec == Spec /\ Fairness

-----------------------------------------------------------------------------
(* Properties *)

Sources == {"none", "static", "credentials"} \cup LoginCalls
Tokens == [src : Sources, exp : Nat]
Places == {"idle", "locking", "fetching", "returned", "raised"} \cup LoginCalls

TypeOK ==
  /\ now \in Nat
  /\ creds \in SUBSET Credentials
  /\ token \in Tokens
  /\ refreshToken \in Sources
  /\ expiresAt \in Nat
  /\ lock \in LockType(Tasks)
  /\ pc \in [Tasks -> Places]
  /\ got \in [Tasks -> Tokens]

\* Six places write _token and _expires_at one after the other; whichever of
\* them ran last, the expiry get_token judges by is that of the token it returns.
ExpiryMatchesToken == expiresAt = ReadExp(token)

\* A refresh token does not outlive its session: it came with the access token
\* the cell holds, or a credential fetch whose answer had none replaced only
\* the access token (auth.py keeps the old one then).
RefreshTokenProvenance ==
  refreshToken \in {"none", token.src} \/ token.src = "credentials"

Engaged == {t \in Tasks : pc[t] \in {"locking", "fetching"}}

\* The tasks inside `async with self._lock` are the lock's owner and its queue,
\* through answers, failures and cancellations at any moment: no wake-up is
\* lost, nobody waits for a free lock, and only the owner posts.
LockDiscipline ==
  /\ Disciplined(lock, Engaged)
  /\ \A t \in Tasks : pc[t] = "fetching" => lock.owner = t

\* Concurrent get_token calls never have two POST /token in flight.
SingleFlight ==
  \A t, u \in Tasks : pc[t] = "fetching" /\ pc[u] = "fetching" => t = u

\* While a credential POST is in flight the cell holds no usable token, unless a
\* login stored one meanwhile: tasks that queued behind an earlier fetch are
\* served by its answer and do not fetch again.
FetchOnlyOverStale ==
  (\E t \in Tasks : pc[t] = "fetching") /\ Fresh => token.src \in LoginCalls

\* A client with credentials gives its callers a token that is good for more
\* than the buffer, or one its own POST has just brought: never the stale token
\* of the cell, whatever happened while it waited.
ReturnedTokenFresh ==
  [][\A t \in Tasks :
       pc[t] # "returned" /\ pc'[t] = "returned" /\ CanRefresh =>
         \/ now < got'[t].exp - Buffer
         \/ pc[t] = "fetching" /\ got'[t].src = "credentials"]_vars

\* Every call of get_token that takes the slow path ends, with a token or with
\* an exception, whatever the tasks before it in the queue do.
GetTokenEnds ==
  \A t \in Tasks : pc[t] \in {"locking", "fetching"} ~> pc[t] \in {"returned", "raised"}

\* "Returns the JWT token and stores it for subsequent requests"
\* (authenticate_siwe): a usable login is replaced by another login only.
LoginSticks ==
  [][token.src \in LoginCalls /\ Fresh /\ token' # token =>
       token'.src \in LoginCalls]_vars
=============================================================================
