--------------------------- MODULE LlmConfigCache ---------------------------
(***************************************************************************)
(* The organisation's LLM configuration as the client caches it            *)
(* (teardrop/client/llm.py): get_llm_config answers from the cache for     *)
(* TTL, else reads the server under a lock; set_llm_config and             *)
(* delete_llm_config write the server under the same lock and update or    *)
(* drop the cache when the answer is good.                                 *)
(*                                                                         *)
(* The server is a register with numbered versions; it serves a request at *)
(* some moment while the caller waits.  The caller may give up (timeout,   *)
(* transport error, cancellation, a 5xx from a gateway) before or after    *)
(* that moment and cannot tell which.                                      *)
(***************************************************************************)
EXTENDS AnyioLock

CONSTANTS
  Tasks,       \* tasks that use the client
  TTL,         \* _LLM_CONFIG_TTL
  Delay,       \* longest time from the server's answer to its arrival
  MaxWrites,   \* bound of the versions the server goes through
  MaxTime      \* bound of the clock

ASSUME TaskAssumption == Nobody \notin Tasks
ASSUME BoundAssumption ==
  TTL \in Nat \ {0} /\ Delay \in Nat /\ MaxWrites \in Nat \ {0} /\ MaxTime \in Nat

VARIABLES
  now,         \* time.time()
  hist,        \* hist[v] is when version v became the server's configuration
  configured,  \* whether the organisation has a configuration of its own
  cache,       \* _llm_config_cache
  lock,        \* _llm_config_lock
  op, pc,      \* the call each task is in, and how far it is
  reply,       \* the server's answer on its way to each task
  last,        \* ghost: the version a call returned last, and when
  exclusive    \* ghost: every write so far is one the client knows the end of

server == <<hist, configured>>
tasks == <<op, pc, reply>>
vars == <<now, hist, configured, cache, lock, op, pc, reply, last, exclusive>>

Ops == {"get", "set", "delete"}

\* A version of the configuration as a cache entry (`at` is when it was stored)
\* or as an answer (`at` is when the server gave it).
Entry(v, body, time) == [ver |-> v, body |-> body, at |-> time]
NoEntry == Entry(0, "none", 0)

\* Mutant: an entry is still served when its TTL has just ended.
CacheFresh_OffByOne == cache # NoEntry /\ now <= cache.at + TTL

CacheFresh == cache # NoEntry /\ now < cache.at + TTL

Body(conf) == IF conf THEN "configured" ELSE "default"

Init ==
  /\ now = 0
  /\ hist = <<0>>
  /\ configured \in BOOLEAN
  /\ cache = NoEntry
  /\ lock = Free
  /\ op = [t \in Tasks |-> "none"]
  /\ pc = [t \in Tasks |-> "idle"]
  /\ reply = [t \in Tasks |-> NoEntry]
  /\ last = [ver |-> 1, at |-> 0]
  /\ exclusive = TRUE

\* The call returns the configuration of version v, or that it is deleted.
Return(v) == last' = [ver |-> v, at |-> now]

\* The call of the lock's owner ends and the `async with` releases the lock.
Leave(t) ==
  /\ lock' = Release(lock)
  /\ op' = [op EXCEPT ![t] = "none"]
  /\ pc' = [pc EXCEPT ![t] = "idle"]
  /\ reply' = [reply EXCEPT ![t] = NoEntry]

-----------------------------------------------------------------------------
(* The calls, up to their request *)

GetFast(t) ==
  /\ pc[t] = "idle"
  /\ CacheFresh
  /\ Return(cache.ver)
  /\ UNCHANGED <<now, server, cache, lock, tasks, exclusive>>

Call(t, o) ==
  /\ pc[t] = "idle"
  /\ o = "get" => ~CacheFresh
  /\ lock' = Acquire(lock, t)
  /\ op' = [op EXCEPT ![t] = o]
  /\ pc' = [pc EXCEPT ![t] = "locking"]
  /\ UNCHANGED <<now, server, cache, reply, last, exclusive>>

\* Mutant: a cancelled waiter stays in the queue.
LockCancelled_StaysQueued(t) ==
  /\ pc[t] = "locking"
  /\ op' = [op EXCEPT ![t] = "none"]
  /\ pc' = [pc EXCEPT ![t] = "idle"]
  /\ UNCHANGED <<now, server, cache, lock, reply, last, exclusive>>

LockCancelled(t) ==
  /\ pc[t] = "locking"
  /\ lock' = Abandon(lock, t)
  /\ op' = [op EXCEPT ![t] = "none"]
  /\ pc' = [pc EXCEPT ![t] = "idle"]
  /\ UNCHANGED <<now, server, cache, reply, last, exclusive>>

\* Another task filled the cache while this one waited for the lock.
GetRecheckFresh(t) ==
  /\ pc[t] = "locking" /\ lock.owner = t
  /\ op[t] = "get" /\ CacheFresh
  /\ Return(cache.ver)
  /\ Leave(t)
  /\ UNCHANGED <<now, server, cache, exclusive>>

\* Mutant: no second look at the cache under the lock.
Request_NoRecheck(t) ==
  /\ pc[t] = "locking" /\ lock.owner = t
  /\ pc' = [pc EXCEPT ![t] = "waiting"]
  /\ UNCHANGED <<now, server, cache, lock, op, reply, last, exclusive>>

\* The token for the headers, then the request: both are awaited.
Request(t) ==
  /\ pc[t] = "locking" /\ lock.owner = t
  /\ op[t] = "get" => ~CacheFresh
  /\ pc' = [pc EXCEPT ![t] = "waiting"]
  /\ UNCHANGED <<now, server, cache, lock, op, reply, last, exclusive>>

-----------------------------------------------------------------------------
(* The server *)

\* The answer describes the configuration after the request.
Answer(t, body) == reply' = [reply EXCEPT ![t] = Entry(Len(hist'), body, now)]

Unanswered(t, o) == pc[t] = "waiting" /\ op[t] = o /\ reply[t] = NoEntry

ServeGet(t) ==
  /\ Unanswered(t, "get")
  /\ UNCHANGED <<now, server, cache, lock, op, pc, last, exclusive>>
  /\ Answer(t, Body(configured))

ServeSet(t) ==
  /\ Unanswered(t, "set")
  /\ Len(hist) < MaxWrites
  /\ hist' = Append(hist, now)
  /\ configured' = TRUE
  /\ Answer(t, "configured")
  /\ UNCHANGED <<now, cache, lock, op, pc, last, exclusive>>

ServeDelete(t) ==
  /\ Unanswered(t, "delete")
  /\ configured
  /\ Len(hist) < MaxWrites
  /\ hist' = Append(hist, now)
  /\ configured' = FALSE
  /\ Answer(t, "default")
  /\ UNCHANGED <<now, cache, lock, op, pc, last, exclusive>>

\* 404: there is no configuration to delete.
ServeDeleteMissing(t) ==
  /\ Unanswered(t, "delete")
  /\ ~configured
  /\ UNCHANGED <<now, server, cache, lock, op, pc, last, exclusive>>
  /\ Answer(t, "missing")

\* Another client writes, or a write this client gave up on arrives late.
OtherWrite ==
  /\ Len(hist) < MaxWrites
  /\ hist' = Append(hist, now)
  /\ configured' \in BOOLEAN
  /\ exclusive' = FALSE
  /\ UNCHANGED <<now, cache, lock, tasks, last>>

-----------------------------------------------------------------------------
(* The answers *)

Answered(t, o) == pc[t] = "waiting" /\ op[t] = o /\ reply[t] # NoEntry

\* get and set store what the server answered.
Stored(t) ==
  /\ Answered(t, "get") \/ Answered(t, "set")
  /\ cache' = [reply[t] EXCEPT !.at = now]
  /\ Return(reply[t].ver)
  /\ Leave(t)
  /\ UNCHANGED <<now, server, exclusive>>

Deleted(t) ==
  /\ Answered(t, "delete") /\ reply[t].body = "default"
  /\ cache' = NoEntry
  /\ Return(reply[t].ver)
  /\ Leave(t)
  /\ UNCHANGED <<now, server, exclusive>>

\* NotFoundError is raised before the cache is touched.
DeleteMissing(t) ==
  /\ Answered(t, "delete") /\ reply[t].body = "missing"
  /\ Leave(t)
  /\ UNCHANGED <<now, server, cache, last, exclusive>>

\* Mutants: delete validates before it drops the cache; a body is stored before
\* it is validated.
Malformed_DeleteKeepsCache(t) ==
  /\ pc[t] = "waiting" /\ reply[t].body \in {"configured", "default"}
  /\ exclusive' = (exclusive /\ op[t] # "set")
  /\ Leave(t)
  /\ UNCHANGED <<now, server, cache, last>>
Malformed_Stored(t) ==
  /\ pc[t] = "waiting" /\ reply[t].body \in {"configured", "default"}
  /\ cache' = Entry(reply[t].ver, "malformed", now)
  /\ Leave(t)
  /\ UNCHANGED <<now, server, last, exclusive>>

\* A 2xx whose body does not validate: delete has dropped the cache by then,
\* set has not stored anything yet.
Malformed(t) ==
  /\ pc[t] = "waiting" /\ reply[t].body \in {"configured", "default"}
  /\ cache' = IF op[t] = "delete" THEN NoEntry ELSE cache
  /\ exclusive' = (exclusive /\ op[t] # "set")
  /\ Leave(t)
  /\ UNCHANGED <<now, server, last>>

\* Mutant: an exception leaves the lock taken.
Rejected_KeepsLock(t) ==
  /\ pc[t] = "waiting" /\ reply[t] = NoEntry
  /\ op' = [op EXCEPT ![t] = "none"]
  /\ pc' = [pc EXCEPT ![t] = "idle"]
  /\ UNCHANGED <<now, server, cache, lock, reply, last, exclusive>>

\* No token, or the server turned the request down: nothing was written.
Rejected(t) ==
  /\ pc[t] = "waiting" /\ reply[t] = NoEntry
  /\ Leave(t)
  /\ UNCHANGED <<now, server, cache, last, exclusive>>

\* The caller gives up without knowing whether its request was executed.
GivenUp(t) ==
  /\ pc[t] = "waiting"
  /\ exclusive' = (exclusive /\ op[t] = "get")
  /\ Leave(t)
  /\ UNCHANGED <<now, server, cache, last>>

\* An answer does not stay under way longer than Delay.
Tick ==
  /\ now < MaxTime
  /\ \A t \in Tasks : reply[t] # NoEntry => now < reply[t].at + Delay
  /\ now' = now + 1
  /\ UNCHANGED <<server, cache, lock, tasks, last, exclusive>>

-----------------------------------------------------------------------------
Enter(t) == GetRecheckFresh(t) \/ Request(t)
Serve(t) == ServeGet(t) \/ ServeSet(t) \/ ServeDelete(t) \/ ServeDeleteMissing(t)
Resolve(t) ==
  Stored(t) \/ Deleted(t) \/ DeleteMissing(t) \/ Malformed(t) \/ Rejected(t) \/ GivenUp(t)

Next ==
  \/ \E t \in Tasks : \/ GetFast(t) \/ Enter(t) \/ Serve(t) \/ Resolve(t) \/ LockCancelled(t)
                      \/ \E o \in Ops : Call(t, o)
  \/ OtherWrite
  \/ Tick

Spec == Init /\ [][Next]_vars

\* The event loop runs the task that owns the lock, and httpx answers every
\* request or gives up on it (the client sets a timeout).
Fairness == \A t \in Tasks : WF_vars(Enter(t)) /\ WF_vars(Resolve(t))

FairSpec == Spec /\ Fairness

-----------------------------------------------------------------------------
(* Properties *)

Entries ==
  [ver : Nat, body : {"none", "configured", "default", "missing"}, at : Nat]

TypeOK ==
  /\ now \in Nat
  /\ hist \in Seq(Nat) /\ hist # <<>>
  /\ configured \in BOOLEAN
  /\ cache \in Entries
  /\ lock \in LockType(Tasks)
  /\ op \in [Tasks -> Ops \cup {"none"}]
  /\ pc \in [Tasks -> {"idle", "locking", "waiting"}]
  /\ reply \in [Tasks -> Entries]
  /\ last \in [ver : Nat, at : Nat]
  /\ exclusive \in BOOLEAN

Engaged == {t \in Tasks : pc[t] # "idle"}

\* Reads and writes of the configuration go to the server one at a time, each
\* from the task that owns the lock.
OneRequest ==
  /\ Disciplined(lock, Engaged)
  /\ \A t \in Tasks : pc[t] = "waiting" => lock.owner = t

\* "Concurrent reads of the cached configuration ... are coalesced into one
\* request per resource when the cache is cold": no read is under way while the
\* cache could answer it, however many tasks wait.
ColdReadsOnly ==
  \A t \in Tasks : pc[t] = "waiting" /\ op[t] = "get" => ~CacheFresh

\* As long as nobody else writes and no write of the client ended in doubt, the
\* cache between two calls is the server's configuration or empty: no order of
\* gets, sets, deletes, errors and cancellations leaves an old one behind.
CoherentCache ==
  exclusive /\ lock.owner = Nobody /\ cache # NoEntry => cache.ver = Len(hist)

\* A call that waits for the lock or for its answer ends.
CallsEnd == \A t \in Tasks : pc[t] # "idle" ~> pc[t] = "idle"

\* Whatever writers, errors and cancellations do, calls return versions in
\* order, none replaced as long ago as the cache's TTL plus an answer's delay.
Register == INSTANCE StaleRegister WITH Window <- TTL + Delay
BoundedStaleness == Register!Spec

\* delete_llm_config "reverts the org to global default LLM config. Returns 404
\* if no config exists (safe to call idempotently)": when a delete ends with
\* its answer, the cache does not hold a configuration any more.
DeleteIdempotent ==
  [][\A t \in Tasks :
       Answered(t, "delete") /\ pc'[t] = "idle" /\ reply[t].body = "missing" =>
         cache'.body # "configured"]_vars
=============================================================================
