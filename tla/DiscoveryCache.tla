--------------------------- MODULE DiscoveryCache ---------------------------
(***************************************************************************)
(* The two public resources a client caches: the agent card                *)
(* (client/agent_card.py) and the model benchmarks (client/llm.py).  Both  *)
(* are read through: from the cache for TTL, else from the server under a  *)
(* lock, with a second look at the cache once the lock is held.  A forced  *)
(* read (get_agent_card(force_refresh=True)) passes over the cache both    *)
(* times.  Nobody writes the resource through the client.                  *)
(***************************************************************************)
EXTENDS AnyioLock

CONSTANTS
  Tasks,         \* tasks that use the client
  Forcing,       \* {TRUE, FALSE} for the agent card, {FALSE} for the benchmarks
  TTL,           \* _AGENT_CARD_TTL, _MODEL_BENCHMARKS_TTL
  Delay,         \* longest time from the server's answer to its arrival
  MaxVersions,   \* bound of the versions the server publishes
  MaxTime        \* bound of the clock

ASSUME TaskAssumption == Nobody \notin Tasks
ASSUME BoundAssumption ==
  /\ Forcing \in SUBSET BOOLEAN
  /\ TTL \in Nat \ {0} /\ Delay \in Nat /\ MaxVersions \in Nat \ {0} /\ MaxTime \in Nat

VARIABLES
  now,      \* time.time()
  hist,     \* hist[v] is when the server published version v
  card,     \* _agent_card and _agent_card_fetched_at, _model_benchmarks_cache
  lock,     \* _agent_card_lock, _model_benchmarks_lock
  pc,       \* where each task is in its call
  forced,   \* whether the latest call of each task is forced
  reply,    \* the server's answer on its way to each task
  since,    \* ghost: the version current when the latest call began
  got,      \* ghost: the version the latest call returned (0: none)
  last      \* ghost: the version any call returned last, and when

calls == <<pc, forced, reply, since, got>>
vars == <<now, hist, card, lock, pc, forced, reply, since, got, last>>

\* A version and when it was stored, or when the server answered with it.
Entry(v, time) == [ver |-> v, at |-> time]
NoEntry == Entry(0, 0)

CacheFresh == card # NoEntry /\ now < card.at + TTL

Init ==
  /\ now = 0
  /\ hist = <<0>>
  /\ card = NoEntry
  /\ lock = Free
  /\ pc = [t \in Tasks |-> "idle"]
  /\ forced = [t \in Tasks |-> FALSE]
  /\ reply = [t \in Tasks |-> NoEntry]
  /\ since = [t \in Tasks |-> 0]
  /\ got = [t \in Tasks |-> 0]
  /\ last = Entry(1, 0)

\* The call of t begins, forced or not.
Start(t, force) ==
  /\ pc[t] = "idle"
  /\ forced' = [forced EXCEPT ![t] = force]
  /\ since' = [since EXCEPT ![t] = Len(hist)]

Return(t, v) ==
  /\ got' = [got EXCEPT ![t] = v]
  /\ last' = Entry(v, now)

\* An exception leaves the call without a version.
Raise(t) ==
  /\ got' = [got EXCEPT ![t] = 0]
  /\ UNCHANGED last

\* The lock's owner leaves the `async with`.
Leave(t) ==
  /\ lock' = Release(lock)
  /\ pc' = [pc EXCEPT ![t] = "idle"]
  /\ reply' = [reply EXCEPT ![t] = NoEntry]

-----------------------------------------------------------------------------
GetFast(t) ==
  /\ FALSE \in Forcing /\ Start(t, FALSE)
  /\ CacheFresh
  /\ Return(t, card.ver)
  /\ UNCHANGED <<now, hist, card, lock, pc, reply>>

GetSlow(t) ==
  /\ \E force \in Forcing : Start(t, force) /\ (~force => ~CacheFresh)
  /\ lock' = Acquire(lock, t)
  /\ pc' = [pc EXCEPT ![t] = "locking"]
  /\ Raise(t)
  /\ UNCHANGED <<now, hist, card, reply>>

\* Mutant: a cancelled waiter stays in the queue.
LockCancelled_StaysQueued(t) ==
  /\ pc[t] = "locking"
  /\ pc' = [pc EXCEPT ![t] = "idle"]
  /\ UNCHANGED <<now, hist, card, lock, forced, reply, since, got, last>>

LockCancelled(t) ==
  /\ pc[t] = "locking"
  /\ lock' = Abandon(lock, t)
  /\ pc' = [pc EXCEPT ![t] = "idle"]
  /\ UNCHANGED <<now, hist, card, forced, reply, since, got, last>>

\* Mutant: the second look forgets that the read is forced.
RecheckFresh_ForgetsForce(t) ==
  /\ pc[t] = "locking" /\ lock.owner = t
  /\ CacheFresh
  /\ Return(t, card.ver)
  /\ Leave(t)
  /\ UNCHANGED <<now, hist, card, forced, since>>

\* Another task filled the cache while this one waited for the lock.
RecheckFresh(t) ==
  /\ pc[t] = "locking" /\ lock.owner = t
  /\ ~forced[t] /\ CacheFresh
  /\ Return(t, card.ver)
  /\ Leave(t)
  /\ UNCHANGED <<now, hist, card, forced, since>>

\* Mutant: no second look at the cache under the lock.
Request_NoRecheck(t) ==
  /\ pc[t] = "locking" /\ lock.owner = t
  /\ pc' = [pc EXCEPT ![t] = "waiting"]
  /\ UNCHANGED <<now, hist, card, lock, forced, reply, since, got, last>>

Request(t) ==
  /\ pc[t] = "locking" /\ lock.owner = t
  /\ forced[t] \/ ~CacheFresh
  /\ pc' = [pc EXCEPT ![t] = "waiting"]
  /\ UNCHANGED <<now, hist, card, lock, forced, reply, since, got, last>>

Serve(t) ==
  /\ pc[t] = "waiting" /\ reply[t] = NoEntry
  /\ reply' = [reply EXCEPT ![t] = Entry(Len(hist), now)]
  /\ UNCHANGED <<now, hist, card, lock, pc, forced, since, got, last>>

\* Resource and time of storage change together: nothing is awaited between.
Stored(t) ==
  /\ pc[t] = "waiting" /\ reply[t] # NoEntry
  /\ card' = Entry(reply[t].ver, now)
  /\ Return(t, reply[t].ver)
  /\ Leave(t)
  /\ UNCHANGED <<now, hist, forced, since>>

\* Mutants: an exception makes the old resource good for another TTL, or
\* expires it.
Failed_ExtendsTTL(t) ==
  /\ pc[t] = "waiting"
  /\ card' = IF card = NoEntry THEN NoEntry ELSE Entry(card.ver, now)
  /\ Raise(t) /\ Leave(t)
  /\ UNCHANGED <<now, hist, forced, since>>
Failed_Expires(t) ==
  /\ pc[t] = "waiting"
  /\ card' = Entry(card.ver, now - TTL)
  /\ Raise(t) /\ Leave(t)
  /\ UNCHANGED <<now, hist, forced, since>>

\* No answer, an error status, a body too large, of another type or malformed,
\* or cancellation: the cache stays as it is.
Failed(t) ==
  /\ pc[t] = "waiting"
  /\ Raise(t) /\ Leave(t)
  /\ UNCHANGED <<now, hist, card, forced, since>>

-----------------------------------------------------------------------------
Publish ==
  /\ Len(hist) < MaxVersions
  /\ hist' = Append(hist, now)
  /\ UNCHANGED <<now, card, lock, calls, last>>

\* An answer does not stay under way longer than Delay.
Tick ==
  /\ now < MaxTime
  /\ \A t \in Tasks : reply[t] # NoEntry => now < reply[t].at + Delay
  /\ now' = now + 1
  /\ UNCHANGED <<hist, card, lock, calls, last>>

Get(t) ==
  \/ GetFast(t) \/ GetSlow(t) \/ LockCancelled(t) \/ RecheckFresh(t) \/ Request(t)
  \/ Serve(t) \/ Stored(t) \/ Failed(t)

Next == (\E t \in Tasks : Get(t)) \/ Publish \/ Tick

Spec == Init /\ [][Next]_vars

-----------------------------------------------------------------------------
(* Properties *)

TypeOK ==
  /\ now \in Nat
  /\ hist \in Seq(Nat) /\ hist # <<>>
  /\ card \in [ver : Nat, at : Nat]
  /\ lock \in LockType(Tasks)
  /\ pc \in [Tasks -> {"idle", "locking", "waiting"}]
  /\ forced \in [Tasks -> BOOLEAN]
  /\ reply \in [Tasks -> [ver : Nat, at : Nat]]
  /\ since \in [Tasks -> Nat] /\ got \in [Tasks -> Nat]
  /\ last \in [ver : Nat, at : Nat]

Engaged == {t \in Tasks : pc[t] # "idle"}

\* Fetches of the resource go to the server one at a time, each from the task
\* that owns the lock, and no cancelled or failed call leaves the lock behind.
OneFetch ==
  /\ Disciplined(lock, Engaged)
  /\ \A t \in Tasks : pc[t] = "waiting" => lock.owner = t

\* docs/agent-card.md: "ordinary calls reuse the five-minute cache": tasks that
\* queued behind a fetch, forced or not, are served by its answer.
Coalesced ==
  \A t \in Tasks : pc[t] = "waiting" /\ ~forced[t] => ~CacheFresh

\* A forced read returns a version no older than the one current when it was
\* called, even if it waited for a fetch that began earlier.
ForcedIsFresh ==
  \A t \in Tasks : forced[t] /\ got[t] # 0 => got[t] >= since[t]

\* Calls return versions in order, none replaced as long ago as the TTL plus
\* the delay of an answer, whatever fetches fail or are forced meanwhile.
Register == INSTANCE StaleRegister WITH Window <- TTL + Delay
BoundedStaleness == Register!Spec
=============================================================================
