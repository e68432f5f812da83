------------------------ MODULE DiscoveryCacheProofs ------------------------
(***************************************************************************)
(* The safety properties of DiscoveryCache, and that it implements         *)
(* StaleRegister, for any tasks, TTL, delay and bounds, forced reads or    *)
(* none.                                                                   *)
(*                                                                         *)
(* The argument: the lock allows one request at a time, so its answer is   *)
(* not older than the cache or than what the user has seen, and a task     *)
(* that began before the answer was given gets no older version than the   *)
(* one current at its beginning (AnswerInv); the cache is not older than   *)
(* what the user has seen (CacheInv).                                      *)
(***************************************************************************)
EXTENDS DiscoveryCache, AnyioLockProofs

\* Version v is the current one, or was until time m or later.
CurrentAt(v, m) == v \in 1..Len(hist) /\ (v = Len(hist) \/ hist[v + 1] >= m)

\* No version is from the future, calls begin after some version is published,
\* and the user has seen an existing one.
HistInv ==
  /\ \A v \in 1..Len(hist) : hist[v] <= now
  /\ last.ver \in 1..Len(hist)
  /\ \A t \in Tasks : since[t] <= Len(hist)

\* An answer under way is the lock owner's, recent, and not older than the cache,
\* than what the user has seen or than the call.
AnswerInv ==
  \A t \in Tasks : reply[t] # NoEntry =>
    /\ pc[t] = "waiting"
    /\ reply[t].at <= now /\ now <= reply[t].at + Delay
    /\ last.ver <= reply[t].ver
    /\ since[t] <= reply[t].ver
    /\ card # NoEntry => card.ver <= reply[t].ver
    /\ CurrentAt(reply[t].ver, reply[t].at)

\* A cached version is not older than what the user has seen, and was current at
\* most Delay before it was stored.
CacheInv ==
  card # NoEntry =>
    /\ card.at <= now
    /\ last.ver <= card.ver
    /\ CurrentAt(card.ver, card.at - Delay)

IInv ==
  /\ TypeOK /\ OneFetch /\ Coalesced /\ ForcedIsFresh
  /\ HistInv /\ AnswerInv /\ CacheInv

\* A call ends with the version in the cache, with the one it was answered, or
\* with an exception.
Ending(t) == RecheckFresh(t) \/ Stored(t) \/ Failed(t)

\* Entries are records of naturals, and one with a version is no empty one.
LEMMA EntryType ==
  ASSUME NEW v \in Nat, NEW m \in Nat
  PROVE  /\ Entry(v, m) \in [ver : Nat, at : Nat]
         /\ Entry(v, m).ver = v /\ Entry(v, m).at = m
         /\ v # 0 => Entry(v, m) # NoEntry
         /\ NoEntry \in [ver : Nat, at : Nat]
BY DEF Entry, NoEntry

\* The kinds of steps.
LEMMA StepKinds ==
  ASSUME [Next]_vars
  PROVE  \/ \E t \in Tasks : GetFast(t)
         \/ \E t \in Tasks : GetSlow(t)
         \/ \E t \in Tasks : LockCancelled(t)
         \/ \E t \in Tasks : Request(t)
         \/ \E t \in Tasks : Serve(t)
         \/ \E t \in Tasks : Ending(t)
         \/ Publish \/ Tick \/ UNCHANGED vars
BY DEF Next, Get, Ending

\* A call that ends does so as the owner of the lock, and leaves it.
LEMMA EndsAsOwner ==
  ASSUME OneFetch, NEW t \in Tasks, Ending(t)
  PROVE  /\ lock.owner = t /\ t \in Engaged /\ Leave(t)
         /\ UNCHANGED <<now, hist, forced, since>>
BY DEF Ending, RecheckFresh, Stored, Failed, OneFetch, Engaged

\* Every step keeps the types.
LEMMA NextType ==
  ASSUME TypeOK, OneFetch, [Next]_vars
  PROVE  TypeOK'
<1> USE DEF TypeOK
<1>0. Disciplined(lock, Engaged) /\ Engaged \in SUBSET Tasks
  BY DEF OneFetch, Engaged
<1>1. ASSUME NEW t \in Tasks, GetFast(t)
      PROVE  TypeOK'
  BY <1>1 DEF GetFast, Start, Return, Entry
<1>2. ASSUME NEW t \in Tasks, GetSlow(t)
      PROVE  TypeOK'
  <2>1. Acquire(lock, t) \in LockType(Tasks)
    BY <1>0, <1>2, AcquireLock, TaskAssumption DEF GetSlow, Start, Engaged
  <2>2. forced' \in [Tasks -> BOOLEAN]
    BY <1>2, BoundAssumption DEF GetSlow, Start
  <2>3. Len(hist) \in Nat
    OBVIOUS
  <2> QED
    BY <1>2, <2>1, <2>2, <2>3 DEF GetSlow, Start, Raise
<1>3. ASSUME NEW t \in Tasks, LockCancelled(t)
      PROVE  TypeOK'
  <2>1. Abandon(lock, t) \in LockType(Tasks)
    BY <1>0, <1>3, AbandonLock, TaskAssumption DEF LockCancelled, Engaged
  <2> QED
    BY <1>3, <2>1 DEF LockCancelled
<1>4. ASSUME NEW t \in Tasks, Request(t)
      PROVE  TypeOK'
  BY <1>4 DEF Request
<1>5. ASSUME NEW t \in Tasks, Serve(t)
      PROVE  TypeOK'
  BY <1>5 DEF Serve, Entry
<1>6. ASSUME NEW t \in Tasks, Ending(t)
      PROVE  TypeOK'
  <2>1. /\ lock.owner = t /\ t \in Engaged /\ Leave(t)
        /\ UNCHANGED <<now, hist, forced, since>>
    BY <1>6, EndsAsOwner
  <2>2. lock' \in LockType(Tasks)
    BY <1>0, <2>1, ReleaseLock, TaskAssumption DEF Leave
  <2>3. /\ pc' \in [Tasks -> {"idle", "locking", "waiting"}]
        /\ reply' \in [Tasks -> [ver : Nat, at : Nat]]
    BY <2>1, EntryType DEF Leave
  <2>4. /\ card' \in [ver : Nat, at : Nat]
        /\ got' \in [Tasks -> Nat] /\ last' \in [ver : Nat, at : Nat]
    <3>1. CASE RecheckFresh(t)
      BY <3>1, EntryType DEF RecheckFresh, Return
    <3>2. CASE Stored(t)
      BY <3>2, EntryType DEF Stored, Return
    <3>3. CASE Failed(t)
      BY <3>3 DEF Failed, Raise
    <3> QED
      BY <1>6, <3>1, <3>2, <3>3 DEF Ending
  <2> QED
    BY <2>1, <2>2, <2>3, <2>4
<1>7. CASE Publish
  <2>1. hist' = Append(hist, now)
    BY <1>7 DEF Publish
  <2>2. hist' \in Seq(Nat) /\ hist' # <<>>
    BY ONLY <2>1, AppendProperties, hist \in Seq(Nat), now \in Nat
  <2> QED
    BY <1>7, <2>2 DEF Publish, calls
<1>8. CASE Tick \/ UNCHANGED vars
  BY <1>8 DEF Tick, vars, calls
<1> QED
  BY <1>1, <1>2, <1>3, <1>4, <1>5, <1>6, <1>7, <1>8, StepKinds

\* Every step keeps the lock discipline.
LEMMA NextLock ==
  ASSUME TypeOK, OneFetch, [Next]_vars
  PROVE  OneFetch'
<1> USE DEF TypeOK
<1>0. /\ lock \in LockType(Tasks)
      /\ Disciplined(lock, Engaged) /\ Engaged \in SUBSET Tasks
      /\ \A t \in Tasks : pc[t] = "waiting" => lock.owner = t
  BY DEF OneFetch, Engaged
<1>1. ASSUME NEW t \in Tasks, GetSlow(t)
      PROVE  OneFetch'
  <2>1. t \in Tasks \ Engaged /\ Engaged' = Engaged \cup {t}
    BY <1>1 DEF GetSlow, Start, Engaged
  <2>2. /\ Disciplined(Acquire(lock, t), Engaged \cup {t})
        /\ lock.owner # Nobody => Acquire(lock, t).owner = lock.owner
    BY ONLY <1>0, <2>1, AcquireLock, TaskAssumption
  <2>3. \A u \in Tasks : pc'[u] = "waiting" => lock'.owner = u
    BY <1>0, <1>1, <2>2, TaskAssumption DEF GetSlow
  <2> QED
    BY <1>1, <2>1, <2>2, <2>3 DEF OneFetch, GetSlow
<1>2. ASSUME NEW t \in Tasks, LockCancelled(t)
      PROVE  OneFetch'
  <2>1. t \in Engaged /\ Engaged' = Engaged \ {t}
    BY <1>2 DEF LockCancelled, Engaged
  <2>2. /\ Disciplined(Abandon(lock, t), Engaged \ {t})
        /\ lock.owner # t => Abandon(lock, t).owner = lock.owner
    BY ONLY <1>0, <2>1, AbandonLock, TaskAssumption
  <2>3. \A u \in Tasks : pc'[u] = "waiting" => lock'.owner = u
    BY <1>0, <1>2, <2>2 DEF LockCancelled
  <2> QED
    BY <1>2, <2>1, <2>2, <2>3 DEF OneFetch, LockCancelled
<1>3. ASSUME NEW t \in Tasks, Request(t)
      PROVE  OneFetch'
  <2>1. Engaged' = Engaged
    BY <1>3 DEF Request, Engaged
  <2> QED
    BY <1>0, <1>3, <2>1 DEF OneFetch, Request
<1>4. ASSUME NEW t \in Tasks, Ending(t)
      PROVE  OneFetch'
  <2>1. lock.owner = t /\ t \in Engaged /\ Leave(t)
    BY <1>4, EndsAsOwner
  <2>2. Engaged' = Engaged \ {t}
    BY <2>1 DEF Leave, Engaged
  <2>3. Disciplined(Release(lock), Engaged \ {t})
    BY <1>0, <2>1, ReleaseLock, TaskAssumption
  <2>4. \A u \in Tasks : pc'[u] = "waiting" => lock'.owner = u
    BY <1>0, <2>1 DEF Leave
  <2> QED
    BY <2>1, <2>2, <2>3, <2>4 DEF OneFetch, Leave
<1>5. CASE UNCHANGED <<lock, pc>>
  BY <1>0, <1>5 DEF OneFetch, Engaged
<1>6. ASSUME \/ \E t \in Tasks : GetFast(t) \/ Serve(t)
             \/ Publish \/ Tick \/ UNCHANGED vars
      PROVE  UNCHANGED <<lock, pc>>
  BY <1>6 DEF GetFast, Serve, Publish, Tick, vars, calls
<1> QED
  BY <1>1, <1>2, <1>3, <1>4, <1>5, <1>6, StepKinds

\* The call that ends is the only one with a request or an answer.
LEMMA EndsAlone ==
  ASSUME TypeOK, OneFetch, AnswerInv, NEW t \in Tasks, Ending(t)
  PROVE  /\ \A u \in Tasks : pc'[u] # "waiting" /\ reply'[u] = NoEntry
         /\ \A u \in Tasks \ {t} : reply[u] = NoEntry
<1>1. lock.owner = t /\ Leave(t)
  BY EndsAsOwner
<1>2. \A u \in Tasks \ {t} : pc[u] # "waiting" /\ reply[u] = NoEntry
  BY <1>1 DEF OneFetch, AnswerInv
<1> QED
  BY <1>1, <1>2 DEF Leave, TypeOK

\* A fetch starts over a cache that is not fresh, time only ages the cache, and
\* whoever fills it was the only one with a request.
LEMMA NextCoalesced ==
  ASSUME IInv, [Next]_vars
  PROVE  Coalesced'
<1> USE DEF IInv, TypeOK
<1>1. ASSUME NEW t \in Tasks, Ending(t)
      PROVE  Coalesced'
  BY <1>1, EndsAlone DEF Coalesced
<1>2. CASE Tick
  <2>1. CacheFresh' => CacheFresh
    BY <1>2, BoundAssumption DEF Tick, CacheFresh
  <2> QED
    BY <1>2, <2>1 DEF Tick, Coalesced, calls
<1>3. ASSUME UNCHANGED <<now, card>>,
             \A t \in Tasks : pc'[t] = "waiting" /\ ~forced'[t] =>
                                (pc[t] = "waiting" /\ ~forced[t]) \/ ~CacheFresh
      PROVE  Coalesced'
  BY <1>3 DEF Coalesced, CacheFresh
<1>4. ASSUME NEW t \in Tasks, GetFast(t)
      PROVE  Coalesced'
  <2>1. \A u \in Tasks : pc'[u] = "waiting" => u # t /\ pc[u] = "waiting" /\ forced'[u] = forced[u]
    BY <1>4 DEF GetFast, Start
  <2> QED
    BY <1>3, <1>4, <2>1 DEF GetFast
<1>5. ASSUME NEW t \in Tasks, GetSlow(t)
      PROVE  Coalesced'
  <2>1. \A u \in Tasks : pc'[u] = "waiting" => u # t /\ pc[u] = "waiting" /\ forced'[u] = forced[u]
    BY <1>5 DEF GetSlow, Start
  <2> QED
    BY <1>3, <1>5, <2>1 DEF GetSlow
<1>6. ASSUME NEW t \in Tasks, LockCancelled(t) \/ Request(t) \/ Serve(t)
      PROVE  Coalesced'
  BY <1>3, <1>6 DEF LockCancelled, Request, Serve
<1>7. CASE Publish \/ UNCHANGED vars
  BY <1>3, <1>7 DEF Publish, vars, calls
<1> QED
  BY <1>1, <1>2, <1>4, <1>5, <1>6, <1>7, StepKinds

\* A forced call gets the answer to a request it sent after it began, or nothing.
LEMMA NextForced ==
  ASSUME IInv, [Next]_vars
  PROVE  ForcedIsFresh'
<1> USE DEF IInv, TypeOK
<1>1. ASSUME UNCHANGED <<forced, got, since>>
      PROVE  ForcedIsFresh'
  BY <1>1 DEF ForcedIsFresh
<1>2. ASSUME NEW t \in Tasks, ~forced'[t] \/ got'[t] = 0 \/ got'[t] >= since'[t],
             \A u \in Tasks \ {t} : UNCHANGED <<forced[u], got[u], since[u]>>
      PROVE  ForcedIsFresh'
  BY <1>2 DEF ForcedIsFresh
<1>3. ASSUME NEW t \in Tasks, GetFast(t)
      PROVE  ForcedIsFresh'
  BY <1>2, <1>3 DEF GetFast, Start, Return
<1>4. ASSUME NEW t \in Tasks, GetSlow(t)
      PROVE  ForcedIsFresh'
  BY <1>2, <1>4 DEF GetSlow, Start, Raise
<1>5. ASSUME NEW t \in Tasks, Ending(t)
      PROVE  ForcedIsFresh'
  <2>1. CASE RecheckFresh(t)
    BY <1>2, <2>1 DEF RecheckFresh, Return
  <2>2. CASE Stored(t)
    <3>1. got'[t] = reply[t].ver /\ reply[t].ver >= since[t] /\ since'[t] = since[t]
      BY <2>2 DEF Stored, Return, AnswerInv
    <3> QED
      BY <1>2, <2>2, <3>1 DEF Stored, Return
  <2>3. CASE Failed(t)
    BY <1>2, <2>3 DEF Failed, Raise
  <2> QED
    BY <1>5, <2>1, <2>2, <2>3 DEF Ending
<1>6. ASSUME \/ \E t \in Tasks : LockCancelled(t) \/ Request(t) \/ Serve(t)
             \/ Publish \/ Tick \/ UNCHANGED vars
      PROVE  UNCHANGED <<forced, got, since>>
  BY <1>6 DEF LockCancelled, Request, Serve, Publish, Tick, vars, calls
<1> QED
  BY <1>1, <1>3, <1>4, <1>5, <1>6, StepKinds

\* A version that was current stays so until a later one replaces it.
LEMMA StillCurrent ==
  ASSUME TypeOK, hist' = Append(hist, now),
         NEW v, NEW m \in Int, m <= now, CurrentAt(v, m)
  PROVE  v \in 1..Len(hist') /\ (v = Len(hist') \/ hist'[v + 1] >= m)
<1>1. /\ Len(hist) \in Nat /\ Len(hist') = Len(hist) + 1
      /\ hist'[Len(hist) + 1] = now
      /\ \A i \in 1..Len(hist) : hist'[i] = hist[i]
  BY DEF TypeOK
<1>2. v \in 1..Len(hist)
  BY DEF CurrentAt
<1>3. CASE v = Len(hist)
  BY <1>1, <1>2, <1>3 DEF TypeOK
<1>4. CASE v # Len(hist)
  BY <1>1, <1>2, <1>4 DEF CurrentAt
<1> QED
  BY <1>3, <1>4

\* The server answers with its newest version, which no cached or seen version
\* and no call's beginning exceeds.
LEMMA ServeKeeps ==
  ASSUME IInv, NEW t \in Tasks, Serve(t)
  PROVE  HistInv' /\ AnswerInv' /\ CacheInv'
<1> USE DEF IInv, TypeOK
<1>1. /\ UNCHANGED <<now, hist, card, pc, since, last>> /\ pc[t] = "waiting"
      /\ reply' = [reply EXCEPT ![t] = Entry(Len(hist), now)]
  BY DEF Serve
<1>2. HistInv' /\ CacheInv'
  BY <1>1 DEF HistInv, CacheInv, CurrentAt
<1>3. Len(hist) \in Nat \ {0}
  OBVIOUS
<1>4. reply'[t].ver = Len(hist) /\ reply'[t].at = now
  BY <1>1, <1>3 DEF Entry
<1>5. \A u \in Tasks \ {t} : reply'[u] = NoEntry
  BY <1>1 DEF AnswerInv, OneFetch
<1>6. CurrentAt(reply[t].ver, reply[t].at)'
  BY <1>1, <1>3, <1>4 DEF CurrentAt
<1>7. card # NoEntry => card.ver <= Len(hist)
  BY <1>3 DEF CacheInv, CurrentAt
<1>8. /\ now <= reply'[t].at + Delay /\ last.ver <= reply'[t].ver
      /\ since[t] <= reply'[t].ver
  BY <1>4, BoundAssumption DEF HistInv
<1> QED
  BY <1>1, <1>2, <1>4, <1>5, <1>6, <1>7, <1>8 DEF AnswerInv

\* A new version changes neither the cache nor what was answered.
LEMMA PublishKeeps ==
  ASSUME IInv, Publish
  PROVE  HistInv' /\ AnswerInv' /\ CacheInv'
<1> USE DEF IInv, TypeOK
<1>1. /\ UNCHANGED <<now, card, pc, reply, since, last>>
      /\ hist' = Append(hist, now)
  BY DEF Publish, calls
<1>2. HistInv'
  BY <1>1 DEF HistInv
<1>3. ASSUME card # NoEntry
      PROVE  CurrentAt(card.ver, card.at - Delay)'
  <2>1. /\ card.at - Delay \in Int /\ card.at - Delay <= now
        /\ CurrentAt(card.ver, card.at - Delay)
    BY <1>3, BoundAssumption DEF CacheInv
  <2> QED
    BY <1>1, <2>1, StillCurrent DEF CurrentAt
<1>4. CacheInv'
  BY <1>1, <1>3 DEF CacheInv
<1>5. ASSUME NEW t \in Tasks, reply[t] # NoEntry
      PROVE  CurrentAt(reply[t].ver, reply[t].at)'
  <2>1. /\ reply[t].at \in Int /\ reply[t].at <= now
        /\ CurrentAt(reply[t].ver, reply[t].at)
    BY <1>5 DEF AnswerInv
  <2> QED
    BY <1>1, <2>1, StillCurrent DEF CurrentAt
<1>6. AnswerInv'
  BY <1>1, <1>5 DEF AnswerInv
<1> QED
  BY <1>2, <1>4, <1>6

\* A call that ends returns, if anything, what is cached or what it was answered,
\* and stores the latter.
LEMMA EndKeeps ==
  ASSUME IInv, NEW t \in Tasks, Ending(t)
  PROVE  HistInv' /\ AnswerInv' /\ CacheInv'
<1> USE DEF IInv, TypeOK
<1>1. UNCHANGED <<now, hist, since>>
  BY EndsAsOwner
<1>2. AnswerInv'
  BY EndsAlone DEF AnswerInv
<1>3. CASE RecheckFresh(t)
  <2>1. card # NoEntry /\ UNCHANGED card /\ last'.ver = card.ver
    BY <1>3 DEF RecheckFresh, CacheFresh, Return, Entry
  <2>2. HistInv'
    BY <1>1, <2>1 DEF HistInv, CacheInv, CurrentAt
  <2>3. CacheInv'
    BY <1>1, <2>1 DEF CacheInv, CurrentAt
  <2> QED
    BY <1>2, <2>2, <2>3
<1>4. CASE Stored(t)
  <2>1. /\ reply[t] # NoEntry /\ last'.ver = reply[t].ver
        /\ card'.ver = reply[t].ver /\ card'.at = now
    BY <1>4 DEF Stored, Return, Entry
  <2>2. CurrentAt(reply[t].ver, reply[t].at) /\ reply[t].at >= now - Delay
    BY <2>1, BoundAssumption DEF AnswerInv
  <2>3. reply[t].ver \in 1..Len(hist)
    BY <2>2 DEF CurrentAt
  <2>4. CurrentAt(card.ver, card.at - Delay)'
    BY <1>1, <2>1, <2>2, BoundAssumption DEF CurrentAt
  <2> QED
    BY <1>1, <1>2, <2>1, <2>3, <2>4 DEF HistInv, CacheInv
<1>5. CASE Failed(t)
  BY <1>1, <1>2, <1>5 DEF Failed, Raise, HistInv, CacheInv, CurrentAt
<1> QED
  BY <1>3, <1>4, <1>5 DEF Ending

\* Versions, cache and answers agree after every step.
LEMMA NextVersions ==
  ASSUME IInv, [Next]_vars
  PROVE  HistInv' /\ AnswerInv' /\ CacheInv'
<1> USE DEF IInv, TypeOK
<1>0. Len(hist) \in Nat
  OBVIOUS
<1>1. ASSUME NEW t \in Tasks, GetFast(t)
      PROVE  HistInv' /\ AnswerInv' /\ CacheInv'
  <2>1. /\ card # NoEntry /\ last'.ver = card.ver
        /\ UNCHANGED <<now, hist, card, pc, reply>>
        /\ pc[t] = "idle" /\ since' = [since EXCEPT ![t] = Len(hist)]
    BY <1>1 DEF GetFast, Start, CacheFresh, Return, Entry
  <2>2. HistInv'
    BY <1>0, <2>1 DEF HistInv, CacheInv, CurrentAt
  <2>3. CacheInv'
    BY <2>1 DEF CacheInv, CurrentAt
  <2>4. AnswerInv'
    BY <2>1 DEF AnswerInv, CurrentAt
  <2> QED
    BY <2>2, <2>3, <2>4
<1>2. ASSUME NEW t \in Tasks, GetSlow(t)
      PROVE  HistInv' /\ AnswerInv' /\ CacheInv'
  <2>1. /\ UNCHANGED <<now, hist, card, reply, last>>
        /\ pc[t] = "idle" /\ pc' = [pc EXCEPT ![t] = "locking"]
        /\ since' = [since EXCEPT ![t] = Len(hist)]
    BY <1>2 DEF GetSlow, Start, Raise
  <2>2. HistInv' /\ CacheInv'
    BY <1>0, <2>1 DEF HistInv, CacheInv, CurrentAt
  <2>3. AnswerInv'
    BY <2>1 DEF AnswerInv, CurrentAt
  <2> QED
    BY <2>2, <2>3
<1>3. ASSUME NEW t \in Tasks, LockCancelled(t) \/ Request(t)
      PROVE  HistInv' /\ AnswerInv' /\ CacheInv'
  <2>1. UNCHANGED <<now, hist, card, reply, since, last>> /\ pc[t] # "waiting"
    BY <1>3 DEF LockCancelled, Request
  <2>2. \A u \in Tasks : reply[u] # NoEntry => pc'[u] = pc[u]
    BY <1>3, <2>1 DEF LockCancelled, Request, AnswerInv
  <2> QED
    BY <2>1, <2>2 DEF HistInv, CacheInv, AnswerInv, CurrentAt
<1>4. CASE Tick
  <2>1. /\ now' = now + 1 /\ UNCHANGED <<hist, card, last, reply, pc, since>>
        /\ \A t \in Tasks : reply[t] # NoEntry => now < reply[t].at + Delay
    BY <1>4 DEF Tick, calls
  <2>2. HistInv' /\ CacheInv'
    BY <2>1 DEF HistInv, CacheInv, CurrentAt
  <2>3. AnswerInv'
    BY <2>1, BoundAssumption DEF AnswerInv, CurrentAt
  <2> QED
    BY <2>2, <2>3
<1>5. CASE UNCHANGED vars
  BY <1>5 DEF vars, HistInv, CacheInv, AnswerInv, CurrentAt
<1> QED
  BY <1>1, <1>2, <1>3, <1>4, <1>5, ServeKeeps, PublishKeeps, EndKeeps, StepKinds

\* The inductive invariant of the specification.
THEOREM Invariance == Spec => []IInv
<1>1. Init => IInv
  <2> SUFFICES ASSUME Init
               PROVE  IInv
    OBVIOUS
  <2>1. Engaged = {}
    BY DEF Init, Engaged
  <2>2. TypeOK
    BY FreeLock, EntryType DEF Init, TypeOK
  <2>3. OneFetch
    BY <2>1, FreeLock DEF Init, OneFetch
  <2>4. Len(hist) = 1 /\ hist[1] = 0 /\ now = 0 /\ last.ver = 1
    BY DEF Init, Entry
  <2> QED
    BY <2>2, <2>3, <2>4
       DEF Init, IInv, Coalesced, ForcedIsFresh, HistInv, AnswerInv, CacheInv
<1>2. IInv /\ [Next]_vars => IInv'
  BY NextType, NextLock, NextCoalesced, NextForced, NextVersions DEF IInv
<1> QED
  BY <1>1, <1>2, PTL DEF Spec

\* The variables keep their types.
THEOREM TypeCorrect == Spec => []TypeOK
BY Invariance, PTL DEF IInv

\* The lock serialises the fetches and is never lost.
THEOREM OneFetchCorrect == Spec => []OneFetch
BY Invariance, PTL DEF IInv

\* No fetch that is not forced goes to the server while the cache could answer it.
THEOREM CoalescedCorrect == Spec => []Coalesced
BY Invariance, PTL DEF IInv

\* A forced read returns nothing older than its beginning.
THEOREM ForcedCorrect == Spec => []ForcedIsFresh
BY Invariance, PTL DEF IInv

\* Every step of the cache is a step of the stale register, or invisible to it.
LEMMA StepImplements ==
  ASSUME IInv, IInv', [Next]_vars
  PROVE  [Register!Next]_(Register!vars)
<1> USE DEF IInv, TypeOK, Register!vars
<1>0. Len(hist) \in Nat /\ \A i \in 1..Len(hist) : hist[i] \in Nat
  OBVIOUS
<1>1. ASSUME UNCHANGED <<now, hist>>, NEW t \in Tasks, NEW v \in last.ver..Len(hist),
             v = Len(hist) \/ hist[v + 1] > now - (TTL + Delay), Return(t, v)
      PROVE  Register!Next
  BY <1>1 DEF Register!Next, Register!Read, Register!CurrentAfter, Return, Entry
<1>2. ASSUME NEW t \in Tasks, GetFast(t) \/ RecheckFresh(t)
      PROVE  Register!Next
  <2>1. /\ card # NoEntry /\ now < card.at + TTL
        /\ UNCHANGED <<now, hist>> /\ Return(t, card.ver)
    BY <1>2 DEF GetFast, RecheckFresh, CacheFresh
  <2>2. card.ver \in last.ver..Len(hist)
    BY <2>1 DEF CacheInv, CurrentAt, HistInv
  <2>3. card.ver = Len(hist) \/ hist[card.ver + 1] > now - (TTL + Delay)
    <3>1. CASE card.ver = Len(hist)
      BY <3>1
    <3>2. CASE card.ver # Len(hist)
      <4>1. card.ver \in 1..Len(hist) /\ hist[card.ver + 1] >= card.at - Delay
        BY <2>1, <3>2 DEF CacheInv, CurrentAt
      <4>2. card.ver + 1 \in 1..Len(hist)
        BY ONLY <1>0, <3>2, <4>1
      <4>3. hist[card.ver + 1] \in Nat /\ card.at \in Nat /\ now \in Nat
        BY <1>0, <4>2
      <4> HIDE DEF TypeOK
      <4> QED
        BY <2>1, <4>1, <4>3, BoundAssumption
    <3> QED
      BY <3>1, <3>2
  <2> QED
    BY <1>1, <2>1, <2>2, <2>3
<1>3. ASSUME NEW t \in Tasks, Stored(t)
      PROVE  Register!Next
  <2>1. reply[t] # NoEntry /\ UNCHANGED <<now, hist>> /\ Return(t, reply[t].ver)
    BY <1>3 DEF Stored
  <2>2. reply[t].ver \in last.ver..Len(hist)
    BY <2>1 DEF AnswerInv, CurrentAt, HistInv
  <2>3. reply[t].ver = Len(hist) \/ hist[reply[t].ver + 1] > now - (TTL + Delay)
    <3>1. CASE reply[t].ver = Len(hist)
      BY <3>1
    <3>2. CASE reply[t].ver # Len(hist)
      <4>1. /\ reply[t].ver \in 1..Len(hist) /\ hist[reply[t].ver + 1] >= reply[t].at
            /\ now <= reply[t].at + Delay
        BY <2>1, <3>2 DEF AnswerInv, CurrentAt
      <4>2. reply[t].ver + 1 \in 1..Len(hist)
        BY ONLY <1>0, <3>2, <4>1
      <4>3. hist[reply[t].ver + 1] \in Nat /\ reply[t].at \in Nat /\ now \in Nat
        BY <1>0, <4>2
      <4> HIDE DEF TypeOK
      <4> QED
        BY <4>1, <4>3, BoundAssumption
    <3> QED
      BY <3>1, <3>2
  <2> QED
    BY <1>1, <2>1, <2>2, <2>3
<1>4. CASE Publish \/ Tick
  BY <1>4 DEF Publish, Tick, Register!Next, Register!Write, Register!Tick
<1>5. ASSUME \/ \E t \in Tasks : GetSlow(t) \/ LockCancelled(t) \/ Request(t) \/ Serve(t)
                                 \/ Failed(t)
             \/ UNCHANGED vars
      PROVE  UNCHANGED <<now, hist, last>>
  BY <1>5 DEF GetSlow, Raise, LockCancelled, Request, Serve, Failed, vars
<1> QED
  BY <1>2, <1>3, <1>4, <1>5, StepKinds DEF Ending

\* DiscoveryCache implements StaleRegister with a window of TTL + Delay.
THEOREM Implements == Spec => BoundedStaleness
<1>1. Init => Register!Init
  BY DEF Init, Register!Init, Entry
<1>2. IInv /\ IInv' /\ [Next]_vars => [Register!Next]_(Register!vars)
  BY StepImplements
<1> QED
  BY <1>1, <1>2, Invariance, PTL DEF Spec, BoundedStaleness, Register!Spec
=============================================================================
