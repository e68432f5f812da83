------------------------ MODULE LlmConfigCacheProofs ------------------------
(***************************************************************************)
(* The safety properties of LlmConfigCache, and that it implements         *)
(* StaleRegister, for any tasks, TTL, delay and bounds.                    *)
(*                                                                         *)
(* The argument: the lock serialises requests, so the one answer under way *)
(* is not older than anything the cache holds or the user has seen         *)
(* (AnswerInv); the cache is not older than what the user has seen         *)
(* (CacheInv); and while the client is the only writer, both are the       *)
(* server's version unless a write waits for its answer (ExclusiveInv).    *)
(***************************************************************************)
EXTENDS LlmConfigCache, AnyioLockProofs

\* Version v is the current one, or was until time m or later.
CurrentAt(v, m) == v \in 1..Len(hist) /\ (v = Len(hist) \/ hist[v + 1] >= m)

\* No version is from the future, and the user has seen an existing one.
HistInv ==
  /\ \A v \in 1..Len(hist) : hist[v] <= now
  /\ last.ver \in 1..Len(hist)

\* An answer under way is the lock owner's, recent, and not older than the
\* cache or than what the user has seen.
AnswerInv ==
  \A t \in Tasks : reply[t] # NoEntry =>
    /\ pc[t] = "waiting"
    /\ reply[t].at <= now /\ now <= reply[t].at + Delay
    /\ last.ver <= reply[t].ver
    /\ cache # NoEntry => cache.ver <= reply[t].ver
    /\ CurrentAt(reply[t].ver, reply[t].at)

\* A cached version is not older than what the user has seen, and was current
\* at most Delay before it was stored.
CacheInv ==
  cache # NoEntry =>
    /\ cache.at <= now
    /\ last.ver <= cache.ver
    /\ CurrentAt(cache.ver, cache.at - Delay)

\* Task t has changed the configuration and has not heard of it yet.
Unheard(t) ==
  reply[t] # NoEntry /\ op[t] \in {"set", "delete"} /\ reply[t].body # "missing"

\* With no other writer, answers are up to date and so is the cache, but for a
\* write whose answer is under way.
ExclusiveInv ==
  exclusive =>
    /\ \A t \in Tasks : reply[t] # NoEntry => reply[t].ver = Len(hist)
    /\ cache # NoEntry =>
         cache.ver = Len(hist) \/ \E t \in Tasks : Unheard(t)

IInv ==
  /\ TypeOK /\ OneRequest /\ ColdReadsOnly
  /\ HistInv /\ AnswerInv /\ CacheInv /\ ExclusiveInv

\* Entries and answers are records of the right type.
LEMMA EntryType ==
  ASSUME NEW v \in Nat, NEW body \in {"none", "configured", "default", "missing"}, NEW m \in Nat
  PROVE  /\ Entry(v, body, m) \in Entries
         /\ Entry(v, body, m).ver = v /\ Entry(v, body, m).body = body
         /\ Entry(v, body, m).at = m
         /\ v # 0 => Entry(v, body, m) # NoEntry
         /\ NoEntry \in Entries /\ NoEntry.ver = 0 /\ NoEntry.body = "none"
BY DEF Entry, NoEntry, Entries

\* The kinds of steps: what a call does before its request, what it does when it
\* ends, and what the server does.
LEMMA StepKinds ==
  ASSUME [Next]_vars
  PROVE  \/ \E t \in Tasks : GetFast(t)
         \/ \E t \in Tasks, o \in Ops : Call(t, o)
         \/ \E t \in Tasks : LockCancelled(t) \/ Request(t)
         \/ \E t \in Tasks : GetRecheckFresh(t) \/ Resolve(t)
         \/ \E t \in Tasks : Serve(t)
         \/ OtherWrite
         \/ Tick
         \/ UNCHANGED vars
BY DEF Next, Enter

\* A call that ends does so as the owner of the lock.
LEMMA EndsAsOwner ==
  ASSUME OneRequest, NEW t \in Tasks, GetRecheckFresh(t) \/ Resolve(t)
  PROVE  lock.owner = t /\ t \in Engaged /\ Leave(t)
<1>1. CASE GetRecheckFresh(t)
  BY <1>1 DEF GetRecheckFresh, Engaged
<1>2. CASE Resolve(t)
  BY <1>2 DEF Resolve, Stored, Deleted, DeleteMissing, Malformed, Rejected, GivenUp, Answered,
              OneRequest, Engaged
<1> QED
  BY <1>1, <1>2

\* Every step keeps the types.
LEMMA NextType ==
  ASSUME TypeOK, OneRequest, [Next]_vars
  PROVE  TypeOK'
<1> USE DEF TypeOK
<1>0. Disciplined(lock, Engaged) /\ Engaged \in SUBSET Tasks
  BY DEF OneRequest, Engaged
<1>1. ASSUME NEW t \in Tasks, GetFast(t)
      PROVE  TypeOK'
  BY <1>1 DEF GetFast, Return, server, tasks, Entries
<1>2. ASSUME NEW t \in Tasks, NEW o \in Ops, Call(t, o)
      PROVE  TypeOK'
  <2>1. Acquire(lock, t) \in LockType(Tasks)
    BY <1>0, <1>2, AcquireLock, TaskAssumption DEF Call, Engaged
  <2> QED
    BY <1>2, <2>1 DEF Call, server
<1>3. ASSUME NEW t \in Tasks, LockCancelled(t) \/ Request(t)
      PROVE  TypeOK'
  <2>1. CASE LockCancelled(t)
    <3>1. Abandon(lock, t) \in LockType(Tasks)
      BY <1>0, <2>1, AbandonLock, TaskAssumption DEF LockCancelled, Engaged
    <3> QED
      BY <2>1, <3>1 DEF LockCancelled, server
  <2>2. CASE Request(t)
    BY <2>2 DEF Request, server
  <2> QED
    BY <1>3, <2>1, <2>2
<1>4. ASSUME NEW t \in Tasks, GetRecheckFresh(t) \/ Resolve(t)
      PROVE  TypeOK'
  <2>1. lock.owner = t /\ t \in Engaged /\ Leave(t)
    BY <1>4, EndsAsOwner
  <2>2. lock' \in LockType(Tasks)
    BY <1>0, <2>1, ReleaseLock, TaskAssumption DEF Leave
  <2>3. /\ op' \in [Tasks -> Ops \cup {"none"}]
        /\ pc' \in [Tasks -> {"idle", "locking", "waiting"}]
        /\ reply' \in [Tasks -> Entries]
    BY <2>1, EntryType DEF Leave
  <2>4. cache' \in Entries
    <3>1. CASE Stored(t)
      BY <3>1 DEF Stored, Entries
    <3>2. CASE ~Stored(t)
      BY <1>4, <3>2, EntryType
         DEF Resolve, GetRecheckFresh, Deleted, DeleteMissing, Malformed, Rejected, GivenUp
    <3> QED
      BY <3>1, <3>2
  <2>5. last' \in [ver : Nat, at : Nat]
    BY <1>4 DEF Resolve, GetRecheckFresh, Stored, Deleted, DeleteMissing, Malformed, Rejected,
                GivenUp, Return, Entries
  <2>6. exclusive' \in BOOLEAN
    BY <1>4, Zenon DEF Resolve, GetRecheckFresh, Stored, Deleted, DeleteMissing, Malformed,
                       Rejected, GivenUp
  <2>7. UNCHANGED <<now, hist, configured>>
    BY <1>4 DEF Resolve, GetRecheckFresh, Stored, Deleted, DeleteMissing, Malformed, Rejected,
                GivenUp, server
  <2> QED
    BY <2>2, <2>3, <2>4, <2>5, <2>6, <2>7
<1>5. ASSUME NEW t \in Tasks, Serve(t)
      PROVE  TypeOK'
  <2>0. configured' \in BOOLEAN
    BY <1>5, Zenon DEF Serve, ServeGet, ServeSet, ServeDelete, ServeDeleteMissing, server
  <2>1. hist' \in Seq(Nat) /\ hist' # <<>>
    <3>1. hist' = hist \/ hist' = Append(hist, now)
      BY <1>5 DEF Serve, ServeGet, ServeSet, ServeDelete, ServeDeleteMissing, server
    <3>2. CASE hist' = Append(hist, now)
      BY ONLY <3>2, AppendProperties, hist \in Seq(Nat), now \in Nat
    <3> QED
      BY <3>1, <3>2
  <2>2. \E body \in {"configured", "default", "missing"} : Answer(t, body)
    BY <1>5 DEF Serve, ServeGet, ServeSet, ServeDelete, ServeDeleteMissing, Body
  <2>3. reply' \in [Tasks -> Entries]
    <3>1. Len(hist') \in Nat
      BY <2>1
    <3> QED
      BY <2>2, <3>1 DEF Answer, Entry, Entries
  <2>4. UNCHANGED <<now, cache, lock, op, pc, last, exclusive>>
    BY <1>5 DEF Serve, ServeGet, ServeSet, ServeDelete, ServeDeleteMissing
  <2> QED
    BY <2>0, <2>1, <2>3, <2>4
<1>6. CASE OtherWrite
  <2>1. exclusive' \in BOOLEAN /\ configured' \in BOOLEAN
    BY <1>6, Zenon DEF OtherWrite
  <2>2. hist' = Append(hist, now)
    BY <1>6 DEF OtherWrite
  <2>3. hist' \in Seq(Nat) /\ hist' # <<>>
    BY ONLY <2>2, AppendProperties, hist \in Seq(Nat), now \in Nat
  <2> QED
    BY <1>6, <2>1, <2>3 DEF OtherWrite, tasks
<1>7. CASE Tick \/ UNCHANGED vars
  BY <1>7 DEF Tick, vars, server, tasks
<1> QED
  BY <1>1, <1>2, <1>3, <1>4, <1>5, <1>6, <1>7, StepKinds

\* Every step keeps the lock discipline.
LEMMA NextLock ==
  ASSUME TypeOK, OneRequest, [Next]_vars
  PROVE  OneRequest'
<1> USE DEF TypeOK
<1>0. /\ Disciplined(lock, Engaged) /\ Engaged \in SUBSET Tasks
      /\ \A t \in Tasks : pc[t] = "waiting" => lock.owner = t
  BY DEF OneRequest, Engaged
<1>1. ASSUME NEW t \in Tasks, NEW o \in Ops, Call(t, o)
      PROVE  OneRequest'
  <2>1. t \in Tasks \ Engaged /\ Engaged' = Engaged \cup {t}
    BY <1>1 DEF Call, Engaged
  <2>2. /\ Disciplined(Acquire(lock, t), Engaged \cup {t})
        /\ lock.owner # Nobody => Acquire(lock, t).owner = lock.owner
    BY <1>0, <2>1, AcquireLock, TaskAssumption
  <2>3. \A u \in Tasks : pc'[u] = "waiting" => lock'.owner = u
    BY <1>0, <1>1, <2>2, TaskAssumption DEF Call
  <2> QED
    BY <1>1, <2>1, <2>2, <2>3 DEF OneRequest, Call
<1>2. ASSUME NEW t \in Tasks, LockCancelled(t)
      PROVE  OneRequest'
  <2>1. t \in Engaged /\ Engaged' = Engaged \ {t}
    BY <1>2 DEF LockCancelled, Engaged
  <2>2. /\ Disciplined(Abandon(lock, t), Engaged \ {t})
        /\ lock.owner # t => Abandon(lock, t).owner = lock.owner
    BY <1>0, <2>1, AbandonLock, TaskAssumption
  <2>3. \A u \in Tasks : pc'[u] = "waiting" => lock'.owner = u
    BY <1>0, <1>2, <2>2 DEF LockCancelled
  <2> QED
    BY <1>2, <2>1, <2>2, <2>3 DEF OneRequest, LockCancelled
<1>3. ASSUME NEW t \in Tasks, Request(t)
      PROVE  OneRequest'
  <2>1. Engaged' = Engaged
    BY <1>3 DEF Request, Engaged
  <2> QED
    BY <1>0, <1>3, <2>1 DEF OneRequest, Request
<1>4. ASSUME NEW t \in Tasks, GetRecheckFresh(t) \/ Resolve(t)
      PROVE  OneRequest'
  <2>1. lock.owner = t /\ t \in Engaged /\ Leave(t)
    BY <1>4, EndsAsOwner
  <2>2. Engaged' = Engaged \ {t}
    BY <2>1 DEF Leave, Engaged
  <2>3. Disciplined(Release(lock), Engaged \ {t})
    BY <1>0, <2>1, ReleaseLock, TaskAssumption
  <2>4. \A u \in Tasks : pc'[u] = "waiting" => lock'.owner = u
    BY <1>0, <2>1 DEF Leave
  <2> QED
    BY <2>1, <2>2, <2>3, <2>4 DEF OneRequest, Leave
<1>5. CASE UNCHANGED <<lock, pc>>
  BY <1>0, <1>5 DEF OneRequest, Engaged
<1>6. ASSUME \/ \E t \in Tasks : GetFast(t) \/ Serve(t)
             \/ OtherWrite \/ Tick \/ UNCHANGED vars
      PROVE  UNCHANGED <<lock, pc>>
  BY <1>6 DEF GetFast, Serve, ServeGet, ServeSet, ServeDelete, ServeDeleteMissing, OtherWrite,
              Tick, vars, tasks
<1> QED
  BY <1>1, <1>2, <1>3, <1>4, <1>5, <1>6, StepKinds

\* The call that ends is the only one with a request or an answer.
LEMMA EndsAlone ==
  ASSUME TypeOK, OneRequest, AnswerInv,
         NEW t \in Tasks, GetRecheckFresh(t) \/ Resolve(t)
  PROVE  /\ \A u \in Tasks : pc'[u] # "waiting" /\ reply'[u] = NoEntry
         /\ \A u \in Tasks \ {t} : reply[u] = NoEntry
<1>1. lock.owner = t /\ Leave(t)
  BY EndsAsOwner
<1>2. \A u \in Tasks \ {t} : pc[u] # "waiting" /\ reply[u] = NoEntry
  BY <1>1 DEF OneRequest, AnswerInv
<1> QED
  BY <1>1, <1>2 DEF Leave, TypeOK

\* A read starts over a cache that is not fresh, time only ages the cache, and
\* whoever fills it was the only one with a request.
LEMMA NextCold ==
  ASSUME IInv, [Next]_vars
  PROVE  ColdReadsOnly'
<1> USE DEF IInv, TypeOK
<1>1. ASSUME NEW t \in Tasks, GetRecheckFresh(t) \/ Resolve(t)
      PROVE  ColdReadsOnly'
  BY <1>1, EndsAlone DEF ColdReadsOnly
<1>2. CASE Tick
  <2>1. CacheFresh' => CacheFresh
    BY <1>2, BoundAssumption DEF Tick, CacheFresh, Entries
  <2> QED
    BY <1>2, <2>1 DEF Tick, ColdReadsOnly, tasks
<1>3. ASSUME UNCHANGED <<now, cache>>,
             \A t \in Tasks : pc'[t] = "waiting" /\ op'[t] = "get" =>
                                (pc[t] = "waiting" /\ op[t] = "get") \/ ~CacheFresh
      PROVE  ColdReadsOnly'
  BY <1>3 DEF ColdReadsOnly, CacheFresh
<1>4. ASSUME NEW t \in Tasks, LockCancelled(t) \/ Request(t)
      PROVE  ColdReadsOnly'
  BY <1>3, <1>4 DEF LockCancelled, Request
<1>5. ASSUME NEW t \in Tasks, NEW o \in Ops, Call(t, o)
      PROVE  ColdReadsOnly'
  BY <1>3, <1>5 DEF Call
<1>6. ASSUME NEW t \in Tasks, GetFast(t) \/ Serve(t)
      PROVE  ColdReadsOnly'
  BY <1>3, <1>6 DEF GetFast, Serve, ServeGet, ServeSet, ServeDelete, ServeDeleteMissing, tasks
<1>7. CASE OtherWrite \/ UNCHANGED vars
  BY <1>3, <1>7 DEF OtherWrite, vars, tasks
<1> QED
  BY <1>1, <1>2, <1>4, <1>5, <1>6, <1>7, StepKinds

\* A version that was current stays so until a later one replaces it.
LEMMA StillCurrent ==
  ASSUME TypeOK, hist' = hist \/ hist' = Append(hist, now),
         NEW v, NEW m \in Int, m <= now, CurrentAt(v, m)
  PROVE  v \in 1..Len(hist') /\ (v = Len(hist') \/ hist'[v + 1] >= m)
<1>1. CASE hist' = hist
  BY <1>1 DEF TypeOK, CurrentAt
<1>2. CASE hist' = Append(hist, now)
  <2>1. /\ Len(hist) \in Nat /\ Len(hist') = Len(hist) + 1
        /\ hist'[Len(hist) + 1] = now
        /\ \A i \in 1..Len(hist) : hist'[i] = hist[i]
    BY <1>2 DEF TypeOK
  <2>2. v \in 1..Len(hist)
    BY DEF CurrentAt
  <2>3. CASE v = Len(hist)
    BY <2>1, <2>2, <2>3 DEF TypeOK
  <2>4. CASE v # Len(hist)
    BY <2>1, <2>2, <2>4 DEF CurrentAt
  <2> QED
    BY <2>1, <2>2, <2>3, <2>4
<1> QED
  BY <1>1, <1>2

\* The server answers about its newest version, which no cached, seen or
\* earlier answered version exceeds.
LEMMA ServeKeeps ==
  ASSUME IInv, NEW t \in Tasks, Serve(t)
  PROVE  HistInv' /\ AnswerInv' /\ CacheInv'
<1> USE DEF IInv, TypeOK
<1>1. /\ UNCHANGED <<now, cache, lock, op, pc, last, exclusive>>
      /\ pc[t] = "waiting" /\ reply[t] = NoEntry
      /\ hist' = hist \/ hist' = Append(hist, now)
      /\ \E body \in {"configured", "default", "missing"} : Answer(t, body)
  BY DEF Serve, ServeGet, ServeSet, ServeDelete, ServeDeleteMissing, server, Unanswered, Body
<1>2. Len(hist) \in Nat \ {0} /\ Len(hist') \in Nat \ {0} /\ Len(hist) <= Len(hist')
  BY <1>1
<1>3. \A v \in 1..Len(hist') : hist'[v] <= now
  BY <1>1 DEF HistInv
<1>4. HistInv'
  BY <1>1, <1>2, <1>3 DEF HistInv
<1>5. CacheInv'
  <2> SUFFICES ASSUME cache # NoEntry
               PROVE  CacheInv'
    BY <1>1 DEF CacheInv
  <2>1. /\ cache.at - Delay \in Int /\ cache.at - Delay <= now
        /\ CurrentAt(cache.ver, cache.at - Delay)
    BY BoundAssumption DEF CacheInv, Entries
  <2>2. CurrentAt(cache.ver, cache.at - Delay)'
    BY <1>1, <2>1, StillCurrent DEF CurrentAt
  <2> QED
    BY <1>1, <2>2 DEF CacheInv
<1>6. ASSUME NEW u \in Tasks \ {t}
      PROVE  reply'[u] = reply[u] /\ reply[u] = NoEntry
  BY <1>1 DEF AnswerInv, OneRequest, Answer
<1>7. /\ reply'[t].ver = Len(hist') /\ reply'[t].at = now
  BY <1>1, <1>2 DEF Answer, Entry
<1>8. CurrentAt(reply[t].ver, reply[t].at)'
  BY <1>2, <1>7 DEF CurrentAt
<1>9. cache # NoEntry => cache.ver <= Len(hist')
  BY <1>1, <1>5 DEF CacheInv, CurrentAt
<1>10. AnswerInv'
  <2>1. now <= reply'[t].at + Delay /\ reply'[t].at <= now
    BY <1>7, BoundAssumption
  <2>2. last.ver <= reply'[t].ver
    BY <1>1, <1>2, <1>4, <1>7 DEF HistInv
  <2>3. \A u \in Tasks : reply'[u] # NoEntry => u = t
    BY <1>6
  <2> QED
    BY <1>1, <1>7, <1>8, <1>9, <2>1, <2>2, <2>3 DEF AnswerInv
<1> QED
  BY <1>4, <1>5, <1>10

\* A write by somebody else changes neither the cache nor what was answered.
LEMMA OtherWriteKeeps ==
  ASSUME IInv, OtherWrite
  PROVE  HistInv' /\ AnswerInv' /\ CacheInv'
<1> USE DEF IInv, TypeOK
<1>1. /\ UNCHANGED <<now, cache, lock, op, pc, reply, last>>
      /\ hist' = Append(hist, now)
  BY DEF OtherWrite, tasks
<1>2. HistInv'
  BY <1>1 DEF HistInv
<1>3. ASSUME cache # NoEntry
      PROVE  CurrentAt(cache.ver, cache.at - Delay)'
  <2>1. /\ cache.at - Delay \in Int /\ cache.at - Delay <= now
        /\ CurrentAt(cache.ver, cache.at - Delay)
    BY <1>3, BoundAssumption DEF CacheInv, Entries
  <2> QED
    BY <1>1, <2>1, StillCurrent DEF CurrentAt
<1>4. CacheInv'
  BY <1>1, <1>3 DEF CacheInv
<1>5. ASSUME NEW t \in Tasks, reply[t] # NoEntry
      PROVE  CurrentAt(reply[t].ver, reply[t].at)'
  <2>1. /\ reply[t].at \in Int /\ reply[t].at <= now
        /\ CurrentAt(reply[t].ver, reply[t].at)
    BY <1>5 DEF AnswerInv, Entries
  <2> QED
    BY <1>1, <2>1, StillCurrent DEF CurrentAt
<1>6. AnswerInv'
  BY <1>1, <1>5 DEF AnswerInv
<1> QED
  BY <1>2, <1>4, <1>6

\* A call that ends returns, if anything, what it was answered or what is
\* cached, and stores, if anything, what it was answered.
LEMMA EndKeeps ==
  ASSUME IInv, NEW t \in Tasks, GetRecheckFresh(t) \/ Resolve(t)
  PROVE  HistInv' /\ AnswerInv' /\ CacheInv'
<1> USE DEF IInv, TypeOK
<1>1. UNCHANGED <<now, hist>>
  BY DEF Resolve, GetRecheckFresh, Stored, Deleted, DeleteMissing, Malformed, Rejected,
         GivenUp, server
<1>2. AnswerInv'
  BY EndsAlone DEF AnswerInv
<1>3. CASE GetRecheckFresh(t)
  <2>1. cache # NoEntry /\ UNCHANGED cache /\ last'.ver = cache.ver
    BY <1>3 DEF GetRecheckFresh, CacheFresh, Return
  <2>2. HistInv'
    BY <1>1, <2>1 DEF HistInv, CacheInv, CurrentAt
  <2>3. CacheInv'
    BY <1>1, <2>1 DEF CacheInv, CurrentAt, Entries
  <2> QED
    BY <1>2, <2>2, <2>3
<1>4. CASE Stored(t)
  <2>1. /\ reply[t] # NoEntry /\ last'.ver = reply[t].ver
        /\ cache' = [reply[t] EXCEPT !.at = now]
    BY <1>4 DEF Stored, Answered, Return
  <2>2. /\ cache'.ver = reply[t].ver /\ cache'.at = now
    BY <2>1 DEF Entries
  <2>3. CurrentAt(reply[t].ver, reply[t].at) /\ reply[t].at >= now - Delay
    BY <2>1, BoundAssumption DEF AnswerInv, Entries
  <2>4. reply[t].ver \in 1..Len(hist)
    BY <2>3 DEF CurrentAt
  <2>5. CurrentAt(cache.ver, cache.at - Delay)'
    BY <1>1, <2>2, <2>3, BoundAssumption DEF CurrentAt, Entries
  <2> QED
    BY <1>1, <1>2, <2>1, <2>2, <2>4, <2>5 DEF HistInv, CacheInv
<1>5. CASE Deleted(t)
  <2>1. reply[t] # NoEntry /\ last'.ver = reply[t].ver /\ cache' = NoEntry
    BY <1>5 DEF Deleted, Answered, Return
  <2>2. reply[t].ver \in 1..Len(hist)
    BY <2>1 DEF AnswerInv, CurrentAt
  <2> QED
    BY <1>1, <1>2, <2>1, <2>2 DEF HistInv, CacheInv
<1>6. CASE DeleteMissing(t) \/ Malformed(t) \/ Rejected(t) \/ GivenUp(t)
  <2>1. UNCHANGED last /\ (cache' = cache \/ cache' = NoEntry)
    BY <1>6 DEF DeleteMissing, Malformed, Rejected, GivenUp
  <2> QED
    BY <1>1, <1>2, <2>1 DEF HistInv, CacheInv, CurrentAt
<1> QED
  BY <1>3, <1>4, <1>5, <1>6 DEF Resolve

\* Versions, cache and answers agree after every step.
LEMMA NextVersions ==
  ASSUME IInv, [Next]_vars
  PROVE  HistInv' /\ AnswerInv' /\ CacheInv'
<1> USE DEF IInv, TypeOK
<1>1. ASSUME NEW t \in Tasks, GetFast(t)
      PROVE  HistInv' /\ AnswerInv' /\ CacheInv'
  <2>1. /\ cache # NoEntry /\ last'.ver = cache.ver
        /\ UNCHANGED <<now, hist, cache, pc, reply>>
    BY <1>1 DEF GetFast, CacheFresh, Return, server, tasks
  <2>2. HistInv'
    BY <2>1 DEF HistInv, CacheInv, CurrentAt
  <2>3. CacheInv'
    BY <2>1 DEF CacheInv, CurrentAt, Entries
  <2>4. AnswerInv'
    BY <2>1 DEF AnswerInv, CurrentAt
  <2> QED
    BY <2>2, <2>3, <2>4
<1>2. ASSUME UNCHANGED <<now, hist, cache, reply, last>>,
             \A t \in Tasks : reply[t] # NoEntry => pc'[t] = pc[t]
      PROVE  HistInv' /\ AnswerInv' /\ CacheInv'
  <2>1. HistInv'
    BY <1>2 DEF HistInv
  <2>2. CacheInv'
    BY <1>2 DEF CacheInv, CurrentAt
  <2>3. AnswerInv'
    BY <1>2 DEF AnswerInv, CurrentAt
  <2> QED
    BY <2>1, <2>2, <2>3
<1>3. ASSUME NEW t \in Tasks, LockCancelled(t) \/ Request(t) \/ \E o \in Ops : Call(t, o)
      PROVE  HistInv' /\ AnswerInv' /\ CacheInv'
  <2>1. UNCHANGED <<now, hist, cache, reply, last>> /\ pc[t] # "waiting"
    BY <1>3 DEF LockCancelled, Request, Call, server
  <2>2. \A u \in Tasks : reply[u] # NoEntry => pc'[u] = pc[u]
    BY <1>3, <2>1 DEF LockCancelled, Request, Call, AnswerInv
  <2> QED
    BY <1>2, <2>1, <2>2
<1>4. CASE Tick
  <2>1. /\ now' = now + 1 /\ UNCHANGED <<hist, cache, last, reply, pc>>
        /\ \A t \in Tasks : reply[t] # NoEntry => now < reply[t].at + Delay
    BY <1>4 DEF Tick, server, tasks
  <2>2. HistInv'
    BY <2>1 DEF HistInv
  <2>3. CacheInv'
    BY <2>1 DEF CacheInv, CurrentAt, Entries
  <2>4. AnswerInv'
    BY <2>1, BoundAssumption DEF AnswerInv, CurrentAt, Entries
  <2> QED
    BY <2>2, <2>3, <2>4
<1>5. CASE UNCHANGED vars
  BY <1>2, <1>5 DEF vars
<1> QED
  BY <1>1, <1>3, <1>4, <1>5, ServeKeeps, OtherWriteKeeps, EndKeeps, StepKinds

\* While the client is the only writer, its next request is its owner's, and
\* whatever that request writes reaches the cache or leaves it empty.
LEMMA NextExclusive ==
  ASSUME IInv, [Next]_vars
  PROVE  ExclusiveInv'
<1> USE DEF IInv, TypeOK
<1>1. ASSUME NEW t \in Tasks, GetRecheckFresh(t) \/ Resolve(t), exclusive'
      PROVE  cache' # NoEntry => cache'.ver = Len(hist')
  <2>1. hist' = hist
    BY <1>1 DEF Resolve, GetRecheckFresh, Stored, Deleted, DeleteMissing, Malformed, Rejected,
                GivenUp, server
  <2>2. \A u \in Tasks \ {t} : reply[u] = NoEntry
    BY <1>1, EndsAlone
  <2>3. ASSUME UNCHANGED cache, exclusive, ~Unheard(t)
        PROVE  cache' # NoEntry => cache'.ver = Len(hist')
    BY <2>1, <2>2, <2>3 DEF ExclusiveInv, Unheard
  <2>4. CASE GetRecheckFresh(t)
    BY <1>1, <2>3, <2>4 DEF GetRecheckFresh, Unheard
  <2>5. CASE Stored(t)
    <3>1. reply[t] # NoEntry /\ cache' = [reply[t] EXCEPT !.at = now] /\ exclusive
      BY <1>1, <2>5 DEF Stored, Answered
    <3> QED
      BY <2>1, <3>1 DEF ExclusiveInv, Entries
  <2>6. CASE Deleted(t)
    BY <2>6 DEF Deleted
  <2>7. CASE DeleteMissing(t)
    BY <1>1, <2>3, <2>7 DEF DeleteMissing, Unheard
  <2>8. CASE Malformed(t)
    <3>1. CASE op[t] = "delete"
      BY <2>8, <3>1 DEF Malformed
    <3>2. CASE op[t] # "delete"
      <4>1. exclusive /\ op[t] # "set" /\ UNCHANGED cache
        BY <1>1, <2>8, <3>2 DEF Malformed
      <4> QED
        BY <2>3, <3>2, <4>1 DEF Unheard
    <3> QED
      BY <3>1, <3>2
  <2>9. CASE Rejected(t)
    BY <1>1, <2>3, <2>9 DEF Rejected, Unheard
  <2>10. CASE GivenUp(t)
    BY <1>1, <2>3, <2>10 DEF GivenUp, Unheard
  <2> QED
    BY <1>1, <2>4, <2>5, <2>6, <2>7, <2>8, <2>9, <2>10 DEF Resolve
<1>2. ASSUME NEW t \in Tasks, GetRecheckFresh(t) \/ Resolve(t)
      PROVE  ExclusiveInv'
  BY <1>1, <1>2, EndsAlone DEF ExclusiveInv
<1>3. ASSUME NEW t \in Tasks, Serve(t)
      PROVE  ExclusiveInv'
  <2>1. /\ UNCHANGED <<cache, op, exclusive>> /\ pc[t] = "waiting" /\ reply[t] = NoEntry
        /\ hist' = hist \/ hist' = Append(hist, now)
        /\ \E body \in {"configured", "default", "missing"} : Answer(t, body)
    BY <1>3 DEF Serve, ServeGet, ServeSet, ServeDelete, ServeDeleteMissing, server, Unanswered,
                Body
  <2>2. Len(hist') \in Nat \ {0}
    BY <2>1
  <2>3. reply'[t].ver = Len(hist') /\ reply'[t] # NoEntry
    <3>1. PICK body \in {"configured", "default", "missing"} :
            reply' = [reply EXCEPT ![t] = Entry(Len(hist'), body, now)]
      BY <2>1 DEF Answer
    <3>2. reply'[t] = Entry(Len(hist'), body, now)
      BY <3>1
    <3>3. Len(hist') \in Nat /\ Len(hist') # 0 /\ now \in Nat
      BY <2>2
    <3> QED
      BY <3>2, <3>3, EntryType
  <2>4. \A u \in Tasks \ {t} : reply[u] = NoEntry /\ reply'[u] = NoEntry
    BY <2>1 DEF Answer, AnswerInv, OneRequest
  <2>5. CASE hist' = hist
    <3>1. ~ \E u \in Tasks : Unheard(u)
      BY <2>1, <2>4 DEF Unheard
    <3> QED
      BY <2>1, <2>3, <2>4, <2>5, <3>1 DEF ExclusiveInv
  <2>6. CASE hist' # hist
    <3>1. op[t] \in {"set", "delete"} /\ (Answer(t, "configured") \/ Answer(t, "default"))
      BY <1>3, <2>6 DEF Serve, ServeGet, ServeSet, ServeDelete, ServeDeleteMissing, server,
                        Unanswered
    <3>2. reply'[t].body # "missing"
      BY <2>2, <3>1, EntryType DEF Answer
    <3>3. Unheard(t)'
      BY <2>1, <2>3, <3>1, <3>2 DEF Unheard
    <3> QED
      BY <2>3, <2>4, <3>3 DEF ExclusiveInv
  <2> QED
    BY <2>5, <2>6
<1>4. ASSUME UNCHANGED <<hist, cache, reply, exclusive>>,
             \A t \in Tasks : reply[t] # NoEntry => op'[t] = op[t]
      PROVE  ExclusiveInv'
  BY <1>4 DEF ExclusiveInv, Unheard
<1>5. ASSUME NEW t \in Tasks,
             LockCancelled(t) \/ Request(t) \/ GetFast(t) \/ \E o \in Ops : Call(t, o)
      PROVE  ExclusiveInv'
  BY <1>4, <1>5 DEF LockCancelled, Request, GetFast, Call, AnswerInv, server, tasks
<1>6. CASE OtherWrite
  BY <1>6 DEF OtherWrite, ExclusiveInv
<1>7. CASE Tick \/ UNCHANGED vars
  BY <1>4, <1>7 DEF Tick, vars, server, tasks
<1> QED
  BY <1>2, <1>3, <1>5, <1>6, <1>7, StepKinds

\* The inductive invariant of the specification.
THEOREM Invariance == Spec => []IInv
<1>1. Init => IInv
  <2> SUFFICES ASSUME Init
               PROVE  IInv
    OBVIOUS
  <2>1. Engaged = {}
    BY DEF Init, Engaged
  <2>2. TypeOK
    BY FreeLock, EntryType DEF Init, TypeOK
  <2>3. OneRequest
    BY <2>1, FreeLock DEF Init, OneRequest
  <2>4. Len(hist) = 1 /\ hist[1] = 0 /\ now = 0
    BY DEF Init
  <2> QED
    BY <2>2, <2>3, <2>4
       DEF Init, IInv, ColdReadsOnly, HistInv, AnswerInv, CacheInv, ExclusiveInv
<1>2. IInv /\ [Next]_vars => IInv'
  BY NextType, NextLock, NextCold, NextVersions, NextExclusive DEF IInv
<1> QED
  BY <1>1, <1>2, PTL DEF Spec

\* The variables keep their types.
THEOREM TypeCorrect == Spec => []TypeOK
BY Invariance, PTL DEF IInv

\* The lock serialises the requests and is never lost.
THEOREM OneRequestCorrect == Spec => []OneRequest
BY Invariance, PTL DEF IInv

\* No read goes to the server while the cache could answer it.
THEOREM ColdReadsCorrect == Spec => []ColdReadsOnly
BY Invariance, PTL DEF IInv

\* Between two calls of the only writer the cache is the server's configuration.
THEOREM CoherenceCorrect == Spec => []CoherentCache
<1>1. IInv => CoherentCache
  <2> SUFFICES ASSUME IInv, exclusive, lock.owner = Nobody, cache # NoEntry
               PROVE  cache.ver = Len(hist)
    BY DEF CoherentCache
  <2>1. \A t \in Tasks : reply[t] = NoEntry
    BY TaskAssumption DEF IInv, OneRequest, AnswerInv
  <2> QED
    BY <2>1 DEF IInv, ExclusiveInv, Unheard
<1> QED
  BY <1>1, Invariance, PTL

\* Every step of the cache is a step of the stale register, or invisible to it.
LEMMA StepImplements ==
  ASSUME IInv, IInv', [Next]_vars
  PROVE  [Register!Next]_(Register!vars)
<1> USE DEF IInv, TypeOK, Register!vars
<1>0. \A i \in 1..Len(hist) : hist[i] \in Nat
  OBVIOUS
<1>1. ASSUME UNCHANGED <<now, hist>>, NEW v \in last.ver..Len(hist),
             v = Len(hist) \/ hist[v + 1] > now - (TTL + Delay), Return(v)
      PROVE  Register!Next
  BY <1>1 DEF Register!Next, Register!Read, Register!CurrentAfter, Return
<1>2. ASSUME NEW t \in Tasks, GetFast(t) \/ GetRecheckFresh(t)
      PROVE  Register!Next
  <2>1. /\ cache # NoEntry /\ now < cache.at + TTL
        /\ UNCHANGED <<now, hist>> /\ Return(cache.ver)
    BY <1>2 DEF GetFast, GetRecheckFresh, CacheFresh, server
  <2>2. cache.ver \in last.ver..Len(hist)
    BY <2>1 DEF CacheInv, CurrentAt, Entries, HistInv
  <2>3. cache.ver = Len(hist) \/ hist[cache.ver + 1] > now - (TTL + Delay)
    <3>1. CASE cache.ver = Len(hist)
      BY <3>1
    <3>2. CASE cache.ver # Len(hist)
      <4>1. /\ hist[cache.ver + 1] >= cache.at - Delay
            /\ cache.ver + 1 \in 1..Len(hist)
        BY <2>1, <3>2 DEF CacheInv, CurrentAt, Entries
      <4>2. hist[cache.ver + 1] \in Nat /\ cache.at \in Nat /\ now \in Nat
        BY <1>0, <4>1 DEF Entries
      <4> QED
        BY <2>1, <4>1, <4>2, BoundAssumption
    <3> QED
      BY <3>1, <3>2
  <2> QED
    BY <1>1, <2>1, <2>2, <2>3
<1>3. ASSUME NEW t \in Tasks, Stored(t) \/ Deleted(t)
      PROVE  Register!Next
  <2>1. reply[t] # NoEntry /\ UNCHANGED <<now, hist>> /\ Return(reply[t].ver)
    BY <1>3 DEF Stored, Deleted, Answered, server
  <2>2. reply[t].ver \in last.ver..Len(hist)
    BY <2>1 DEF AnswerInv, CurrentAt, Entries, HistInv
  <2>3. reply[t].ver = Len(hist) \/ hist[reply[t].ver + 1] > now - (TTL + Delay)
    <3>1. CASE reply[t].ver = Len(hist)
      BY <3>1
    <3>2. CASE reply[t].ver # Len(hist)
      <4>1. /\ hist[reply[t].ver + 1] >= reply[t].at /\ now <= reply[t].at + Delay
            /\ reply[t].ver + 1 \in 1..Len(hist)
        BY <2>1, <3>2 DEF AnswerInv, CurrentAt, Entries
      <4>2. hist[reply[t].ver + 1] \in Nat /\ reply[t].at \in Nat /\ now \in Nat
        BY <1>0, <4>1 DEF Entries
      <4> QED
        BY <4>1, <4>2, BoundAssumption
    <3> QED
      BY <3>1, <3>2
  <2> QED
    BY <1>1, <2>1, <2>2, <2>3
<1>4. ASSUME NEW t \in Tasks, Serve(t)
      PROVE  [Register!Next]_(Register!vars)
  BY <1>4 DEF Serve, ServeGet, ServeSet, ServeDelete, ServeDeleteMissing, server,
              Register!Next, Register!Write
<1>5. CASE OtherWrite \/ Tick
  BY <1>5 DEF OtherWrite, Tick, server, Register!Next, Register!Write, Register!Tick
<1>6. ASSUME NEW t \in Tasks,
             DeleteMissing(t) \/ Malformed(t) \/ Rejected(t) \/ GivenUp(t)
      PROVE  UNCHANGED <<now, hist, last>>
  BY <1>6 DEF DeleteMissing, Malformed, Rejected, GivenUp, server
<1>7. ASSUME NEW t \in Tasks,
             LockCancelled(t) \/ Request(t) \/ \E o \in Ops : Call(t, o)
      PROVE  UNCHANGED <<now, hist, last>>
  BY <1>7 DEF LockCancelled, Request, Call, server
<1>8. CASE \E t \in Tasks : GetFast(t) \/ GetRecheckFresh(t) \/ Resolve(t)
  BY <1>2, <1>3, <1>6, <1>8 DEF Resolve
<1>9. CASE \E t \in Tasks : LockCancelled(t) \/ Request(t) \/ \E o \in Ops : Call(t, o)
  BY <1>7, <1>9
<1>10. CASE UNCHANGED vars
  BY <1>10 DEF vars
<1> QED
  BY <1>4, <1>5, <1>8, <1>9, <1>10, StepKinds

\* LlmConfigCache implements StaleRegister with a window of TTL + Delay.
THEOREM Implements == Spec => BoundedStaleness
<1>1. Init => Register!Init
  BY DEF Init, Register!Init
<1>2. IInv /\ IInv' /\ [Next]_vars => [Register!Next]_(Register!vars)
  BY StepImplements
<1> QED
  BY <1>1, <1>2, Invariance, PTL DEF Spec, BoundedStaleness, Register!Spec
=============================================================================
