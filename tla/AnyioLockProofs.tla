-------------------------- MODULE AnyioLockProofs --------------------------
(***************************************************************************)
(* The lock keeps its discipline through each of its operations.           *)
(***************************************************************************)
EXTENDS AnyioLock, SequenceTheorems, TLAPS

\* A free lock has the right type and nobody is engaged with it.
LEMMA FreeLock ==
  ASSUME NEW Tasks
  PROVE  Free \in LockType(Tasks) /\ Disciplined(Free, {})
BY DEF Free, LockType, Disciplined

\* acquire() adds the caller to the engaged tasks.
LEMMA AcquireLock ==
  ASSUME NEW Tasks, NEW lock \in LockType(Tasks), NEW engaged \in SUBSET Tasks,
         Disciplined(lock, engaged), NEW t \in Tasks \ engaged, Nobody \notin Tasks
  PROVE  /\ Acquire(lock, t) \in LockType(Tasks)
         /\ Disciplined(Acquire(lock, t), engaged \cup {t})
         /\ lock.owner # Nobody => Acquire(lock, t).owner = lock.owner
<1>1. CASE lock.owner = Nobody
  BY <1>1 DEF Acquire, LockType, Disciplined
<1>2. CASE lock.owner # Nobody
  <2>1. Acquire(lock, t) = [owner |-> lock.owner, waiters |-> Append(lock.waiters, t)]
    BY <1>2 DEF Acquire, LockType
  <2> QED
    BY <1>2, <2>1 DEF LockType, Disciplined
<1> QED
  BY <1>1, <1>2

\* release() by the owner takes it out of the engaged tasks, and the lock goes
\* to a task that waited.
LEMMA ReleaseLock ==
  ASSUME NEW Tasks, NEW lock \in LockType(Tasks), NEW engaged \in SUBSET Tasks,
         Disciplined(lock, engaged), lock.owner \in engaged, Nobody \notin Tasks
  PROVE  /\ Release(lock) \in LockType(Tasks)
         /\ Disciplined(Release(lock), engaged \ {lock.owner})
<1>1. CASE lock.waiters = <<>>
  BY <1>1 DEF Release, Free, LockType, Disciplined
<1>2. CASE lock.waiters # <<>>
  <2> DEFINE w == lock.waiters
  <2>1. w \in Seq(Tasks) /\ Len(w) \in Nat \ {0}
    BY <1>2 DEF LockType
  <2>2. Tail(w) \in Seq(Tasks) /\ Len(Tail(w)) = Len(w) - 1 /\ Head(w) = w[1]
    BY <1>2, <2>1
  <2>3. \A i \in 1..Len(w) - 1 : Tail(w)[i] = w[i + 1]
    BY <1>2, <2>1
  <2>4. Release(lock) = [owner |-> w[1], waiters |-> Tail(w)]
    BY <1>2, <2>2 DEF Release
  <2>5. w[1] \in engaged /\ w[1] # lock.owner /\ 1 \in 1..Len(w)
    BY <2>1 DEF Disciplined
  <2>6. Release(lock) \in LockType(Tasks)
    BY <2>2, <2>4, <2>5 DEF LockType
  <2>7. ASSUME NEW s \in engaged \ {lock.owner}, s # w[1]
        PROVE  \E i \in 1..Len(w) - 1 : w[i + 1] = s
    <3>1. PICK i \in 1..Len(w) : w[i] = s
      BY DEF Disciplined
    <3>2. i # 1 /\ i - 1 \in 1..Len(w) - 1 /\ (i - 1) + 1 = i
      BY <2>1, <2>7, <3>1
    <3> QED
      BY <3>1, <3>2
  <2>8. \A i, j \in 1..Len(w) - 1 : Tail(w)[i] = Tail(w)[j] => i = j
    BY <2>1, <2>3 DEF Disciplined
  <2>9. \A i \in 1..Len(w) - 1 :
           Tail(w)[i] \in engaged \ {lock.owner} /\ Tail(w)[i] # w[1]
    BY <2>1, <2>3 DEF Disciplined
  <2>10. \A s \in engaged \ {lock.owner} :
           s # w[1] => \E i \in 1..Len(w) - 1 : Tail(w)[i] = s
    BY <2>3, <2>7
  <2> DEFINE r == Release(lock)
  <2>11. r.owner = w[1] /\ r.waiters = Tail(w) /\ Len(r.waiters) = Len(w) - 1
    BY <2>2, <2>4
  <2> HIDE DEF r, w
  <2>12. Disciplined(r, engaged \ {lock.owner})
    BY <2>5, <2>8, <2>9, <2>10, <2>11 DEF Disciplined
  <2> QED
    BY <2>6, <2>12 DEF r
<1> QED
  BY <1>1, <1>2

\* Removing the element at place k closes the gap and keeps the order.
LEMMA RemoveAtFacts ==
  ASSUME NEW S, NEW w \in Seq(S), NEW k \in 1..Len(w)
  PROVE  /\ RemoveAt(w, k) \in Seq(S)
         /\ Len(RemoveAt(w, k)) = Len(w) - 1
         /\ \A i \in 1..Len(w) - 1 :
               RemoveAt(w, k)[i] = IF i < k THEN w[i] ELSE w[i + 1]
<1> DEFINE a == SubSeq(w, 1, k - 1)
           b == SubSeq(w, k + 1, Len(w))
<1>0. Len(w) \in Nat
  OBVIOUS
<1>1. a \in Seq(S) /\ Len(a) = k - 1 /\ \A i \in 1..k - 1 : a[i] = w[i]
  BY <1>0
<1>2. b \in Seq(S) /\ Len(b) = Len(w) - k /\ \A i \in 1..Len(w) - k : b[i] = w[i + k]
  BY <1>0
<1>3. RemoveAt(w, k) = a \o b
  BY DEF RemoveAt
<1> HIDE DEF a, b
<1>4. a \o b \in Seq(S) /\ Len(a \o b) = Len(w) - 1
  <2>1. a \o b \in Seq(S) /\ Len(a \o b) = Len(a) + Len(b)
    BY <1>1, <1>2, ConcatProperties
  <2> QED
    BY <1>0, <1>1, <1>2, <2>1
<1>5. \A i \in 1..Len(w) - 1 : (a \o b)[i] = IF i < k THEN w[i] ELSE w[i + 1]
  BY <1>0, <1>1, <1>2
<1> QED
  BY <1>3, <1>4, <1>5

\* A task that gives up takes only itself out of the engaged tasks.
LEMMA AbandonLock ==
  ASSUME NEW Tasks, NEW lock \in LockType(Tasks), NEW engaged \in SUBSET Tasks,
         Disciplined(lock, engaged), NEW t \in engaged, Nobody \notin Tasks
  PROVE  /\ Abandon(lock, t) \in LockType(Tasks)
         /\ Disciplined(Abandon(lock, t), engaged \ {t})
         /\ lock.owner # t => Abandon(lock, t).owner = lock.owner
<1>1. CASE lock.owner = t
  BY <1>1, ReleaseLock DEF Abandon
<1>2. CASE lock.owner # t
  <2> DEFINE w == lock.waiters
             k == PlaceOf(t, w)
             u == RemoveAt(w, k)
  <2>1. w \in Seq(Tasks) /\ Len(w) \in Nat
    BY DEF LockType
  <2>2. k \in 1..Len(w) /\ w[k] = t
    BY <1>2 DEF Disciplined, PlaceOf
  <2>3. /\ u \in Seq(Tasks) /\ Len(u) = Len(w) - 1
        /\ \A i \in 1..Len(w) - 1 : u[i] = IF i < k THEN w[i] ELSE w[i + 1]
    BY <2>1, <2>2, RemoveAtFacts
  <2>4. Abandon(lock, t) = [owner |-> lock.owner, waiters |-> u]
    BY <1>2 DEF Abandon, LockType
  <2> HIDE DEF u, k
  <2>5. ASSUME NEW s \in engaged \ {t}, s # lock.owner
        PROVE  \E i \in 1..Len(w) - 1 : u[i] = s
    <3>1. PICK i \in 1..Len(w) : w[i] = s
      BY <2>5 DEF Disciplined
    <3>2. CASE i < k
      BY <2>1, <2>2, <2>3, <3>1, <3>2
    <3>3. CASE i > k
      <4>1. i - 1 \in 1..Len(w) - 1 /\ ~(i - 1 < k) /\ (i - 1) + 1 = i
        BY <2>1, <2>2, <3>3
      <4>2. u[i - 1] = w[(i - 1) + 1]
        BY <2>3, <4>1
      <4> QED
        BY <3>1, <4>1, <4>2
    <3> QED
      BY <2>1, <2>2, <3>1, <3>2, <3>3
  <2>6. \A i, j \in 1..Len(w) - 1 : u[i] = u[j] => i = j
    BY <2>1, <2>2, <2>3 DEF Disciplined
  <2>7. \A i \in 1..Len(w) - 1 : u[i] \in engaged \ {t} /\ u[i] # lock.owner
    BY <2>1, <2>2, <2>3 DEF Disciplined
  <2> QED
    BY <1>2, <2>1, <2>3, <2>4, <2>5, <2>6, <2>7 DEF Disciplined, LockType
<1> QED
  BY <1>1, <1>2
=============================================================================
