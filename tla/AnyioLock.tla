----------------------------- MODULE AnyioLock -----------------------------
(***************************************************************************)
(* The mutex the SDK takes around every shared cell: anyio.Lock.  It is an *)
(* external library, modelled from how the SDK uses it (`async with` on    *)
(* one event loop).  A lock is a record of its owner and of the queue of   *)
(* tasks that wait for it, in arrival order.                               *)
(*                                                                         *)
(*  - acquire() on a free lock makes the caller the owner at once;         *)
(*    otherwise the caller joins the queue and sleeps;                     *)
(*  - release() hands the lock to the first waiter before that waiter has  *)
(*    run again, so no later arrival can overtake it;                      *)
(*  - a waiter that is cancelled leaves the queue, and if the lock was     *)
(*    handed to it in the meantime it passes it on.                        *)
(***************************************************************************)
EXTENDS Integers, SequencesExt

CONSTANT Nobody    \* the owner of a free lock

Free == [owner |-> Nobody, waiters |-> <<>>]

Acquire(lock, t) ==
  IF lock.owner = Nobody THEN [lock EXCEPT !.owner = t]
                         ELSE [lock EXCEPT !.waiters = Append(@, t)]

Release(lock) ==
  IF lock.waiters = <<>>
    THEN Free
    ELSE [owner |-> Head(lock.waiters), waiters |-> Tail(lock.waiters)]

\* The place of a waiting task in the queue.
PlaceOf(t, queue) == CHOOSE i \in 1..Len(queue) : queue[i] = t

\* Cancellation of a task that waits for the lock or has just been handed it.
Abandon(lock, t) ==
  IF lock.owner = t
    THEN Release(lock)
    ELSE [lock EXCEPT !.waiters = RemoveAt(@, PlaceOf(t, @))]

-----------------------------------------------------------------------------
(* What the lock promises its users. *)

LockType(Tasks) == [owner : Tasks \cup {Nobody}, waiters : Seq(Tasks)]

\* `engaged` is the set of tasks between their call of acquire() and their
\* release(): exactly one of them owns the lock, each other one waits in the
\* queue, once; and a lock nobody is engaged with is free.
Disciplined(lock, engaged) ==
  /\ \A i, j \in 1..Len(lock.waiters) :
        lock.waiters[i] = lock.waiters[j] => i = j
  /\ \A i \in 1..Len(lock.waiters) :
        lock.waiters[i] \in engaged /\ lock.waiters[i] # lock.owner
  /\ \A t \in engaged :
        t # lock.owner => \E i \in 1..Len(lock.waiters) : lock.waiters[i] = t
  /\ lock.owner \in engaged \/ (lock.owner = Nobody /\ engaged = {})
=============================================================================
