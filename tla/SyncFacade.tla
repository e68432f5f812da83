----------------------------- MODULE SyncFacade -----------------------------
(***************************************************************************)
(* TeardropClient and AdminTeardropClient (client/_sync.py,                *)
(* client/_admin_sync.py): threads call the asynchronous client through a  *)
(* portal, a thread of anyio's with an event loop.                         *)
(*                                                                         *)
(* The portal is started by the first use and stopped by close(); the next *)
(* use starts another one.  The httpx.AsyncClient of the asynchronous      *)
(* client belongs to the loop it was opened on.  A thread may be           *)
(* interrupted while it waits (Ctrl-C): its coroutine goes on in the loop. *)
(*                                                                         *)
(* The facade has no lock of its own.  The model is of callers that put    *)
(* the first use and close() apart from the calls of other threads, as a   *)
(* `with` block around the threads does.                                   *)
(***************************************************************************)
EXTENDS Integers

CONSTANTS
  Threads,
  MaxPortals    \* bound of the portals started over time

ASSUME PortalAssumption == MaxPortals \in Nat

VARIABLES
  portal,     \* _portal and _portal_exit: the portal by number, 0 for None
  made,       \* portals started so far
  running,    \* portals whose loop runs
  stopped,    \* portals told to stop: they take no more calls
  http,       \* the portal on whose loop the open httpx client was made, 0: none
  pc,         \* what each thread waits for
  task,       \* its coroutine: "early" until it looks up the httpx client
  loop,       \* the portal its coroutine runs on
  streams,    \* the threads whose coroutine reads a stream for run_sync
  used,       \* ghost: the loop of the httpx client its coroutine uses
  clean,      \* ghost: no close() ran beside an interrupted call
  torn        \* ghost: a close() was interrupted while it waited for the thread

portals == <<portal, made, running, stopped>>
calls == <<task, loop, streams, used>>
vars == <<portals, http, pc, calls, clean, torn>>

Init ==
  /\ portal = 0 /\ made = 0 /\ running = {} /\ stopped = {} /\ http = 0
  /\ pc = [t \in Threads |-> "idle"]
  /\ task = [t \in Threads |-> "none"]
  /\ loop = [t \in Threads |-> 0]
  /\ streams = {}
  /\ used = [t \in Threads |-> 0]
  /\ clean = TRUE /\ torn = FALSE

Goto(t, place) == pc' = [pc EXCEPT ![t] = place]

Alone(t) == \A u \in Threads \ {t} : pc[u] = "idle"
Closing == \E t \in Threads : pc[t] \in {"closing", "exiting", "joining"}

\* Mutants: every use starts a portal; the portal that was started is not kept.
EnsurePortal_Always ==
  /\ made < MaxPortals
  /\ made' = made + 1
  /\ portal' = made'
  /\ running' = running \cup {made'}
  /\ UNCHANGED stopped
EnsurePortal_NotStored ==
  /\ running' = IF portal = 0 THEN running \cup {made + 1} ELSE running
  /\ UNCHANGED <<portal, made, stopped>>

EnsurePortal ==
  IF portal # 0
    THEN UNCHANGED portals
    ELSE /\ made < MaxPortals
         /\ made' = made + 1
         /\ portal' = made'
         /\ running' = running \cup {made'}
         /\ UNCHANGED stopped

-----------------------------------------------------------------------------
(* Calls *)

\* __enter__
Enter(t) ==
  /\ pc[t] = "idle" /\ Alone(t)
  /\ EnsurePortal
  /\ UNCHANGED <<http, pc, calls, clean, torn>>

\* portal.call: the coroutine is handed to the loop, the thread waits.  A portal
\* told to stop refuses it.
PortalCall(t) ==
  /\ pc[t] = "idle" /\ task[t] = "none"
  /\ IF portal = 0 THEN Alone(t) ELSE ~Closing /\ portal \notin stopped
  /\ EnsurePortal
  /\ Goto(t, "calling")
  /\ task' = [task EXCEPT ![t] = "early"]
  /\ loop' = [loop EXCEPT ![t] = portal']
  /\ UNCHANGED <<http, used, clean, torn>>

\* _run: a request and its answer.
Run(t) == PortalCall(t) /\ UNCHANGED streams

\* run_sync: the events of a stream, collected until it ends.
RunSync(t) == PortalCall(t) /\ streams' = streams \cup {t}

\* _get_http on the coroutine's loop, at its start or after it had a lock.
LookUp(t) ==
  /\ task[t] = "early"
  /\ http' = IF http = 0 THEN loop[t] ELSE http
  /\ used' = [used EXCEPT ![t] = http']
  /\ task' = [task EXCEPT ![t] = "late"]
  /\ UNCHANGED <<portals, pc, loop, streams, clean, torn>>

\* The coroutine returns or raises, at any stage; a thread that waits for it
\* goes on.
Ends(t) ==
  /\ task[t] # "none"
  /\ task' = [task EXCEPT ![t] = "none"]
  /\ loop' = [loop EXCEPT ![t] = 0]
  /\ streams' = streams \ {t}
  /\ used' = [used EXCEPT ![t] = 0]
  /\ Goto(t, IF pc[t] = "calling" THEN "idle" ELSE pc[t])
  /\ UNCHANGED <<portals, http, clean, torn>>

\* KeyboardInterrupt in portal.call: the coroutine is on its own.
Interrupted(t) ==
  /\ pc[t] = "calling"
  /\ Goto(t, "idle")
  /\ UNCHANGED <<portals, http, calls, clean, torn>>

-----------------------------------------------------------------------------
(* close *)

\* Without a portal there is nothing to do; one told to stop refuses the call.
Close(t) ==
  /\ pc[t] = "idle" /\ Alone(t)
  /\ portal # 0 /\ portal \notin stopped
  /\ Goto(t, "closing")
  /\ clean' = (clean /\ \A u \in Threads : task[u] = "none")
  /\ UNCHANGED <<portals, http, calls, torn>>

\* Mutant: the httpx client stays open for the next portal.
HttpClosed_Kept(t) ==
  /\ pc[t] = "closing"
  /\ Goto(t, "exiting")
  /\ UNCHANGED <<portals, http, calls, clean, torn>>

HttpClosed(t) ==
  /\ pc[t] = "closing"
  /\ http' = 0
  /\ Goto(t, "exiting")
  /\ UNCHANGED <<portals, calls, clean, torn>>

\* aclose() raises, having marked the client closed: close() ends with the
\* portal running and still held, for another close().
CloseRaised(t) ==
  /\ pc[t] = "closing"
  /\ http' = 0
  /\ Goto(t, "idle")
  /\ UNCHANGED <<portals, calls, clean, torn>>

\* Mutants: the portal is forgotten without being stopped; the thread is joined
\* without being told to stop.
Exit_Forgets(t) ==
  /\ pc[t] = "exiting"
  /\ portal' = 0
  /\ Goto(t, "idle")
  /\ UNCHANGED <<made, running, stopped, http, calls, clean, torn>>
Exit_OnlyJoins(t) ==
  /\ pc[t] = "exiting"
  /\ Goto(t, "joining")
  /\ UNCHANGED <<portals, http, calls, clean, torn>>

\* _portal_exit tells the portal to stop and waits for its thread.
Exit(t) ==
  /\ pc[t] = "exiting"
  /\ stopped' = stopped \cup {portal}
  /\ Goto(t, "joining")
  /\ UNCHANGED <<portal, made, running, http, calls, clean, torn>>

\* The thread ends when the loop has no coroutine left.
LoopEnds ==
  \E p \in running \cap stopped :
    /\ \A t \in Threads : loop[t] # p
    /\ running' = running \ {p}
    /\ UNCHANGED <<portal, made, stopped, http, pc, calls, clean, torn>>

\* Mutant: the portal is stopped but still held.
Joined_Holds(t) ==
  /\ pc[t] = "joining" /\ portal \notin running
  /\ Goto(t, "idle")
  /\ UNCHANGED <<portals, http, calls, clean, torn>>

Joined(t) ==
  /\ pc[t] = "joining" /\ portal \notin running
  /\ portal' = 0
  /\ Goto(t, "idle")
  /\ UNCHANGED <<made, running, stopped, http, calls, clean, torn>>

\* KeyboardInterrupt in _portal_exit: the assignments of None are skipped.
JoinInterrupted(t) ==
  /\ pc[t] = "joining"
  /\ torn' = TRUE
  /\ Goto(t, "idle")
  /\ UNCHANGED <<portals, http, calls, clean>>

Next ==
  \/ \E t \in Threads :
       \/ Enter(t) \/ Run(t) \/ RunSync(t)
       \/ LookUp(t) \/ Ends(t) \/ Interrupted(t)
       \/ Close(t) \/ HttpClosed(t) \/ CloseRaised(t)
       \/ Exit(t) \/ Joined(t) \/ JoinInterrupted(t)
  \/ LoopEnds

Spec == Init /\ [][Next]_vars

\* A request ends, by httpx's timeout at the latest; a stream that goes on with
\* heartbeats does not time out, so nothing is assumed of one.  The steps of
\* close() end, and so does anyio's thread when nothing is left for it to do.
Fairness ==
  /\ \A t \in Threads :
       /\ WF_vars(t \notin streams /\ Ends(t))
       /\ WF_vars(HttpClosed(t) \/ CloseRaised(t)) /\ WF_vars(Exit(t)) /\ WF_vars(Joined(t))
  /\ WF_vars(LoopEnds)

FairSpec == Spec /\ Fairness

-----------------------------------------------------------------------------
(* Properties *)

TypeOK ==
  /\ made \in 0..MaxPortals /\ portal \in 0..made
  /\ running \subseteq 1..made /\ stopped \subseteq 1..made /\ http \in 0..made
  /\ pc \in [Threads -> {"idle", "calling", "closing", "exiting", "joining"}]
  /\ task \in [Threads -> {"none", "early", "late"}]
  /\ loop \in [Threads -> 0..made] /\ used \in [Threads -> 0..made]
  /\ streams \subseteq Threads
  /\ clean \in BOOLEAN /\ torn \in BOOLEAN

\* No event loop leaks: through failing closes, interrupts and reopenings, the
\* only portal that runs is the one the facade holds (_ensure_portal, close).
OnePortal == running \subseteq {portal}

\* The facade can be used after every close(), also after one that failed: a
\* portal it holds takes calls.  Only an interrupt in the middle of _portal_exit
\* leaves a stopped portal behind, and every later call then fails.
HeldPortalRuns ==
  portal # 0 /\ ~Closing /\ ~torn => portal \in running \ stopped

\* No httpx client is used on another loop than its own, however often the
\* facade is closed and used again, as long as no close() ran beside a call that
\* had been interrupted: that call may open a client the next portal finds.
LoopAffinity ==
  clean => \A t \in Threads : task[t] = "late" => used[t] = loop[t]

\* close() ends, also behind the requests of interrupted threads, once no stream
\* is read.  It joins a thread that waits for every coroutine of its loop and
\* cancels none, so behind an interrupted run_sync whose server goes on sending
\* heartbeats nothing of the facade's makes it end.
CloseEnds ==
  \A t \in Threads :
    pc[t] \in {"closing", "exiting", "joining"} /\ streams = {} ~> pc[t] = "idle"
=============================================================================
