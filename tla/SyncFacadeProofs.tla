-------------------------- MODULE SyncFacadeProofs --------------------------
(***************************************************************************)
(* The safety properties of SyncFacade, for any threads and any number of  *)
(* portals.                                                                *)
(*                                                                         *)
(* What keeps an httpx client on its own loop is spread over close(): it   *)
(* runs alone, beside no coroutine unless one was interrupted, and has no  *)
(* client left open when it gives the portal up.  Affinity states that for *)
(* each of its stages.                                                     *)
(***************************************************************************)
EXTENDS SyncFacade, TLAPS

InClose == {"closing", "exiting", "joining"}

\* close() runs beside no call another thread waits for, and holds a portal,
\* which it tells to stop in its second stage.
CloseAlone ==
  \A t \in Threads : pc[t] \in InClose =>
    /\ Alone(t)
    /\ portal # 0
    /\ pc[t] = "joining" <=> portal \in stopped

\* A held portal runs until it is told to stop, and only a close() that was
\* interrupted leaves a stopped one behind.
Held ==
  portal # 0 => /\ portal \in running \cup stopped
                /\ portal \in stopped => torn \/ \E t \in Threads : pc[t] = "joining"

\* Coroutines, interrupted ones included, are on a loop that runs.
OnLoop == \A t \in Threads : task[t] # "none" => loop[t] \in running

Affinity ==
  clean =>
    /\ http \in {0, portal}
    /\ \A t \in Threads : task[t] = "late" => used[t] = loop[t]
    /\ \A t \in Threads : pc[t] \in InClose => \A u \in Threads : task[u] = "none"
    /\ \A t \in Threads : pc[t] \in {"exiting", "joining"} => http = 0

IInv == TypeOK /\ OnePortal /\ CloseAlone /\ Held /\ OnLoop /\ Affinity

\* The initial states satisfy the invariant.
LEMMA InitIInv == Init => IInv
<1> SUFFICES ASSUME Init
             PROVE  IInv
  OBVIOUS
<1>1. TypeOK
  <2>1. 0 \in 0..MaxPortals
    BY PortalAssumption
  <2>2. clean \in BOOLEAN /\ torn \in BOOLEAN
    BY DEF Init
  <2>3. /\ pc \in [Threads -> {"idle", "calling", "closing", "exiting", "joining"}]
        /\ task \in [Threads -> {"none", "early", "late"}]
        /\ loop \in [Threads -> 0..0] /\ used \in [Threads -> 0..0]
    BY DEF Init
  <2> QED
    BY <2>1, <2>2, <2>3 DEF Init, TypeOK
<1>2. OnePortal /\ Held /\ OnLoop
  BY DEF Init, OnePortal, Held, OnLoop
<1>3. CloseAlone /\ Affinity
  BY DEF Init, CloseAlone, Affinity, InClose
<1> QED
  BY <1>1, <1>2, <1>3 DEF IInv

\* A use of the facade finds a portal or starts one, which is then the only one.
LEMMA EnsureFacts ==
  ASSUME IInv, EnsurePortal
  PROVE  /\ made' \in 0..MaxPortals /\ portal' \in 1..made' /\ made <= made'
         /\ running' \subseteq 1..made' /\ running' \subseteq {portal'}
         /\ stopped' = stopped /\ running \subseteq running'
         /\ portal # 0 => portal' = portal /\ running' = running
         /\ portal = 0 => running = {} /\ portal' \in running' /\ portal' \notin stopped
<1>1. /\ made \in 0..MaxPortals /\ MaxPortals \in Nat /\ portal \in 0..made
      /\ running \subseteq 1..made /\ stopped \subseteq 1..made /\ running \subseteq {portal}
  BY PortalAssumption DEF IInv, TypeOK, OnePortal
<1>2. CASE portal # 0
  <2>1. UNCHANGED <<portal, made, running, stopped>>
    BY <1>2 DEF EnsurePortal, portals
  <2>2. portal \in 1..made
    BY <1>1, <1>2
  <2> QED
    BY <1>1, <1>2, <2>1, <2>2
<1>3. CASE portal = 0
  <2>1. made' = made + 1 /\ portal' = made + 1 /\ running' = running \cup {made + 1}
        /\ stopped' = stopped /\ made < MaxPortals
    BY <1>3 DEF EnsurePortal
  <2>2. running = {}
    BY <1>1, <1>3
  <2>3. running' = {portal'} /\ made + 1 \notin stopped
    BY <1>1, <2>1, <2>2
  <2> QED
    BY <1>1, <1>3, <2>1, <2>2, <2>3
<1> QED
  BY <1>2, <1>3

\* Starting the portal, alone if there was none, keeps all but the types of the
\* variables it does not write.
LEMMA EnterIInv ==
  ASSUME IInv, NEW t \in Threads, Enter(t)
  PROVE  IInv'
<1>1. /\ made' \in 0..MaxPortals /\ portal' \in 1..made' /\ made <= made'
      /\ running' \subseteq 1..made' /\ running' \subseteq {portal'}
      /\ stopped' = stopped /\ running \subseteq running'
      /\ portal # 0 => portal' = portal /\ running' = running
      /\ portal = 0 => running = {} /\ portal' \in running' /\ portal' \notin stopped
  BY EnsureFacts DEF Enter
<1>2. UNCHANGED <<http, pc, task, loop, streams, used, clean, torn>> /\ pc[t] = "idle" /\ Alone(t)
  BY DEF Enter, calls
<1>3. \A u \in Threads : pc[u] = "idle"
  BY <1>2 DEF Alone
<1>4. TypeOK'
  <2>1. 0..made \subseteq 0..made' /\ 1..made \subseteq 1..made'
    BY <1>1, PortalAssumption DEF IInv, TypeOK
  <2> QED
    BY <1>1, <1>2, <2>1 DEF IInv, TypeOK
<1>5. OnePortal' /\ OnLoop'
  BY <1>1, <1>2 DEF IInv, OnePortal, OnLoop
<1>6. CloseAlone'
  BY <1>2, <1>3 DEF CloseAlone, InClose
<1>7. Held'
  BY <1>1, <1>2 DEF IInv, Held
<1>8. Affinity'
  BY <1>1, <1>2, <1>3 DEF IInv, Affinity, InClose
<1> QED
  BY <1>4, <1>5, <1>6, <1>7, <1>8 DEF IInv

\* A call goes to the portal that runs.
LEMMA RunIInv ==
  ASSUME IInv, NEW t \in Threads, Run(t) \/ RunSync(t)
  PROVE  IInv'
<1>1. /\ made' \in 0..MaxPortals /\ portal' \in 1..made' /\ made <= made'
      /\ running' \subseteq 1..made' /\ running' \subseteq {portal'}
      /\ stopped' = stopped /\ running \subseteq running'
      /\ portal # 0 => portal' = portal /\ running' = running
      /\ portal = 0 => running = {} /\ portal' \in running' /\ portal' \notin stopped
  BY EnsureFacts DEF Run, RunSync, PortalCall
<1>2. /\ UNCHANGED <<http, used, clean, torn>>
      /\ pc[t] = "idle" /\ pc' = [pc EXCEPT ![t] = "calling"]
      /\ task[t] = "none" /\ task' = [task EXCEPT ![t] = "early"]
      /\ loop' = [loop EXCEPT ![t] = portal']
      /\ portal = 0 => Alone(t)
      /\ portal # 0 => ~Closing /\ portal \notin stopped
      /\ streams' \in {streams, streams \cup {t}}
  BY DEF Run, RunSync, PortalCall, Goto
<1>3. \A u \in Threads : pc[u] \notin InClose /\ pc'[u] \notin InClose
  BY <1>2 DEF IInv, TypeOK, Alone, Closing, InClose
<1>4. TypeOK'
  <2>1. 0..made \subseteq 0..made' /\ 1..made \subseteq 1..made' /\ portal' \in 0..made'
    BY <1>1, PortalAssumption DEF IInv, TypeOK
  <2> QED
    BY <1>1, <1>2, <2>1 DEF IInv, TypeOK
<1>5. portal' \in running'
  BY <1>1, <1>2 DEF IInv, Held
<1>6. OnePortal' /\ OnLoop'
  BY <1>1, <1>2, <1>5 DEF IInv, TypeOK, OnePortal, OnLoop
<1>7. CloseAlone'
  BY <1>3 DEF CloseAlone
<1>8. Held'
  BY <1>1, <1>2, <1>5 DEF Held
<1>9. Affinity'
  <2> SUFFICES ASSUME clean
               PROVE  /\ http' \in {0, portal'}
                      /\ \A u \in Threads : task'[u] = "late" => used'[u] = loop'[u]
    BY <1>2, <1>3 DEF Affinity, InClose
  <2>1. http' \in {0, portal'}
    BY <1>1, <1>2 DEF IInv, Affinity
  <2>2. \A u \in Threads : task'[u] = "late" => used'[u] = loop'[u]
    BY <1>2 DEF IInv, TypeOK, Affinity
  <2> QED
    BY <2>1, <2>2
<1> QED
  BY <1>4, <1>6, <1>7, <1>8, <1>9 DEF IInv

\* Steps of coroutines and interrupts change no portal.
LEMMA CallIInv ==
  ASSUME IInv, NEW t \in Threads, LookUp(t) \/ Ends(t) \/ Interrupted(t)
  PROVE  IInv'
<1> USE DEF IInv, TypeOK
<1>1. UNCHANGED <<portal, made, running, stopped, clean, torn>>
  BY DEF LookUp, Ends, Interrupted, portals
<1>2. CASE LookUp(t)
  <2>1. /\ UNCHANGED <<pc, loop, streams>> /\ task[t] = "early"
        /\ http' = (IF http = 0 THEN loop[t] ELSE http)
        /\ used' = [used EXCEPT ![t] = http'] /\ task' = [task EXCEPT ![t] = "late"]
    BY <1>2 DEF LookUp
  <2>2. loop[t] = portal
    BY <2>1 DEF OnLoop, OnePortal
  <2>3. TypeOK' /\ OnePortal' /\ CloseAlone' /\ Held' /\ OnLoop'
    BY <1>1, <2>1 DEF OnePortal, CloseAlone, Held, OnLoop, Alone
  <2>4. Affinity'
    <3> SUFFICES ASSUME clean
                 PROVE  Affinity'
      BY <1>1 DEF Affinity
    <3>1. http' = portal /\ used'[t] = portal
      BY <2>1, <2>2 DEF Affinity
    <3>2. \A u \in Threads : task'[u] = "late" => used'[u] = loop'[u]
      BY <2>1, <2>2, <3>1 DEF Affinity
    <3>3. \A u \in Threads : pc'[u] \notin InClose
      BY <2>1 DEF Affinity
    <3> QED
      BY <1>1, <3>1, <3>2, <3>3 DEF Affinity, InClose
  <2> QED
    BY <2>3, <2>4
<1>3. CASE Ends(t)
  <2>1. /\ UNCHANGED http
        /\ pc' = [pc EXCEPT ![t] = IF pc[t] = "calling" THEN "idle" ELSE pc[t]]
        /\ task' = [task EXCEPT ![t] = "none"] /\ loop' = [loop EXCEPT ![t] = 0]
        /\ used' = [used EXCEPT ![t] = 0] /\ streams' = streams \ {t}
    BY <1>3 DEF Ends, Goto
  <2>2. \A u \in Threads :
          /\ pc'[u] \in {"idle", "calling", "closing", "exiting", "joining"}
          /\ \A place \in InClose : pc'[u] = place <=> pc[u] = place
          /\ pc[u] = "idle" => pc'[u] = "idle"
    BY <2>1 DEF InClose
  <2>3. TypeOK'
    BY <1>1, <2>1
  <2>4. OnePortal' /\ OnLoop'
    BY <1>1, <2>1 DEF OnePortal, OnLoop
  <2>5. CloseAlone' /\ Held'
    BY <1>1, <2>2 DEF CloseAlone, Held, Alone, InClose
  <2>6. Affinity'
    BY <1>1, <2>1, <2>2 DEF Affinity, InClose
  <2> QED
    BY <2>3, <2>4, <2>5, <2>6
<1>4. CASE Interrupted(t)
  <2>1. /\ UNCHANGED <<http, task, loop, streams, used>>
        /\ pc[t] = "calling" /\ pc' = [pc EXCEPT ![t] = "idle"]
    BY <1>4 DEF Interrupted, Goto, calls
  <2>2. \A u \in Threads :
          /\ \A place \in InClose : pc'[u] = place <=> pc[u] = place
          /\ pc[u] = "idle" => pc'[u] = "idle"
    BY <2>1 DEF InClose
  <2>3. TypeOK' /\ OnePortal' /\ OnLoop'
    BY <1>1, <2>1 DEF OnePortal, OnLoop
  <2>4. CloseAlone' /\ Held'
    BY <1>1, <2>2 DEF CloseAlone, Held, Alone, InClose
  <2>5. Affinity'
    BY <1>1, <2>1, <2>2 DEF Affinity, InClose
  <2> QED
    BY <2>3, <2>4, <2>5
<1> QED
  BY <1>2, <1>3, <1>4

\* close() up to the moment it tells the portal to stop.
LEMMA CloseIInv ==
  ASSUME IInv, NEW t \in Threads, Close(t) \/ HttpClosed(t) \/ CloseRaised(t)
  PROVE  IInv'
<1> USE DEF IInv, TypeOK
<1>1. /\ UNCHANGED <<portal, made, running, stopped, task, loop, streams, used, torn>>
      /\ Alone(t) /\ portal # 0 /\ portal \notin stopped
      /\ \E place \in {"idle", "closing", "exiting"} : pc' = [pc EXCEPT ![t] = place]
      /\ http' \in {0, http}
  BY DEF Close, HttpClosed, CloseRaised, portals, calls, CloseAlone, InClose, Goto
<1>2. \A u \in Threads \ {t} : pc[u] = "idle" /\ pc'[u] = "idle"
  BY <1>1 DEF Alone
<1>3. clean' \in BOOLEAN /\ (clean' => clean)
  <2>1. CASE Close(t)
    BY <2>1, Zenon DEF Close
  <2>2. CASE HttpClosed(t) \/ CloseRaised(t)
    <3>1. UNCHANGED clean
      BY <2>2 DEF HttpClosed, CloseRaised
    <3> QED
      BY <3>1
  <2> QED
    BY <2>1, <2>2
<1>4. TypeOK' /\ OnePortal' /\ OnLoop'
  BY <1>1, <1>3 DEF OnePortal, OnLoop
<1>5. CloseAlone'
  BY <1>1, <1>2 DEF CloseAlone, Alone, InClose
<1>6. Held'
  BY <1>1 DEF Held
<1>7. Affinity'
  <2> SUFFICES ASSUME clean'
               PROVE  /\ \A u \in Threads : pc'[u] \in InClose =>
                             \A v \in Threads : task[v] = "none"
                      /\ \A u \in Threads : pc'[u] \in {"exiting", "joining"} => http' = 0
    BY <1>1, <1>3 DEF Affinity
  <2>1. CASE Close(t)
    <3>1. \A v \in Threads : task[v] = "none"
      BY <2>1 DEF Close
    <3>2. \A u \in Threads : pc'[u] \in {"idle", "closing"}
      BY <1>2, <2>1 DEF Close, Goto
    <3> QED
      BY <3>1, <3>2
  <2>2. CASE HttpClosed(t)
    <3>1. pc[t] = "closing" /\ http' = 0
      BY <2>2 DEF HttpClosed
    <3>2. \A v \in Threads : task[v] = "none"
      BY <1>3, <3>1 DEF Affinity, InClose
    <3> QED
      BY <3>1, <3>2
  <2>3. CASE CloseRaised(t)
    <3>1. \A u \in Threads : pc'[u] = "idle"
      BY <1>2, <2>3 DEF CloseRaised, Goto
    <3> QED
      BY <3>1 DEF InClose
  <2> QED
    BY <2>1, <2>2, <2>3
<1> QED
  BY <1>4, <1>5, <1>6, <1>7

\* The stop of the portal, and an interrupt while its thread is joined.
LEMMA ExitIInv ==
  ASSUME IInv, NEW t \in Threads, Exit(t) \/ Joined(t) \/ JoinInterrupted(t)
  PROVE  IInv'
<1> USE DEF IInv, TypeOK
<1>1. /\ pc[t] \in {"exiting", "joining"} /\ Alone(t) /\ portal # 0
      /\ pc[t] = "joining" => portal \in stopped
  BY DEF Exit, Joined, JoinInterrupted, CloseAlone, InClose
<1>2. UNCHANGED <<made, running, http, task, loop, streams, used, clean>>
  BY DEF Exit, Joined, JoinInterrupted, portals, calls
<1>3. clean => http = 0 /\ \A u \in Threads : task[u] = "none"
  BY <1>1 DEF Affinity, InClose
<1>4. \A u \in Threads \ {t} : pc[u] = "idle"
  BY <1>1 DEF Alone
<1>5. CASE Exit(t)
  <2>1. /\ UNCHANGED <<portal, torn>> /\ stopped' = stopped \cup {portal}
        /\ pc' = [pc EXCEPT ![t] = "joining"]
    BY <1>5 DEF Exit, Goto
  <2>2. TypeOK' /\ OnePortal' /\ OnLoop'
    BY <1>1, <1>2, <2>1 DEF OnePortal, OnLoop
  <2>3. CloseAlone' /\ Held'
    BY <1>1, <1>4, <2>1 DEF CloseAlone, Held, Alone, InClose
  <2>4. Affinity'
    BY <1>2, <1>3, <2>1 DEF Affinity
  <2> QED
    BY <2>2, <2>3, <2>4
<1>6. CASE Joined(t)
  <2>1. /\ UNCHANGED <<stopped, torn>> /\ portal' = 0 /\ portal \notin running
        /\ pc' = [pc EXCEPT ![t] = "idle"]
    BY <1>6 DEF Joined, Goto
  <2>2. running = {} /\ \A u \in Threads : pc'[u] = "idle"
    BY <1>4, <2>1 DEF OnePortal
  <2>3. TypeOK'
    BY <1>2, <2>1
  <2>4. OnePortal' /\ OnLoop' /\ CloseAlone' /\ Held'
    BY <1>2, <2>1, <2>2 DEF OnePortal, OnLoop, CloseAlone, Held, InClose
  <2>5. Affinity'
    BY <1>2, <1>3, <2>1, <2>2 DEF Affinity, InClose
  <2> QED
    BY <2>3, <2>4, <2>5
<1>7. CASE JoinInterrupted(t)
  <2>1. /\ UNCHANGED <<portal, stopped>> /\ torn'
        /\ pc' = [pc EXCEPT ![t] = "idle"] /\ torn' \in BOOLEAN
    BY <1>7 DEF JoinInterrupted, Goto, portals
  <2>2. \A u \in Threads : pc'[u] = "idle"
    BY <1>4, <2>1
  <2>3. TypeOK' /\ OnePortal' /\ OnLoop'
    BY <1>2, <2>1 DEF OnePortal, OnLoop
  <2>4. CloseAlone' /\ Held'
    BY <1>2, <2>1, <2>2 DEF CloseAlone, Held, InClose
  <2>5. Affinity'
    BY <1>2, <2>1, <2>2 DEF Affinity, InClose
  <2> QED
    BY <2>3, <2>4, <2>5
<1> QED
  BY <1>5, <1>6, <1>7

\* The end of a loop that was told to stop and has no coroutine left.
LEMMA LoopEndsIInv ==
  ASSUME IInv, LoopEnds
  PROVE  IInv'
<1>1. PICK p \in running \cap stopped :
        /\ \A t \in Threads : loop[t] # p
        /\ running' = running \ {p}
  BY DEF LoopEnds
<1>2. UNCHANGED <<portal, made, stopped, http, pc, task, loop, streams, used, clean, torn>>
  BY DEF LoopEnds, calls
<1> QED
  BY <1>1, <1>2
     DEF IInv, TypeOK, OnePortal, CloseAlone, Held, OnLoop, Affinity, Alone

\* Every step keeps the invariant.
LEMMA NextIInv ==
  ASSUME IInv, [Next]_vars
  PROVE  IInv'
<1>1. CASE UNCHANGED vars
  BY <1>1 DEF vars, portals, calls, IInv, TypeOK, OnePortal, CloseAlone, Held, OnLoop,
              Affinity, Alone
<1> QED
  BY <1>1, EnterIInv, RunIInv, CallIInv, CloseIInv, ExitIInv, LoopEndsIInv DEF Next

\* The invariant holds in every state.
THEOREM Invariance == Spec => []IInv
<1>1. Init => IInv
  BY InitIInv
<1>2. IInv /\ [Next]_vars => IInv'
  BY NextIInv
<1> QED
  BY <1>1, <1>2, PTL DEF Spec

\* The variables of the facade keep their types.
THEOREM TypeCorrect == Spec => []TypeOK
<1>1. IInv => TypeOK
  BY DEF IInv
<1> QED
  BY <1>1, Invariance, PTL

\* No event loop leaks.
THEOREM OnePortalCorrect == Spec => []OnePortal
<1>1. IInv => OnePortal
  BY DEF IInv
<1> QED
  BY <1>1, Invariance, PTL

\* Unless a close() was interrupted while it joined the thread, the portal the
\* facade holds takes calls.
THEOREM HeldCorrect == Spec => []HeldPortalRuns
<1>1. IInv => HeldPortalRuns
  BY DEF IInv, Held, HeldPortalRuns, Closing
<1> QED
  BY <1>1, Invariance, PTL

\* An httpx client is used on its own loop.
THEOREM AffinityCorrect == Spec => []LoopAffinity
<1>1. IInv => LoopAffinity
  BY DEF IInv, Affinity, LoopAffinity
<1> QED
  BY <1>1, Invariance, PTL
=============================================================================
