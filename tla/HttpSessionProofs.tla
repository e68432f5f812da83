------------------------- MODULE HttpSessionProofs -------------------------
(***************************************************************************)
(* The safety properties of HttpSession, for any tasks, statuses and       *)
(* number of clients.                                                      *)
(*                                                                         *)
(* ClosedOnlyByClose says why a call failed after the fact; what makes it  *)
(* true is that as long as nobody calls close(), the client a waiting call *)
(* looked up is open.  That is the part the inductive invariant adds.      *)
(***************************************************************************)
EXTENDS HttpSession, TLAPS

HeldIsOpen == \A t \in Tasks : pc[t] = "token" => held[t] \in open \/ overlapped[t]

IInv == TypeOK /\ OneOpenClient /\ HeldIsOpen /\ ClosedOnlyByClose

\* In the initial states no client is open and no call has ended.
LEMMA InitIInv == Init => IInv
BY StatusAssumption
   DEF Init, IInv, TypeOK, OneOpenClient, HeldIsOpen, ClosedOnlyByClose, Result, Results, Errors

\* What a call that ends does: the session is untouched, and only its own
\* outcome and place change.
LEMMA FinishIInv ==
  ASSUME IInv, NEW t \in Tasks, NEW result \in Results, Finish(t, result),
         result.from = "closed" => overlapped[t]
  PROVE  IInv'
<1>1. /\ http' = http /\ open' = open /\ held' = held /\ overlapped' = overlapped
      /\ pc' \in [Tasks -> {"idle", "queued", "token", "sent"}]
      /\ pc'[t] = "idle"
      /\ \A u \in Tasks \ {t} : pc'[u] = pc[u]
  BY DEF IInv, TypeOK, Finish, Goto, session
<1>2. outcome' = [outcome EXCEPT ![t] = result]
  BY DEF Finish
<1>3. /\ outcome' \in [Tasks -> Results]
      /\ \A u \in Tasks : outcome'[u].from = "closed" => overlapped[u]
  BY <1>2 DEF IInv, TypeOK, ClosedOnlyByClose
<1>4. TypeOK' /\ OneOpenClient' /\ ClosedOnlyByClose'
  BY <1>1, <1>3 DEF IInv, TypeOK, OneOpenClient, ClosedOnlyByClose
<1>5. HeldIsOpen'
  BY <1>1 DEF IInv, HeldIsOpen
<1> QED
  BY <1>4, <1>5 DEF IInv

\* The lookup opens a client only if none is open.
LEMMA GetHttpSession ==
  ASSUME IInv, GetHttp
  PROVE  /\ http' \in 0..MaxClients /\ open' \subseteq 1..http'
         /\ open' = {http'} /\ open \subseteq open'
<1>0. /\ http \in 0..MaxClients /\ open \subseteq 1..http /\ open \subseteq {http}
      /\ http' <= MaxClients /\ open' = open \cup {http'} /\ MaxClients \in Nat
  BY StatusAssumption DEF IInv, TypeOK, OneOpenClient, GetHttp
<1>1. CASE http \in open
  <2>1. http' = http /\ open' = {http} /\ http \in 1..http
    BY <1>0, <1>1 DEF GetHttp
  <2> QED
    BY <1>0, <2>1
<1>2. CASE http \notin open
  <2>1. http' = http + 1 /\ open = {} /\ open' = {http'}
    BY <1>0, <1>2 DEF GetHttp
  <2> QED
    BY <1>0, <2>1
<1> QED
  BY <1>1, <1>2

\* Every step keeps the invariant.
LEMMA NextIInv ==
  ASSUME IInv, [Next]_vars
  PROVE  IInv'
<1>1. ASSUME NEW t \in Tasks, Queue(t)
      PROVE  IInv'
  BY <1>1 DEF Queue, Goto, session, IInv, TypeOK, OneOpenClient, HeldIsOpen, ClosedOnlyByClose
<1>2. ASSUME NEW t \in Tasks, Begin(t)
      PROVE  IInv'
  <2>1. /\ http' \in 0..MaxClients /\ open' \subseteq 1..http'
        /\ open' = {http'} /\ open \subseteq open'
    BY <1>2, GetHttpSession DEF Begin
  <2>2. PICK place \in {"token", "sent"} : pc' = [pc EXCEPT ![t] = place]
    BY <1>2 DEF Begin, Goto
  <2>3. /\ held' = [held EXCEPT ![t] = http']
        /\ overlapped' = [overlapped EXCEPT ![t] = FALSE]
        /\ outcome' = [outcome EXCEPT ![t] = Result]
    BY <1>2 DEF Begin
  <2>4. /\ outcome' \in [Tasks -> Results]
        /\ \A u \in Tasks : outcome'[u].from = "closed" => overlapped'[u]
    BY <2>3 DEF IInv, TypeOK, ClosedOnlyByClose, Result, Results, Errors
  <2>5. TypeOK'
    BY <2>1, <2>2, <2>3, <2>4 DEF IInv, TypeOK
  <2>6. HeldIsOpen'
    BY <2>1, <2>2, <2>3 DEF IInv, TypeOK, HeldIsOpen
  <2> QED
    BY <2>1, <2>4, <2>5, <2>6 DEF IInv, OneOpenClient, ClosedOnlyByClose
<1>3. ASSUME NEW t \in Tasks, TokenReady(t)
      PROVE  IInv'
  <2>1. CASE held[t] \in open
    BY <1>3, <2>1
       DEF TokenReady, Goto, session, IInv, TypeOK, OneOpenClient, HeldIsOpen, ClosedOnlyByClose
  <2>2. CASE held[t] \notin open
    <3>1. overlapped[t]
      BY <1>3, <2>2 DEF TokenReady, IInv, HeldIsOpen
    <3> QED
      BY <1>3, <2>2, <3>1, FinishIInv DEF TokenReady, Raised, Results, Errors
  <2> QED
    BY <2>1, <2>2
<1>4. ASSUME NEW t \in Tasks, TokenRefused(t) \/ Malformed(t) \/ Cancelled(t)
      PROVE  IInv'
  BY <1>4, FinishIInv DEF TokenRefused, Malformed, Cancelled, Raised, Results, Errors, TeardropErrors
<1>5. ASSUME NEW t \in Tasks, Answered(t)
      PROVE  IInv'
  <2>1. PICK status \in Statuses, retryAfter \in RetryAfter :
          \/ Finish(t, Result)
          \/ Finish(t, Raised(ErrorOf(status, retryAfter), "answer", status))
    BY <1>5 DEF Answered
  <2>2. CASE Finish(t, Result)
    BY <2>2, FinishIInv DEF Result, Results, Errors
  <2>3. ErrorOf(status, retryAfter) \in Errors
    BY DEF ErrorOf, Errors, TeardropErrors
  <2>4. CASE Finish(t, Raised(ErrorOf(status, retryAfter), "answer", status))
    BY <2>3, <2>4, FinishIInv DEF Raised, Results
  <2> QED
    BY <2>1, <2>2, <2>4
<1>6. ASSUME NEW t \in Tasks, Broken(t)
      PROVE  IInv'
  <2>1. PICK e \in TransportErrors : Finish(t, Raised(Translated(e), "transport", 0))
    BY <1>6 DEF Broken
  <2>2. Translated(e) \in Errors
    BY DEF Translated, Errors, TransportErrors, TeardropErrors
  <2> QED
    BY <2>1, <2>2, FinishIInv DEF Raised, Results
<1>7. ASSUME NEW t \in Tasks, Close(t)
      PROVE  IInv'
  <2>1. /\ http' = http /\ open' = open \ {http} /\ pc' = pc /\ held' = held
        /\ outcome' = outcome
        /\ overlapped' = [u \in Tasks |-> overlapped[u] \/ held[u] = http]
    BY <1>7 DEF Close
  <2>2. \A u \in Tasks : overlapped'[u] \in BOOLEAN /\ (overlapped[u] => overlapped'[u])
    BY <2>1
  <2>3. \A u \in Tasks : held[u] \in open => held[u] \in open' \/ overlapped'[u]
    BY <2>1
  <2> QED
    BY <2>1, <2>2, <2>3 DEF IInv, TypeOK, OneOpenClient, HeldIsOpen, ClosedOnlyByClose
<1>8. CASE UNCHANGED vars
  BY <1>8 DEF vars, IInv, TypeOK, OneOpenClient, HeldIsOpen, ClosedOnlyByClose
<1> QED
  BY <1>1, <1>2, <1>3, <1>4, <1>5, <1>6, <1>7, <1>8 DEF Next, Call

\* The invariant holds in every state.
THEOREM Invariance == Spec => []IInv
<1>1. Init => IInv
  BY InitIInv
<1>2. IInv /\ [Next]_vars => IInv'
  BY NextIInv
<1> QED
  BY <1>1, <1>2, PTL DEF Spec

\* The fields of the session keep their types.
THEOREM TypeCorrect == Spec => []TypeOK
<1>1. IInv => TypeOK
  BY DEF IInv
<1> QED
  BY <1>1, Invariance, PTL

\* close() never leaves a client of an earlier call open: there is only one.
THEOREM OneClientCorrect == Spec => []OneOpenClient
<1>1. IInv => OneOpenClient
  BY DEF IInv
<1> QED
  BY <1>1, Invariance, PTL

\* A call fails on a closed client only if a close() overlapped it.
THEOREM ClosedCorrect == Spec => []ClosedOnlyByClose
<1>1. IInv => ClosedOnlyByClose
  BY DEF IInv
<1> QED
  BY <1>1, Invariance, PTL
=============================================================================
