------------------------- MODULE TokenManagerProofs -------------------------
(***************************************************************************)
(* The safety properties of TokenManager, for any tasks, credentials,      *)
(* lifetimes, buffer and bound of the clock.                               *)
(*                                                                         *)
(* FetchOnlyOverStale is not inductive alone: that an answer leaves no     *)
(* other fetch in flight needs the lock discipline, and the discipline     *)
(* needs the types.                                                        *)
(***************************************************************************)
EXTENDS TokenManager, AnyioLockProofs

IInv == TypeOK /\ LockDiscipline /\ ExpiryMatchesToken /\ FetchOnlyOverStale

\* What the server can answer with is a token.
LEMMA MintedType ==
  ASSUME TypeOK, NEW src \in Sources
  PROVE  Minted(src) \subseteq [src : {src}, exp : Nat]
BY TimeAssumption DEF TypeOK, Minted

\* The initial states are well typed.
LEMMA InitType == Init => TypeOK
BY CredentialAssumption, TimeAssumption, FreeLock
   DEF Init, TypeOK, Tokens, Sources, Places, NoToken, ReadExp, LoginCalls

\* Every step keeps the types.
LEMMA NextType ==
  ASSUME TypeOK, LockDiscipline, [Next]_vars
  PROVE  TypeOK'
<1> USE DEF TypeOK
<1>1. ASSUME NEW t \in Tasks, GetToken(t)
      PROVE  TypeOK'
  <2>1. Disciplined(lock, Engaged) /\ Engaged \in SUBSET Tasks
    BY DEF LockDiscipline, Engaged
  <2>2. pc[t] = "idle" => t \in Tasks \ Engaged
    BY DEF Engaged
  <2>3. pc[t] = "idle" => Acquire(lock, t) \in LockType(Tasks)
    BY <2>1, <2>2, AcquireLock, TaskAssumption
  <2> QED
    BY <1>1, <2>3
       DEF GetToken, GetFast, GetStatic, GetWithoutCredentials, GetSlow, Goto, Return,
           config, session, Places
<1>2. ASSUME NEW t \in Tasks, Recheck(t) \/ FetchToken(t) \/ LockCancelled(t)
      PROVE  TypeOK'
  <2>1. Disciplined(lock, Engaged) /\ Engaged \in SUBSET Tasks
    BY DEF LockDiscipline, Engaged
  <2>2. t \in Engaged
    BY <1>2 DEF Engaged, Recheck, RecheckFresh, RecheckStale, FetchToken, FetchAnswered,
                FetchFailed, LockCancelled
  <2>3. lock.owner = t => Release(lock) \in LockType(Tasks)
    BY <2>1, <2>2, ReleaseLock, TaskAssumption
  <2>4. Abandon(lock, t) \in LockType(Tasks)
    BY <2>1, <2>2, AbandonLock, TaskAssumption
  <2>5. CASE Recheck(t)
    BY <2>3, <2>5 DEF Recheck, RecheckFresh, RecheckStale, Goto, Return, config, session, Places
  <2>6. CASE FetchAnswered(t)
    <3>1. token' \in Tokens /\ ReadExp(token') \in Nat
      BY <2>6, MintedType DEF FetchAnswered, Tokens, Sources, ReadExp
    <3>2. lock' \in LockType(Tasks)
      BY <2>3, <2>6 DEF FetchAnswered, LockDiscipline
    <3> QED
      BY <2>6, <3>1, <3>2 DEF FetchAnswered, Goto, Return, config, Places, Sources
  <2>7. CASE FetchFailed(t)
    BY <2>3, <2>7 DEF FetchFailed, Goto, config, session, Places, LockDiscipline
  <2>8. CASE LockCancelled(t)
    BY <2>4, <2>8 DEF LockCancelled, Goto, config, session, Places
  <2> QED
    BY <1>2, <2>5, <2>6, <2>7, <2>8 DEF FetchToken
<1>3. ASSUME NEW t \in Tasks, CallerProceeds(t)
      PROVE  TypeOK'
  BY <1>3 DEF CallerProceeds, Goto, config, session, Places, Tokens, Sources, NoToken
<1>4. ASSUME NEW t \in Tasks, Login(t)
      PROVE  TypeOK'
  <2>1. ASSUME NEW call \in Logins[t], LoginPost(t, call)
        PROVE  TypeOK'
    BY <2>1, LoginAssumption DEF LoginPost, Goto, config, session, Places
  <2>2. ASSUME NEW call \in LoginCalls, NEW r \in Sources, StoreLogin(t, call, r)
        PROVE  TypeOK'
    <3>0. Minted(call) \subseteq [src : {call}, exp : Nat]
      BY MintedType DEF Sources
    <3>1. token' \in Tokens /\ ReadExp(token') \in Nat
      BY <2>2, <3>0 DEF StoreLogin, Tokens, Sources, ReadExp
    <3> QED
      BY <2>2, <3>1 DEF StoreLogin, Goto, config, Places
  <2>3. CASE LoginFailed(t)
    BY <2>3 DEF LoginFailed, Goto, config, session, Places
  <2> QED
    BY <1>4, <2>1, <2>2, <2>3
       DEF Login, AuthenticateSiwe, Register, RegisterInvite, Refresh, BootstrapX402,
           LoginCalls, Sources
<1>5. CASE Tick
  BY <1>5 DEF Tick, session
<1>6. CASE UNCHANGED vars
  BY <1>6 DEF vars
<1> QED
  BY <1>1, <1>2, <1>3, <1>4, <1>5, <1>6 DEF Next

\* Every step keeps the lock discipline: the engaged tasks change by the task
\* that takes, releases or abandons the lock.
LEMMA NextLock ==
  ASSUME TypeOK, LockDiscipline, [Next]_vars
  PROVE  LockDiscipline'
<1> USE DEF TypeOK
<1>1. /\ Disciplined(lock, Engaged) /\ Engaged \in SUBSET Tasks
      /\ \A t \in Tasks : pc[t] = "fetching" => lock.owner = t
  BY DEF LockDiscipline, Engaged
<1>2. ASSUME UNCHANGED lock, NEW t \in Tasks,
             \A u \in Tasks \ {t} : pc'[u] = pc[u],
             (pc'[t] \in {"locking", "fetching"}) <=> (pc[t] \in {"locking", "fetching"}),
             pc'[t] = "fetching" => lock.owner = t
      PROVE  LockDiscipline'
  <2>1. Engaged' = Engaged
    BY <1>2 DEF Engaged
  <2> QED
    BY <1>1, <1>2, <2>1 DEF LockDiscipline
<1>3. ASSUME NEW t \in Tasks, GetSlow(t)
      PROVE  LockDiscipline'
  <2>1. t \in Tasks \ Engaged /\ Engaged' = Engaged \cup {t}
    BY <1>3 DEF GetSlow, Goto, Engaged, Places
  <2>2. /\ Disciplined(Acquire(lock, t), Engaged \cup {t})
        /\ lock.owner # Nobody => Acquire(lock, t).owner = lock.owner
    BY <1>1, <2>1, AcquireLock, TaskAssumption
  <2>3. \A u \in Tasks : pc'[u] = "fetching" => lock'.owner = u
    BY <1>1, <1>3, <2>2, TaskAssumption DEF GetSlow, Goto
  <2> QED
    BY <1>3, <2>1, <2>2, <2>3 DEF LockDiscipline, GetSlow
<1>4. ASSUME NEW t \in Tasks, t \in Engaged, lock.owner = t, lock' = Release(lock),
             NEW p \in {"returned", "raised"}, Goto(t, p)
      PROVE  LockDiscipline'
  <2>1. Engaged' = Engaged \ {t}
    BY <1>4 DEF Goto, Engaged
  <2>2. Disciplined(Release(lock), Engaged \ {t})
    BY <1>1, <1>4, ReleaseLock, TaskAssumption
  <2>3. \A u \in Tasks : pc'[u] = "fetching" => lock'.owner = u
    BY <1>1, <1>4 DEF Goto
  <2> QED
    BY <1>4, <2>1, <2>2, <2>3 DEF LockDiscipline
<1>5. ASSUME NEW t \in Tasks, LockCancelled(t)
      PROVE  LockDiscipline'
  <2>1. t \in Engaged /\ Engaged' = Engaged \ {t}
    BY <1>5 DEF LockCancelled, Goto, Engaged
  <2>2. /\ Disciplined(Abandon(lock, t), Engaged \ {t})
        /\ lock.owner # t => Abandon(lock, t).owner = lock.owner
    BY <1>1, <2>1, AbandonLock, TaskAssumption
  <2>3. \A u \in Tasks : pc'[u] = "fetching" => lock'.owner = u
    BY <1>1, <1>5, <2>2 DEF LockCancelled, Goto
  <2> QED
    BY <1>5, <2>1, <2>2, <2>3 DEF LockDiscipline, LockCancelled
<1>6. ASSUME NEW t \in Tasks, GetToken(t)
      PROVE  LockDiscipline'
  BY <1>2, <1>3, <1>6
     DEF GetToken, GetFast, GetStatic, GetWithoutCredentials, Goto, Return
<1>7. ASSUME NEW t \in Tasks, Recheck(t)
      PROVE  LockDiscipline'
  <2>1. t \in Engaged
    BY <1>7 DEF Recheck, RecheckFresh, RecheckStale, Engaged
  <2> QED
    BY <1>2, <1>4, <1>7, <2>1 DEF Recheck, RecheckFresh, RecheckStale, Goto, Return
<1>8. ASSUME NEW t \in Tasks, FetchToken(t)
      PROVE  LockDiscipline'
  <2>1. t \in Engaged /\ lock.owner = t
    BY <1>1, <1>8 DEF FetchToken, FetchAnswered, FetchFailed, Engaged
  <2> QED
    BY <1>4, <1>8, <2>1 DEF FetchToken, FetchAnswered, FetchFailed, Return
<1>9. ASSUME NEW t \in Tasks, CallerProceeds(t)
      PROVE  LockDiscipline'
  BY <1>2, <1>9 DEF CallerProceeds, Goto
<1>10. ASSUME NEW t \in Tasks, Login(t)
       PROVE  LockDiscipline'
  <2>1. /\ UNCHANGED lock
        /\ \E p \in LoginCalls \cup {"idle"} : Goto(t, p)
        /\ pc[t] \in LoginCalls \cup {"idle"}
    BY <1>10, LoginAssumption
       DEF Login, LoginPost, StoreLogin, LoginFailed, AuthenticateSiwe, Register,
           RegisterInvite, Refresh, BootstrapX402, LoginCalls
  <2> QED
    BY <1>2, <2>1 DEF Goto, LoginCalls
<1>11. CASE Tick \/ UNCHANGED vars
  <2>1. UNCHANGED <<lock, pc>>
    BY <1>11 DEF Tick, vars
  <2> QED
    BY <1>1, <2>1 DEF LockDiscipline, Engaged
<1> QED
  BY <1>5, <1>6, <1>7, <1>8, <1>9, <1>10, <1>11 DEF Next

\* The expiry and the token are always written together.
LEMMA NextExpiry ==
  ASSUME ExpiryMatchesToken, [Next]_vars
  PROVE  ExpiryMatchesToken'
BY DEF ExpiryMatchesToken, Next, vars, config, session, GetToken, GetFast, GetStatic,
       GetWithoutCredentials, GetSlow, Recheck, RecheckFresh, RecheckStale, FetchToken,
       FetchAnswered, FetchFailed, LockCancelled, CallerProceeds, Login, LoginPost,
       AuthenticateSiwe, Register, RegisterInvite, Refresh, BootstrapX402, StoreLogin,
       LoginFailed, Tick, Return, ReadExp

\* A fetch starts over a stale token, time only ages the token, and an answer
\* that freshens it ends the only fetch there is.
LEMMA NextFetch ==
  ASSUME IInv, [Next]_vars
  PROVE  FetchOnlyOverStale'
<1> USE DEF IInv, TypeOK
<1>1. ASSUME NEW t \in Tasks, UNCHANGED <<now, session>>,
             \A u \in Tasks \ {t} : pc'[u] = pc[u],
             pc'[t] = "fetching" => ~Fresh
      PROVE  FetchOnlyOverStale'
  BY <1>1 DEF FetchOnlyOverStale, Fresh, session
<1>2. ASSUME NEW t \in Tasks, FetchAnswered(t)
      PROVE  FetchOnlyOverStale'
  <2>1. \A u \in Tasks : pc'[u] # "fetching"
    BY <1>2 DEF FetchAnswered, Return, Goto, LockDiscipline
  <2> QED
    BY <2>1 DEF FetchOnlyOverStale
<1>3. ASSUME NEW t \in Tasks, NEW call \in LoginCalls, NEW r, StoreLogin(t, call, r)
      PROVE  FetchOnlyOverStale'
  <2>1. Minted(call) \subseteq [src : {call}, exp : Nat]
    BY MintedType DEF Sources
  <2> QED
    BY <1>3, <2>1 DEF StoreLogin, FetchOnlyOverStale
<1>4. CASE Tick
  <2>1. Fresh' => Fresh
    BY <1>4, TimeAssumption DEF Tick, Fresh, session
  <2> QED
    BY <1>4, <2>1 DEF Tick, FetchOnlyOverStale, session
<1>5. CASE UNCHANGED vars
  BY <1>5 DEF vars, FetchOnlyOverStale, Fresh
<1>6. ASSUME NEW t \in Tasks,
             GetToken(t) \/ Recheck(t) \/ FetchFailed(t) \/ LockCancelled(t) \/ CallerProceeds(t)
      PROVE  FetchOnlyOverStale'
  BY <1>1, <1>6
     DEF GetToken, GetFast, GetStatic, GetWithoutCredentials, GetSlow, Recheck, RecheckFresh,
         RecheckStale, FetchFailed, LockCancelled, CallerProceeds, Return, Goto, config
<1>7. ASSUME NEW t \in Tasks, Login(t)
      PROVE  FetchOnlyOverStale'
  <2>1. ASSUME LoginFailed(t) \/ \E call \in Logins[t] : LoginPost(t, call)
        PROVE  FetchOnlyOverStale'
    BY <1>1, <2>1, LoginAssumption DEF LoginFailed, LoginPost, LoginCalls, Goto, config
  <2> QED
    BY <1>3, <1>7, <2>1
       DEF Login, AuthenticateSiwe, Register, RegisterInvite, Refresh, BootstrapX402, LoginCalls
<1> QED
  BY <1>2, <1>4, <1>5, <1>6, <1>7 DEF Next, FetchToken

\* The inductive invariant of the specification.
THEOREM Invariance == Spec => []IInv
<1>1. Init => IInv
  <2>1. Init => Engaged = {}
    BY DEF Init, Engaged
  <2> QED
    BY <2>1, InitType, FreeLock
       DEF Init, IInv, LockDiscipline, ExpiryMatchesToken, FetchOnlyOverStale
<1>2. IInv /\ [Next]_vars => IInv'
  BY NextType, NextLock, NextExpiry, NextFetch DEF IInv
<1> QED
  BY <1>1, <1>2, PTL DEF Spec

\* The variables of the manager keep their types.
THEOREM TypeCorrect == Spec => []TypeOK
BY Invariance, PTL DEF IInv

\* The expiry the manager judges by is that of its token.
THEOREM ExpiryCorrect == Spec => []ExpiryMatchesToken
BY Invariance, PTL DEF IInv

\* The lock is passed on and never lost, and its owner alone posts.
THEOREM LockCorrect == Spec => []LockDiscipline
BY Invariance, PTL DEF IInv

\* At most one POST /token for get_token is in flight.
THEOREM SingleFlightCorrect == Spec => []SingleFlight
<1>1. IInv => SingleFlight
  BY DEF IInv, LockDiscipline, SingleFlight
<1> QED
  BY <1>1, Invariance, PTL

\* No fetch is in flight beside a usable token, a login's excepted.
THEOREM FetchCorrect == Spec => []FetchOnlyOverStale
BY Invariance, PTL DEF IInv

\* The refresh token came with the token of the cell, or a credential fetch
\* replaced that token.
THEOREM RefreshTokenCorrect == Spec => []RefreshTokenProvenance
<1>1. Init => RefreshTokenProvenance
  BY DEF Init, RefreshTokenProvenance
<1>2. ASSUME RefreshTokenProvenance, [Next]_vars
      PROVE  RefreshTokenProvenance'
  <2>1. ASSUME UNCHANGED <<token, refreshToken>>
        PROVE  RefreshTokenProvenance'
    BY <1>2, <2>1 DEF RefreshTokenProvenance
  <2>2. ASSUME NEW t \in Tasks, FetchAnswered(t)
        PROVE  RefreshTokenProvenance'
    BY <2>2 DEF FetchAnswered, Minted, RefreshTokenProvenance
  <2>3. ASSUME NEW t \in Tasks, NEW call, NEW r \in {call, "none"}, StoreLogin(t, call, r)
        PROVE  RefreshTokenProvenance'
    BY <2>3 DEF StoreLogin, Minted, RefreshTokenProvenance
  <2>4. ASSUME NEW t \in Tasks,
               AuthenticateSiwe(t) \/ Register(t) \/ RegisterInvite(t) \/ Refresh(t)
                 \/ BootstrapX402(t)
        PROVE  RefreshTokenProvenance'
    BY <2>3, <2>4 DEF AuthenticateSiwe, Register, RegisterInvite, Refresh, BootstrapX402
  <2>5. ASSUME NEW t \in Tasks,
               \/ GetToken(t) \/ Recheck(t) \/ FetchFailed(t) \/ LockCancelled(t)
               \/ CallerProceeds(t) \/ LoginFailed(t) \/ \E call \in Logins[t] : LoginPost(t, call)
        PROVE  RefreshTokenProvenance'
    BY <2>1, <2>5
       DEF GetToken, GetFast, GetStatic, GetWithoutCredentials, GetSlow, Recheck, RecheckFresh,
           RecheckStale, FetchFailed, LockCancelled, CallerProceeds, LoginPost, LoginFailed,
           Goto, Return, config, session
  <2>6. CASE Tick \/ UNCHANGED vars
    BY <2>1, <2>6 DEF Tick, vars, session
  <2> QED
    BY <1>2, <2>2, <2>4, <2>5, <2>6 DEF Next, FetchToken, Login
<1> QED
  BY <1>1, <1>2, PTL DEF Spec

\* get_token of a client with credentials returns no stale token of the cell.
THEOREM ReturnCorrect == Spec => ReturnedTokenFresh
<1> DEFINE Step == \A t \in Tasks :
       pc[t] # "returned" /\ pc'[t] = "returned" /\ CanRefresh =>
         \/ now < got'[t].exp - Buffer
         \/ pc[t] = "fetching" /\ got'[t].src = "credentials"
<1>1. ASSUME IInv, [Next]_vars
      PROVE  Step
  <2> SUFFICES ASSUME NEW t \in Tasks, pc[t] # "returned", pc'[t] = "returned", CanRefresh
               PROVE  \/ now < got'[t].exp - Buffer
                      \/ pc[t] = "fetching" /\ got'[t].src = "credentials"
    OBVIOUS
  <2> USE <1>1 DEF IInv, TypeOK
  <2>1. \/ GetFast(t) \/ RecheckFresh(t) \/ FetchAnswered(t)
    BY LoginAssumption
       DEF Next, vars, Tick, GetToken, GetFast, GetStatic, GetWithoutCredentials, GetSlow,
           Recheck, RecheckFresh, RecheckStale, FetchToken, FetchAnswered, FetchFailed,
           LockCancelled, CallerProceeds, Login, LoginPost, AuthenticateSiwe, Register,
           RegisterInvite, Refresh, BootstrapX402, StoreLogin, LoginFailed, LoginCalls,
           Return, Goto
  <2>2. CASE GetFast(t) \/ RecheckFresh(t)
    BY <2>2 DEF GetFast, RecheckFresh, Return, Fresh, ExpiryMatchesToken, ReadExp, session
  <2>3. CASE FetchAnswered(t)
    <3>1. Minted("credentials") \subseteq [src : {"credentials"}, exp : Nat]
      BY MintedType DEF Sources
    <3> QED
      BY <2>3, <3>1 DEF FetchAnswered, Return
  <2> QED
    BY <2>1, <2>2, <2>3
<1> QED
  BY <1>1, Invariance, PTL DEF Spec, ReturnedTokenFresh
=============================================================================
