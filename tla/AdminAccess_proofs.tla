-------------------------- MODULE AdminAccess_proofs ------------------------
(* Proofs about AdminAccess, for any accounts, requests, states, sessions, *)
(* keys and lifetimes.                                                     *)
EXTENDS AdminAccess, TLAPS

\* Requests know whom they are about; a callback past the seat has the holder.
Known ==
    \A r \in Requests :
       /\ at[r] = "register" => user[r] \in Users
       /\ at[r] = "session" => admin # None

\* A state that was never handed out has let nobody through.
Unspent == \A t \in States : state[t] = "unused" => exchanges[t] = 0

\* A session's row belongs to an id that was handed out.
Issued == \A i \in Sessions : session[i] # None => i \in issued

Inv == TypeOK /\ OneSeat /\ Known /\ StateOnce /\ Unspent /\ Issued

\* The tables and the requests start with the invariant.
LEMMA Initially == Init => Inv
  BY AccessAssumption
  DEF Init, Inv, TypeOK, OneSeat, Known, StateOnce, Unspent, Issued

\* The time that is left only runs down, to zero.
LEMMA Ageing == \A left \in Nat : Down(left) \in Nat /\ Down(left) <= left
  BY DEF Down

\* Each request, sign-in and tick keeps the invariant.
LEMMA Step == ASSUME Inv, [Next]_vars PROVE Inv'
<1> USE AccessAssumption DEF Inv, TypeOK, OneSeat, Known, StateOnce, Unspent, Issued,
        stateVars, sessionVars, requestVars
<1>1. CASE Tick
  BY <1>1, Ageing DEF Tick, Down
<1>2. ASSUME NEW r \in Requests,
             \/ EnterLogin(r) \/ PurgeSessions(r) \/ PurgeStates(r)
             \/ \E t \in States : Login(r, t)
      PROVE Inv'
  BY <1>2 DEF EnterLogin, PurgeSessions, PurgeStates, PurgedSessions, PurgedStates, Login
<1>3. ASSUME NEW i \in Sessions, Logout(i) PROVE Inv'
  BY <1>3 DEF Logout
<1>4. ASSUME NEW r \in Requests, NEW t \in States, Callback(r, t) PROVE Inv'
  BY <1>4 DEF Callback, Consumed
<1>5. ASSUME NEW r \in Requests, NEW u \in Users, Exchange(r, u) PROVE Inv'
  BY <1>5 DEF Exchange
<1>6. ASSUME NEW r \in Requests, ExchangeFails(r) PROVE Inv'
  BY <1>6 DEF ExchangeFails
<1>7. ASSUME NEW r \in Requests, Register(r) PROVE Inv'
  BY <1>7 DEF Register, MaySit
<1>8. ASSUME NEW r \in Requests, TouchKey(r) PROVE Inv'
  BY <1>8 DEF TouchKey, Written
<1>9. ASSUME NEW r \in Requests, Restart(r) PROVE Inv'
  BY <1>9 DEF Restart
<1>10. ASSUME NEW r \in Requests, NEW i \in Sessions, OpenSession(r, i) PROVE Inv'
  BY <1>10 DEF OpenSession
<1>11. ASSUME NEW r \in Requests, NEW i \in Sessions, EnterConsole(r, i) PROVE Inv'
  BY <1>11 DEF EnterConsole, LoadsAdmin
<1>12. ASSUME NEW r \in Requests, NEW k \in Keys,
              CreateKey(r, k) \/ RevokeKey(r, k) \/ SelectKey(r, k)
       PROVE Inv'
  BY <1>12 DEF CreateKey, RevokeKey, SelectKey
<1>13. CASE UNCHANGED vars
  BY <1>13 DEF vars
<1>14. QED
  BY <1>1, <1>2, <1>3, <1>4, <1>5, <1>6, <1>7, <1>8, <1>9, <1>10, <1>11, <1>12, <1>13
  DEF Next, Console

\* It holds throughout.
LEMMA InvariantHolds == Spec => []Inv
<1>1. Inv /\ [Next]_vars => Inv'
  BY Step
<1>2. QED
  BY Initially, <1>1, PTL DEF Spec

-----------------------------------------------------------------------------
\* Every variable keeps its type; lifetimes stay between 0 and their start.
THEOREM TypeCorrect == Spec => []TypeOK
<1>1. Inv => TypeOK
  BY DEF Inv
<1>2. QED
  BY InvariantHolds, <1>1, PTL

\* There is one seat, and sessions are its holder's only.
THEOREM SingleSeat == Spec => []OneSeat
<1>1. Inv => OneSeat
  BY DEF Inv
<1>2. QED
  BY InvariantHolds, <1>1, PTL

\* An OAuth state lets one callback through at most.
THEOREM StateSpentOnce == Spec => []StateOnce
<1>1. Inv => StateOnce
  BY DEF Inv
<1>2. QED
  BY InvariantHolds, <1>1, PTL

\* A revoked key stays revoked.
THEOREM RevocationStands == Spec => RevocationFinal
<1>1. Inv /\ [Next]_vars => [\A k \in Keys : key[k] = "revoked" => key'[k] = "revoked"]_vars
  <2> SUFFICES ASSUME Inv, Next, NEW k \in Keys, key[k] = "revoked"
               PROVE key'[k] = "revoked"
    OBVIOUS
  <2>1. CASE UNCHANGED key
    BY <2>1
  <2>2. ASSUME NEW r \in Requests, NEW j \in Keys, CreateKey(r, j) \/ RevokeKey(r, j)
        PROVE key'[k] = "revoked"
    BY <2>2 DEF CreateKey, RevokeKey, Inv, TypeOK
  <2>3. ASSUME NEW r \in Requests, TouchKey(r) PROVE key'[k] = "revoked"
    BY <2>3 DEF TouchKey, Written, Inv, TypeOK
  <2>4. QED
    BY <2>1, <2>2, <2>3
    DEF Next, Console, Tick, EnterLogin, PurgeSessions, PurgeStates, Login, Logout, Callback, Exchange, ExchangeFails, Register,
        Restart, OpenSession, EnterConsole, SelectKey, sessionVars, stateVars, requestVars
<1>2. QED
  BY InvariantHolds, <1>1, PTL DEF Spec, RevocationFinal

\* A session that has not expired ends by its logout.
THEOREM SessionsEndByLogout == Spec => SessionsLast
<1> DEFINE Ended(i) == session[i] # None /\ sessionLeft[i] > 0 /\ session'[i] # session[i]
<1>1. Inv /\ [Next]_vars => [\A i \in Sessions : Ended(i) => Logout(i)]_vars
  <2> SUFFICES ASSUME Inv, Next, NEW i \in Sessions, Ended(i) PROVE Logout(i)
    OBVIOUS
  <2>1. CASE UNCHANGED session
    BY <2>1
  <2>2. ASSUME NEW r \in Requests, PurgeSessions(r) PROVE FALSE
    BY <2>2 DEF PurgeSessions, PurgedSessions, Kept, Stale, Inv, TypeOK
  <2>3. ASSUME NEW r \in Requests, NEW j \in Sessions, OpenSession(r, j) PROVE FALSE
    BY <2>3 DEF OpenSession, Inv, TypeOK, Issued
  <2>4. ASSUME NEW j \in Sessions, Logout(j) PROVE Logout(i)
    BY <2>4 DEF Logout, Inv, TypeOK
  <2>5. QED
    BY <2>1, <2>2, <2>3, <2>4
    DEF Next, Console, Tick, EnterLogin, PurgeStates, Login, Callback, Exchange, ExchangeFails,
        Register, Restart, TouchKey,
        EnterConsole, CreateKey, RevokeKey, SelectKey, sessionVars, stateVars, requestVars
<1>2. QED
  BY InvariantHolds, <1>1, PTL DEF Spec, SessionsLast
=============================================================================
