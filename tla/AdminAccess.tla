----------------------------- MODULE AdminAccess ----------------------------
(***************************************************************************)
(* Authentication: the one administrator's seat, logins through Feishu     *)
(* with one-time states, server-side sessions, API keys, and the gates in  *)
(* front of pages and data (AuthService and its routes).                   *)
(*                                                                         *)
(* Requests of several web processes interleave at every statement on the  *)
(* database that commits by itself and at the wait for Feishu.  Times are  *)
(* relative: what is left until expires_at, 0 when it has come.  A call    *)
(* reads the clock once, here each of its statements does: the ticks are   *)
(* those of lifetimes of minutes and days.                                 *)
(***************************************************************************)
EXTENDS Integers

CONSTANTS
    Users,      \* Feishu accounts (open_id)
    Requests,   \* requests under way at one time
    States,     \* values secrets.token_hex yields
    Sessions,   \* session ids
    Keys,       \* API keys
    StateTTL,   \* ticks of oauth_state_ttl
    SessionTTL, \* ticks of session_ttl
    None

ASSUME AccessAssumption ==
    /\ {StateTTL, SessionTTL} \subseteq Nat \ {0}
    /\ None \notin Users \cup Keys

VARIABLES
    admin,       \* the row of admin_user, None while the table is empty
    state,       \* life of an OAuth state: unused, open, gone
    stateLeft,   \* ticks until it expires
    exchanges,   \* callbacks it has let through
    session,     \* owner of a session's row, None without a row
    sessionLeft, \* ticks until it expires
    issued,      \* session ids ever handed out
    key,         \* life of an API key: unused, active, revoked
    at,          \* where a request is
    purged,      \* how many of the two tables it has purged, before it inserts
    user,        \* the account its callback is about
    found        \* the API key it presented, once selected

stateVars   == <<state, stateLeft, exchanges>>
sessionVars == <<session, sessionLeft, issued>>
requestVars == <<at, purged, user, found>>
vars        == <<admin, stateVars, sessionVars, key, requestVars>>

-----------------------------------------------------------------------------
TypeOK ==
    /\ admin \in Users \cup {None}
    /\ state \in [States -> {"unused", "open", "gone"}]
    /\ stateLeft \in [States -> 0..StateTTL]
    /\ exchanges \in [States -> Nat]
    /\ session \in [Sessions -> Users \cup {None}]
    /\ sessionLeft \in [Sessions -> 0..SessionTTL]
    /\ issued \subseteq Sessions
    /\ key \in [Keys -> {"unused", "active", "revoked"}]
    /\ at \in [Requests -> {"free", "login", "exchange", "register", "session",
                            "console", "verify"}]
    /\ purged \in [Requests -> 0..2]
    /\ user \in [Requests -> Users \cup {None}]
    /\ found \in [Requests -> Keys \cup {None}]

Init ==
    /\ admin = None
    /\ state = [t \in States |-> "unused"]
    /\ stateLeft = [t \in States |-> 0]
    /\ exchanges = [t \in States |-> 0]
    /\ session = [i \in Sessions |-> None]
    /\ sessionLeft = [i \in Sessions |-> 0]
    /\ issued = {}
    /\ key = [k \in Keys |-> "unused"]
    /\ at = [r \in Requests |-> "free"]
    /\ purged = [r \in Requests |-> 0]
    /\ user = [r \in Requests |-> None]
    /\ found = [r \in Requests |-> None]

-----------------------------------------------------------------------------
(* Rows that expire. *)

StaleTooSoon(left) == left <= 1
Stale(left) == left <= 0

\* _purge_expired, before create_oauth_state or create_session inserts a row: a
\* DELETE from either table, which each commit by themselves.
Kept(i) == session[i] # None /\ ~Stale(sessionLeft[i])

PurgedSessions == [i \in Sessions |-> IF Kept(i) THEN session[i] ELSE None]

PurgedStates ==
    [t \in States |-> IF state[t] = "open" /\ Stale(stateLeft[t]) THEN "gone" ELSE state[t]]

Inserting(r) == at[r] \in {"login", "session"}

PurgeSessions(r) ==
    /\ Inserting(r) /\ purged[r] = 0
    /\ session' = PurgedSessions
    /\ purged' = [purged EXCEPT ![r] = 1]
    /\ UNCHANGED <<admin, stateVars, sessionLeft, issued, key, at, user, found>>

PurgeStates(r) ==
    /\ Inserting(r) /\ purged[r] = 1
    /\ state' = PurgedStates
    /\ purged' = [purged EXCEPT ![r] = 2]
    /\ UNCHANGED <<admin, stateLeft, exchanges, sessionVars, key, at, user, found>>

\* The clock goes on by a tick.
DownPastExpiry(left) == left - 1
Down(left) == IF left = 0 THEN 0 ELSE left - 1
Tick ==
    /\ stateLeft' = [t \in States |-> Down(stateLeft[t])]
    /\ sessionLeft' = [i \in Sessions |-> Down(sessionLeft[i])]
    /\ UNCHANGED <<admin, state, exchanges, session, issued, key, requestVars>>

-----------------------------------------------------------------------------
(* Login. *)

\* GET /auth/login, as far as its first statement, and create_oauth_state's INSERT.
EnterLogin(r) ==
    /\ at[r] = "free"
    /\ at' = [at EXCEPT ![r] = "login"]
    /\ UNCHANGED <<admin, stateVars, sessionVars, key, purged, user, found>>

Login(r, t) ==
    /\ at[r] = "login" /\ purged[r] = 2
    /\ state[t] = "unused"
    /\ state' = [state EXCEPT ![t] = "open"]
    /\ stateLeft' = [stateLeft EXCEPT ![t] = StateTTL]
    /\ at' = [at EXCEPT ![r] = "free"]
    /\ purged' = [purged EXCEPT ![r] = 0]
    /\ UNCHANGED <<admin, exchanges, sessionVars, key, user, found>>

\* What a consumed state is afterwards.
StillThere(t) == state[t]
Consumed(t) == "gone"

\* GET /auth/callback: consume_oauth_state deletes the row, whatever it held.
\* A rejected consent and a missing parameter end the request before that.
Callback(r, t) ==
    /\ at[r] = "free"
    /\ state[t] = "open"
    /\ state' = [state EXCEPT ![t] = Consumed(t)]
    /\ \/ /\ ~Stale(stateLeft[t])
          /\ at' = [at EXCEPT ![r] = "exchange"]
          /\ exchanges' = [exchanges EXCEPT ![t] = @ + 1]
       \/ /\ Stale(stateLeft[t])
          /\ UNCHANGED <<at, exchanges>>
    /\ UNCHANGED <<admin, stateLeft, sessionVars, key, purged, user, found>>

\* exchange_code and fetch_user_info: Feishu names the account, or fails.
Exchange(r, u) ==
    /\ at[r] = "exchange"
    /\ at' = [at EXCEPT ![r] = "register"]
    /\ user' = [user EXCEPT ![r] = u]
    /\ UNCHANGED <<admin, stateVars, sessionVars, key, purged, found>>

ExchangeFails(r) ==
    /\ at[r] = "exchange"
    /\ at' = [at EXCEPT ![r] = "free"]
    /\ UNCHANGED <<admin, stateVars, sessionVars, key, purged, user, found>>

\* register_or_check_admin: in one write transaction the first account takes
\* the seat; any other one is refused.
AnyoneSits(u) == TRUE
MaySit(u) == admin \in {None, u}

Register(r) ==
    /\ at[r] = "register"
    /\ admin' = IF admin = None THEN user[r] ELSE admin
    /\ at' = [at EXCEPT ![r] = IF MaySit(user[r]) THEN "session" ELSE "free"]
    /\ user' = [user EXCEPT ![r] = IF MaySit(user[r]) THEN @ ELSE None]
    /\ UNCHANGED <<stateVars, sessionVars, key, purged, found>>

\* create_session's INSERT.
OpenSession(r, i) ==
    /\ at[r] = "session" /\ purged[r] = 2
    /\ i \notin issued
    /\ issued' = issued \cup {i}
    /\ session' = [session EXCEPT ![i] = user[r]]
    /\ sessionLeft' = [sessionLeft EXCEPT ![i] = SessionTTL]
    /\ at' = [at EXCEPT ![r] = "free"]
    /\ purged' = [purged EXCEPT ![r] = 0]
    /\ user' = [user EXCEPT ![r] = None]
    /\ UNCHANGED <<admin, stateVars, key, found>>

\* GET /auth/logout.
Logout(i) ==
    /\ session' = [session EXCEPT ![i] = None]
    /\ UNCHANGED <<admin, stateVars, sessionLeft, issued, key, requestVars>>

-----------------------------------------------------------------------------
(* The console and its gate. *)

\* _load_admin: a session that has not expired, of the administrator.
LoadsAdmin(i) ==
    /\ session[i] # None
    /\ ~Stale(sessionLeft[i])
    /\ session[i] = admin

\* require_admin_session; who is not let in is sent to the login.
EnterConsole(r, i) ==
    /\ at[r] = "free"
    /\ LoadsAdmin(i)
    /\ at' = [at EXCEPT ![r] = "console"]
    /\ UNCHANGED <<admin, stateVars, sessionVars, key, purged, user, found>>

CreateKey(r, k) ==
    /\ at[r] = "console"
    /\ key[k] = "unused"
    /\ key' = [key EXCEPT ![k] = "active"]
    /\ at' = [at EXCEPT ![r] = "free"]
    /\ UNCHANGED <<admin, stateVars, sessionVars, purged, user, found>>

\* revoke_api_key; a key that is revoked already, or none, is a 404.
RevokeKey(r, k) ==
    /\ at[r] = "console"
    /\ key' = [key EXCEPT ![k] = IF @ = "active" THEN "revoked" ELSE @]
    /\ at' = [at EXCEPT ![r] = "free"]
    /\ UNCHANGED <<admin, stateVars, sessionVars, purged, user, found>>

-----------------------------------------------------------------------------
(* The gate of the data API. *)

\* verify_api_key: the row is selected by its hash; an unknown or revoked key
\* gets a 401 and leaves no trace.
SelectKey(r, k) ==
    /\ at[r] = "free"
    /\ key[k] = "active"
    /\ at' = [at EXCEPT ![r] = "verify"]
    /\ found' = [found EXCEPT ![r] = k]
    /\ UNCHANGED <<admin, stateVars, sessionVars, key, purged, user>>

\* Then, in a statement of its own, last_used_at is written, and only that.
WrittenBack(k) == "active"
Written(k) == key[k]

TouchKey(r) ==
    /\ at[r] = "verify"
    /\ key' = [key EXCEPT ![found[r]] = Written(found[r])]
    /\ at' = [at EXCEPT ![r] = "free"]
    /\ found' = [found EXCEPT ![r] = None]
    /\ UNCHANGED <<admin, stateVars, sessionVars, purged, user>>

\* The process ends; what it had under way is gone, the database stays.
Restart(r) ==
    /\ at[r] # "free"
    /\ at' = [at EXCEPT ![r] = "free"]
    /\ purged' = [purged EXCEPT ![r] = 0]
    /\ user' = [user EXCEPT ![r] = None]
    /\ found' = [found EXCEPT ![r] = None]
    /\ UNCHANGED <<admin, stateVars, sessionVars, key>>

-----------------------------------------------------------------------------
Console(r) ==
    \/ \E i \in Sessions : EnterConsole(r, i)
    \/ \E k \in Keys : CreateKey(r, k) \/ RevokeKey(r, k) \/ SelectKey(r, k)

Next ==
    \/ Tick
    \/ \E i \in Sessions : Logout(i)
    \/ \E r \in Requests :
          \/ EnterLogin(r) \/ PurgeSessions(r) \/ PurgeStates(r)
          \/ \E t \in States : Login(r, t) \/ Callback(r, t)
          \/ \E u \in Users : Exchange(r, u)
          \/ ExchangeFails(r) \/ Register(r) \/ TouchKey(r) \/ Restart(r)
          \/ \E i \in Sessions : OpenSession(r, i)
          \/ Console(r)

Spec == Init /\ [][Next]_vars

-----------------------------------------------------------------------------
(* Properties. *)

\* The seat is one account's: every session, and every callback about to open
\* one, is its holder's, through logins of several accounts at once, restarts
\* between the steps of a callback, and logouts; and no console request runs
\* before somebody sits.
OneSeat ==
    /\ \A i \in Sessions : session[i] \in {None, admin}
    /\ \A r \in Requests :
          /\ at[r] = "session" => user[r] = admin
          /\ at[r] = "console" => admin # None

\* An OAuth state lets one callback through at most, among callbacks that race
\* and callbacks that come again.
StateOnce == \A t \in States : exchanges[t] + (IF state[t] = "open" THEN 1 ELSE 0) <= 1

\* Revocation is final, also under a request that selected the key before it
\* and writes the row after it.
RevocationFinal ==
    [][\A k \in Keys : key[k] = "revoked" => key'[k] = "revoked"]_vars

\* A session that has not expired ends by a logout and nothing else: purging
\* for somebody else's login leaves it alone.
SessionsLast ==
    [][\A i \in Sessions :
          session[i] # None /\ sessionLeft[i] > 0 /\ session'[i] # session[i] => Logout(i)]_vars
=============================================================================
