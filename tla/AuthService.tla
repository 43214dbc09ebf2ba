------------------------------ MODULE AuthService ------------------------------
(***************************************************************************)
(* Accounts and sessions (auth_service.c, user_store.c) as the management  *)
(* API drives them.  A session holds one access and one refresh token; the *)
(* tokens of a pair carry the number of the Issue that made them, since    *)
(* they are fresh random values.  Times are the 32-bit millisecond uptime, *)
(* which wraps: the model counts real time in "clock" and reads it modulo  *)
(* Wrap.                                                                   *)
(*                                                                         *)
(* One task serves one request at a time, so a request is one action.  A   *)
(* request that is refused (wrong password, unknown or expired token, no   *)
(* random numbers, not an administrator) changes nothing and is no action. *)
(***************************************************************************)
EXTENDS Integers, Sequences, FiniteSets, FiniteSetsExt

CONSTANTS
  Accounts,          \* the names users may be given
  Master,            \* the compiled-in administrator, not in the store
  MaxUsers,          \* USER_STORE_MAX_USERS
  AccessLifetime,    \* AUTH_SERVICE_ACCESS_LIFETIME_SEC
  RefreshLifetime,   \* AUTH_SERVICE_REFRESH_LIFETIME_SEC
  Wrap,              \* where the uptime counter wraps
  MaxClock,          \* bound on the time modelled
  MaxTokens,         \* bound on the pairs issued
  NoUser, NoSession, NoTable

Roles == {"administrator", "user"}
Records == [role : Roles, enabled : BOOLEAN]
Names == Accounts \cup {Master}
Tables == [Accounts -> Records \cup {NoUser}]
Stored(table) == {u \in Accounts : table[u] # NoUser}
SessionRecords ==
  [username : Names, role : Roles, access : 1..MaxTokens, refresh : 1..MaxTokens,
   accessIssuedAt : 0..(Wrap - 1), refreshIssuedAt : 0..(Wrap - 1)]

ASSUME AuthAssumption ==
  /\ IsFiniteSet(Accounts)
  /\ Master \notin Accounts
  /\ {MaxUsers, AccessLifetime, RefreshLifetime, Wrap, MaxClock, MaxTokens}
       \subseteq Nat
  /\ AccessLifetime < Wrap /\ RefreshLifetime < Wrap
  /\ NoUser \notin Records
  /\ NoTable \notin Tables
  /\ NoSession \notin SessionRecords

SessionCountUsers == MaxUsers       \* seeded fault: no entry for the master

SessionCount == MaxUsers + 1

Slots == 1..SessionCount

VARIABLES
  users,       \* the user store's RAM snapshot
  refused,     \* a table whose save failed but is the newest in flash
  sessions,
  clock,       \* milliseconds since the start
  issued,      \* history: for each pair its account and when it was issued
  current      \* history: the pair each account is entitled to use, or 0

vars == <<users, refused, sessions, clock, issued, current>>

Active == {s \in Slots : sessions[s] # NoSession}
Uptime == clock % Wrap

(* A table fits the store's fixed number of records.                       *)
UserTables == {table \in Tables : Cardinality(Stored(table)) <= MaxUsers}

AuthTypeOK ==
  /\ users \in UserTables
  /\ refused \in UserTables \cup {NoTable}
  /\ sessions \in [Slots -> SessionRecords \cup {NoSession}]
  /\ clock \in 0..MaxClock
  /\ issued \in Seq([username : Names, at : 0..MaxClock])
  /\ Len(issued) <= MaxTokens
  /\ current \in [Names -> 0..MaxTokens]

AuthInit ==
  /\ users = [u \in Accounts |-> NoUser]
  /\ refused = NoTable
  /\ sessions = [s \in Slots |-> NoSession]
  /\ clock = 0
  /\ issued = <<>>
  /\ current = [u \in Names |-> 0]

-------------------------------------------------------------------------------
(* Sessions. *)

FindSessionFree(username) ==        \* seeded fault: a free entry comes first
  LET own == {s \in Active : sessions[s].username = username}
      free == Slots \ Active
  IN IF free # {} THEN Min(free) ELSE IF own # {} THEN Min(own) ELSE 0

(* The account's session, else a free entry, else none (0).                *)
FindSession(username) ==
  LET own == {s \in Active : sessions[s].username = username}
      free == Slots \ Active
  IN IF own # {} THEN Min(own) ELSE IF free # {} THEN Min(free) ELSE 0

FreshUntil(issuedAt, lifetime) ==   \* seeded fault: compares absolute times
  Uptime <= issuedAt + lifetime

(* Unsigned subtraction: the age modulo Wrap.                              *)
Fresh(issuedAt, lifetime) == (Uptime + Wrap - issuedAt) % Wrap <= lifetime

Authorized(token) ==
  {s \in Active : /\ Fresh(sessions[s].accessIssuedAt, AccessLifetime)
                  /\ sessions[s].access = token}

Refreshable(token) ==
  {s \in Active : /\ Fresh(sessions[s].refreshIssuedAt, RefreshLifetime)
                  /\ sessions[s].refresh = token}

IsAdministrator(token) ==
  Authorized(token) # {} /\ sessions[Min(Authorized(token))].role = "administrator"

(* Both tokens of a pair are replaced, in the account's own entry.         *)
Issue(username, role) ==
  LET token == Len(issued) + 1
  IN /\ token <= MaxTokens
     /\ FindSession(username) # 0
     /\ sessions' = [sessions EXCEPT ![FindSession(username)] =
          [username |-> username, role |-> role,
           access |-> token, refresh |-> token,
           accessIssuedAt |-> Uptime, refreshIssuedAt |-> Uptime]]
     /\ issued' = Append(issued, [username |-> username, at |-> clock])
     /\ current' = [current EXCEPT ![username] = token]
     /\ UNCHANGED <<users, refused, clock>>

LoginAny(username) ==               \* seeded fault: a disabled user may log in
  \/ username = Master /\ Issue(Master, "administrator")
  \/ username \in Stored(users) /\ Issue(username, users[username].role)

(* With the right password.                                                *)
Login(username) ==
  \/ username = Master /\ Issue(Master, "administrator")
  \/ /\ username \in Stored(users)
     /\ users[username].enabled
     /\ Issue(username, users[username].role)

Refresh(token) ==
  /\ Refreshable(token) # {}
  /\ LET session == sessions[Min(Refreshable(token))]
     IN Issue(session.username, session.role)

(* The account's session is zeroed, if it has one.                         *)
EndSession(username) ==
  /\ sessions' = [s \in Slots |->
       IF s = FindSession(username) THEN NoSession ELSE sessions[s]]
  /\ current' = [current EXCEPT ![username] = 0]

Revoke(token) ==
  /\ Authorized(token) # {}
  /\ EndSession(sessions[Min(Authorized(token))].username)
  /\ UNCHANGED <<users, refused, clock, issued>>

-------------------------------------------------------------------------------
(* Accounts. *)

(* A save that fails leaves the RAM table and every session alone; its     *)
(* image may or may not have reached the flash (see SnapshotStore).        *)
SaveUsers(table, username) ==
  \/ /\ users' = table
     /\ refused' = NoTable
     /\ EndSession(username)
  \/ /\ refused' \in {refused, NoTable, table}
     /\ UNCHANGED <<users, sessions, current>>

(* UserStore_Put: a new user needs a free record, else the put is refused. *)
Put(table, username, record) ==
  IF username \in Stored(table) \/ Cardinality(Stored(table)) < MaxUsers
  THEN [table EXCEPT ![username] = record] ELSE NoTable

Delete(table, username) == [table EXCEPT ![username] = NoUser]

(* The master cannot be put: it is not one of the Accounts.                *)
PutUser(username, record, mustExist) ==
  /\ mustExist = (username \in Stored(users))
  /\ Put(users, username, record) # NoTable
  /\ SaveUsers(Put(users, username, record), username)
  /\ UNCHANGED <<clock, issued>>

DeleteUser(username) ==
  /\ username \in Stored(users)
  /\ SaveUsers(Delete(users, username), username)
  /\ UNCHANGED <<clock, issued>>

-------------------------------------------------------------------------------
(* The requests of the API.  A login names any account; a refresh and a    *)
(* revocation carry any token ever issued.                                 *)

TokenRequest == \E username \in Names : Login(username)

RefreshRequest == \E token \in 1..Len(issued) : Refresh(token)

(* Authorised by the dispatcher, and once more by Revoke.                  *)
RevokeRequest == \E token \in 1..Len(issued) : Authorized(token) # {} /\ Revoke(token)

(* The three administrator's requests.  An update that leaves out the role *)
(* or the flag keeps the stored one, which is one of the Records.          *)
CreateUserRequest(token, username) ==
  /\ IsAdministrator(token)
  /\ \E record \in Records : PutUser(username, record, FALSE)

UpdateUserRequest(token, username) ==
  /\ IsAdministrator(token)
  /\ username \in Stored(users)
  /\ \E record \in Records : PutUser(username, record, TRUE)

DeleteUserRequest(token, username) ==
  /\ IsAdministrator(token)
  /\ DeleteUser(username)

-------------------------------------------------------------------------------
Tick ==
  /\ clock < MaxClock
  /\ clock' = clock + 1
  /\ UNCHANGED <<users, refused, sessions, issued, current>>

(* AuthService_Init: the store loads its newest table, no session is left. *)
Restart ==
  /\ users' = IF refused = NoTable THEN users ELSE refused
  /\ refused' = NoTable
  /\ sessions' = [s \in Slots |-> NoSession]
  /\ clock' = 0
  /\ current' = [u \in Names |-> 0]
  /\ UNCHANGED issued

AuthNext ==
  \/ TokenRequest
  \/ RefreshRequest
  \/ RevokeRequest
  \/ \E token \in 1..Len(issued), username \in Accounts :
       \/ CreateUserRequest(token, username)
       \/ UpdateUserRequest(token, username)
       \/ DeleteUserRequest(token, username)
  \/ Tick
  \/ Restart

AuthSpec == AuthInit /\ [][AuthNext]_vars

-------------------------------------------------------------------------------
(* Whoever has a session is the master or an enabled user of the store, in *)
(* the role the store gives them: disabling, demoting, changing or         *)
(* deleting a user ends the session, and no login or refresh brings back   *)
(* what the store no longer grants (AuthService_PutUser,                   *)
(* AuthService_DeleteUser).                                                *)
SessionsMatchAccounts ==
  \A s \in Active :
    LET session == sessions[s]
    IN \/ session.username = Master /\ session.role = "administrator"
       \/ /\ session.username \in Stored(users)
          /\ users[session.username] = [role |-> session.role, enabled |-> TRUE]

(* The session table never runs out: every account that may log in has an  *)
(* entry or can have one, the master included when all users are logged in *)
(* (the + 1 of AUTH_SERVICE_SESSION_COUNT; entries are never reclaimed by  *)
(* age, so that one leaked entry would lock somebody out).                 *)
RoomForEveryAccount ==
  \A u \in Stored(users) \cup {Master} : FindSession(u) # 0

(* The pair an account was last issued, if not revoked, is honoured for    *)
(* exactly its two lifetimes, also across the wrap of the counter, as long *)
(* as it is younger than the counter's period (README.md: "Access tokens   *)
(* last 15 minutes, refresh tokens seven days").                           *)
HonoursExactlyCurrent ==
  \A token \in 1..Len(issued) :
    LET pair == issued[token]
        valid == current[pair.username] = token
        age == clock - pair.at
    IN valid /\ age < Wrap =>
         /\ (Authorized(token) # {}) = (age <= AccessLifetime)
         /\ (Refreshable(token) # {}) = (age <= RefreshLifetime)

(* A pair that was rotated, revoked or lost in a restart is never accepted *)
(* again, however the counter wraps (README.md: "login or refresh rotates  *)
(* both tokens and invalidates the previous pair ... reset invalidates all *)
(* sessions").                                                             *)
RetiredStayRetired ==
  \A token \in 1..Len(issued) :
    current[issued[token].username] # token =>
      Authorized(token) = {} /\ Refreshable(token) = {}
===============================================================================
