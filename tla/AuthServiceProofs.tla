--------------------------- MODULE AuthServiceProofs ---------------------------
(***************************************************************************)
(* Sessions and accounts agree, for any number of accounts, any lifetimes  *)
(* and any period of the uptime counter.                                   *)
(*                                                                         *)
(* The four properties of AuthService follow from AuthInvariant, which is  *)
(* inductive: an account has at most one session, that session holds the   *)
(* pair the account was issued last, and what it remembers of the time of  *)
(* issue is the true time modulo Wrap.                                     *)
(***************************************************************************)
EXTENDS AuthService, FiniteSetTheorems, WellFoundedInduction, TLAPS

(* Sets of natural numbers have a least element, so that Min finds one.    *)
LEMMA MinIsLeast ==
  ASSUME NEW S \in SUBSET Nat, S # {}
  PROVE  Min(S) \in S
<1>1. PICK x \in S : \A y \in S : ~(<<y, x>> \in OpToRel(<, Nat))
  BY NatLessThanWellFounded, WFMin, Zenon
<1>2. ASSUME NEW y \in S, y < x
      PROVE  FALSE
  <2>1. <<y, x>> \in Nat \X Nat /\ <<y, x>>[1] < <<y, x>>[2]
    BY <1>2
  <2>2. <<y, x>> \in OpToRel(<, Nat)
    BY <2>1, Zenon DEF OpToRel
  <2> QED
    BY <1>1, <2>2, Zenon
<1>3. \A y \in S : x <= y
  <2>1. x \in Nat /\ S \subseteq Nat
    OBVIOUS
  <2> QED
    BY <1>2, <2>1
<1> QED
  BY <1>3, Zenon DEF Min

(* The remainder of a multiple of w plus something less than w.            *)
LEMMA Remainder ==
  \A w \in Nat \ {0}, q \in Int : \A x \in 0..(w - 1) : (q * w + x) % w = x
OBVIOUS

(* The unsigned difference of two readings of the counter is the true age  *)
(* of anything younger than the counter's period.                          *)
LEMMA AgeModuloWrap ==
  ASSUME NEW w \in Nat \ {0}, NEW at \in Nat, NEW now \in Nat,
         at <= now, now - at < w
  PROVE  ((now % w) + w - (at % w)) % w = now - at
<1>1. PICK q \in Int, r \in 0..(w - 1) : at = q * w + r
  <2>1. /\ at = (at \div w) * w + (at % w)
        /\ at \div w \in Int /\ at % w \in 0..(w - 1)
    OBVIOUS
  <2> QED
    BY <2>1
<1>2. at % w = r
  BY <1>1, Remainder
<1>3. CASE r + (now - at) < w
  <2>1. now = q * w + (r + (now - at)) /\ r + (now - at) \in 0..(w - 1)
    BY <1>1, <1>3
  <2>2. now % w = r + (now - at)
    BY <2>1, Remainder, Zenon
  <2>3. (now % w) + w - (at % w) = 1 * w + (now - at) /\ now - at \in 0..(w - 1)
    BY <1>2, <2>2
  <2> QED
    BY <2>3, Remainder
<1>4. CASE r + (now - at) >= w
  <2> DEFINE p == q + 1
             x == r + (now - at) - w
  <2>1. now = p * w + x /\ x \in 0..(w - 1) /\ p \in Int
    BY <1>1, <1>4
  <2>2. now % w = x
    <3> HIDE DEF p, x
    <3> QED
      BY <2>1, Remainder
  <2>3. (now % w) + w - (at % w) = 0 * w + (now - at) /\ now - at \in 0..(w - 1)
    BY <1>2, <2>2
  <2> QED
    BY <2>3, Remainder
<1> QED
  BY <1>1, <1>3, <1>4

-------------------------------------------------------------------------------
(* The inductive invariant. *)

OneSessionEach ==
  \A s, t \in Active : sessions[s].username = sessions[t].username => s = t

(* Session x holds the pair its account was issued last.                   *)
HoldsCurrent(x) ==
  /\ x.access \in 1..Len(issued)
  /\ x.refresh = x.access
  /\ current[x.username] = x.access
  /\ issued[x.access].username = x.username
  /\ issued[x.access].at <= clock
  /\ x.accessIssuedAt = issued[x.access].at % Wrap
  /\ x.refreshIssuedAt = issued[x.access].at % Wrap

CurrentHasSession ==
  \A u \in Names : current[u] # 0 => \E s \in Active : sessions[s].username = u

(* The store grants account u a session in this role.                      *)
Granted(u, role) ==
  \/ u = Master /\ role = "administrator"
  \/ u \in Stored(users) /\ users[u] = [role |-> role, enabled |-> TRUE]

AuthInvariant ==
  /\ AuthTypeOK
  /\ OneSessionEach
  /\ \A s \in Active : HoldsCurrent(sessions[s])
  /\ \A s \in Active : Granted(sessions[s].username, sessions[s].role)
  /\ CurrentHasSession

(* The constants by their types.                                           *)
LEMMA ConstantTypes ==
  /\ MaxUsers \in Nat /\ AccessLifetime \in Nat /\ RefreshLifetime \in Nat
  /\ Wrap \in Nat \ {0} /\ MaxClock \in Nat /\ MaxTokens \in Nat
  /\ AccessLifetime < Wrap /\ RefreshLifetime < Wrap
BY AuthAssumption

(* An entry that is in use is a session.                                   *)
LEMMA ActiveSession ==
  ASSUME AuthTypeOK, NEW s \in Active
  PROVE  s \in Slots /\ sessions[s] \in SessionRecords
BY DEF AuthTypeOK, Active

(* Every pair ever issued has its account and its time.                    *)
LEMMA IssuedPair ==
  ASSUME AuthTypeOK, NEW token \in 1..Len(issued)
  PROVE  issued[token] \in [username : Names, at : 0..MaxClock]
<1> DEFINE Pairs == [username : Names, at : 0..MaxClock]
<1>1. issued \in Seq(Pairs)
  BY DEF AuthTypeOK
<1> HIDE DEF Pairs
<1>2. issued[token] \in Pairs
  BY <1>1
<1> QED
  BY <1>2 DEF Pairs

(* What FindSession returns: the account's own entry if it has one, else a *)
(* free one if there is any.                                               *)
LEMMA FoundSession ==
  ASSUME AuthTypeOK, NEW u \in Names
  PROVE  /\ FindSession(u) # 0 => FindSession(u) \in Slots
         /\ FindSession(u) \in Active => sessions[FindSession(u)].username = u
         /\ (\E s \in Active : sessions[s].username = u) => FindSession(u) \in Active
         /\ FindSession(u) = 0 => Active = Slots
<1> DEFINE own == {s \in Active : sessions[s].username = u}
           free == Slots \ Active
<1>1. Slots \subseteq Nat \ {0}
  BY ConstantTypes DEF Slots, SessionCount
<1>2. own \in SUBSET Nat /\ free \in SUBSET Nat
  BY <1>1, Zenon DEF Active
<1>3. FindSession(u) =
        IF own # {} THEN Min(own) ELSE IF free # {} THEN Min(free) ELSE 0
  BY DEF FindSession
<1>4. CASE own # {}
  BY <1>1, <1>2, <1>3, <1>4, MinIsLeast DEF Active
<1>5. CASE own = {} /\ free # {}
  BY <1>1, <1>2, <1>3, <1>5, MinIsLeast DEF Active
<1>6. CASE own = {} /\ free = {}
  BY <1>1, <1>3, <1>6 DEF Active
<1> QED
  BY <1>4, <1>5, <1>6
(* The invariant at the start.                                             *)
LEMMA AuthInvariantInit == AuthInit => AuthInvariant
<1> SUFFICES ASSUME AuthInit
             PROVE  AuthInvariant
  OBVIOUS
<1>1. users \in UserTables
  <2>1. Stored(users) = {}
    BY DEF AuthInit, Stored
  <2>2. users \in Tables
    BY DEF AuthInit, Tables
  <2> QED
    BY <2>1, <2>2, FS_EmptySet, ConstantTypes DEF UserTables
<1>2. AuthTypeOK
  BY <1>1, ConstantTypes DEF AuthInit, AuthTypeOK
<1>3. Active = {}
  BY DEF AuthInit, Active
<1> QED
  BY <1>2, <1>3 DEF AuthInvariant, OneSessionEach, CurrentHasSession, AuthInit

-------------------------------------------------------------------------------
(* Sessions: Issue and EndSession. *)

(* A pair is issued to an account that the store grants the role.          *)
LEMMA IssueStep ==
  ASSUME AuthInvariant, NEW u \in Names, NEW role \in Roles, Granted(u, role),
         Issue(u, role)
  PROVE  AuthInvariant'
<1> DEFINE f == FindSession(u)
           token == Len(issued) + 1
           new == [username |-> u, role |-> role, access |-> token, refresh |-> token,
                   accessIssuedAt |-> Uptime, refreshIssuedAt |-> Uptime]
<1>1. /\ AuthTypeOK /\ OneSessionEach /\ CurrentHasSession
      /\ \A s \in Active : HoldsCurrent(sessions[s])
      /\ \A s \in Active : Granted(sessions[s].username, sessions[s].role)
  BY DEF AuthInvariant
<1>2. /\ token \in 1..MaxTokens /\ f # 0
      /\ sessions' = [sessions EXCEPT ![f] = new]
      /\ issued' = Append(issued, [username |-> u, at |-> clock])
      /\ current' = [current EXCEPT ![u] = token]
      /\ UNCHANGED <<users, refused, clock>>
  BY <1>1 DEF Issue, AuthTypeOK
<1>3. f \in Slots /\ (f \in Active => sessions[f].username = u)
      /\ ((\E s \in Active : sessions[s].username = u) => f \in Active)
  BY <1>1, <1>2, FoundSession
<1>4. new \in SessionRecords /\ new # NoSession
  <2>1. Uptime \in 0..(Wrap - 1)
    BY <1>1, ConstantTypes DEF Uptime, AuthTypeOK
  <2> QED
    BY <1>2, <2>1, AuthAssumption DEF SessionRecords
<1>5. /\ issued' \in Seq([username : Names, at : 0..MaxClock])
      /\ Len(issued') = token
      /\ issued'[token] = [username |-> u, at |-> clock]
      /\ \A i \in 1..Len(issued) : issued'[i] = issued[i]
  BY <1>1, <1>2 DEF AuthTypeOK
<1>6. /\ current' \in [Names -> 0..MaxTokens]
      /\ current'[u] = token
      /\ \A n \in Names \ {u} : current'[n] = current[n]
  BY <1>1, <1>2 DEF AuthTypeOK
<1>7. /\ sessions' \in [Slots -> SessionRecords \cup {NoSession}]
      /\ sessions'[f] = new
      /\ \A s \in Slots \ {f} : sessions'[s] = sessions[s]
  BY <1>1, <1>2, <1>3, <1>4 DEF AuthTypeOK
<1> HIDE DEF f, token, new
<1>8. AuthTypeOK'
  BY <1>1, <1>2, <1>5, <1>6, <1>7 DEF AuthTypeOK
<1>9. Active' = Active \cup {f}
  BY <1>3, <1>4, <1>7 DEF Active
<1>10. new.username = u /\ new.role = role
  BY DEF new
<1>11. \A s \in Active \ {f} : s \in Slots /\ sessions[s].username \in Names \ {u}
  <2> SUFFICES ASSUME NEW s \in Active, s # f
               PROVE  s \in Slots /\ sessions[s].username \in Names \ {u}
    OBVIOUS
  <2>1. s \in Slots /\ sessions[s].username \in Names
    BY <1>1, ActiveSession DEF SessionRecords
  <2> QED
    BY <1>1, <1>3, <2>1 DEF OneSessionEach
<1>12. OneSessionEach'
  BY <1>1, <1>7, <1>9, <1>10, <1>11 DEF OneSessionEach
<1>13. ASSUME NEW s \in Active'
       PROVE  HoldsCurrent(sessions[s])'
  <2>1. CASE s = f
    <3>1. /\ new.access = token /\ new.refresh = token
          /\ new.accessIssuedAt = clock % Wrap /\ new.refreshIssuedAt = clock % Wrap
      BY DEF new, Uptime
    <3>2. issued'[token].username = u /\ issued'[token].at = clock
      BY <1>5
    <3>3. token \in 1..Len(issued') /\ clock' <= clock' /\ clock' = clock
      BY <1>1, <1>2, <1>5, ConstantTypes DEF AuthTypeOK
    <3> QED
      BY <1>6, <1>7, <1>10, <2>1, <3>1, <3>2, <3>3 DEF HoldsCurrent
  <2>2. CASE s # f
    <3>1. s \in Active /\ sessions'[s] = sessions[s] /\ sessions[s].username \in Names \ {u}
      BY <1>7, <1>9, <1>11, <2>2
    <3>2. HoldsCurrent(sessions[s])
      BY <1>1, <3>1
    <3>3. sessions[s].access \in 1..Len(issued)
      BY <3>2 DEF HoldsCurrent
    <3>4. sessions[s].access \in 1..Len(issued')
      <4>1. Len(issued) \in Nat /\ Len(issued') = Len(issued) + 1
        BY <1>1, <1>5 DEF AuthTypeOK, token
      <4> QED
        BY <3>3, <4>1
    <3>5. /\ issued'[sessions[s].access] = issued[sessions[s].access]
          /\ current'[sessions[s].username] = current[sessions[s].username]
          /\ clock' = clock
      BY <1>2, <1>5, <1>6, <3>1, <3>3
    <3> QED
      BY <3>1, <3>2, <3>4, <3>5, Zenon DEF HoldsCurrent
  <2> QED
    BY <2>1, <2>2
<1>14. ASSUME NEW s \in Active'
       PROVE  Granted(sessions[s].username, sessions[s].role)'
  BY <1>1, <1>2, <1>7, <1>9, <1>10, <1>11, Zenon DEF Granted
<1>15. CurrentHasSession'
  <2> SUFFICES ASSUME NEW n \in Names, current'[n] # 0
               PROVE  \E s \in Active' : sessions'[s].username = n
    BY DEF CurrentHasSession
  <2>1. CASE n = u
    BY <1>7, <1>9, <1>10, <2>1
  <2>2. CASE n # u
    <3>1. PICK s \in Active : sessions[s].username = n
      BY <1>1, <1>6, <2>2 DEF CurrentHasSession
    <3>2. s # f /\ s \in Slots
      BY <1>3, <2>2, <3>1 DEF Active
    <3> QED
      BY <1>7, <1>9, <3>1, <3>2
  <2> QED
    BY <2>1, <2>2
<1> QED
  BY <1>8, <1>12, <1>13, <1>14, <1>15 DEF AuthInvariant

(* The account's session ends; the other sessions and entitlements stay.   *)
LEMMA EndSessionEffect ==
  ASSUME AuthInvariant, NEW u \in Names, EndSession(u)
  PROVE  /\ sessions' \in [Slots -> SessionRecords \cup {NoSession}]
         /\ current' \in [Names -> 0..MaxTokens]
         /\ Active' = {s \in Active : sessions[s].username # u}
         /\ \A s \in Active' : sessions'[s] = sessions[s]
         /\ current'[u] = 0
         /\ \A n \in Names \ {u} : current'[n] = current[n]
<1>1. AuthTypeOK /\ OneSessionEach
  BY DEF AuthInvariant
<1>2. /\ FindSession(u) \in Active => sessions[FindSession(u)].username = u
      /\ (\E s \in Active : sessions[s].username = u) => FindSession(u) \in Active
  BY <1>1, FoundSession
<1>3. /\ sessions' = [s \in Slots |->
           IF s = FindSession(u) THEN NoSession ELSE sessions[s]]
      /\ current' = [current EXCEPT ![u] = 0]
  BY DEF EndSession
<1>4. sessions' \in [Slots -> SessionRecords \cup {NoSession}]
  BY <1>1, <1>3 DEF AuthTypeOK
<1>5. /\ current' \in [Names -> 0..MaxTokens]
      /\ current'[u] = 0
      /\ \A n \in Names \ {u} : current'[n] = current[n]
  BY <1>1, <1>3, ConstantTypes DEF AuthTypeOK
<1>6. ASSUME NEW s \in Slots
      PROVE  /\ s \in Active' <=> s \in Active /\ sessions[s].username # u
             /\ s \in Active' => sessions'[s] = sessions[s]
  <2>1. sessions'[s] = IF s = FindSession(u) THEN NoSession ELSE sessions[s]
    BY <1>3
  <2>2. s \in Active /\ sessions[s].username = u => s = FindSession(u)
    BY <1>1, <1>2 DEF OneSessionEach
  <2> QED
    BY <1>2, <2>1, <2>2 DEF Active
<1>7. Active' = {s \in Active : sessions[s].username # u}
  BY <1>6 DEF Active
<1> QED
  BY <1>4, <1>5, <1>6, <1>7 DEF Active

(* Ending a session keeps the invariant when the store takes nothing from  *)
(* anybody else.                                                           *)
LEMMA EndSessionStep ==
  ASSUME AuthInvariant, NEW u \in Names, EndSession(u), UNCHANGED <<clock, issued>>,
         users' \in UserTables, refused' \in UserTables \cup {NoTable},
         \A n \in Accounts \ {u} : users'[n] = users[n]
  PROVE  AuthInvariant'
<1>1. /\ AuthTypeOK /\ OneSessionEach /\ CurrentHasSession
      /\ \A s \in Active : HoldsCurrent(sessions[s])
      /\ \A s \in Active : Granted(sessions[s].username, sessions[s].role)
  BY DEF AuthInvariant
<1>2. /\ sessions' \in [Slots -> SessionRecords \cup {NoSession}]
      /\ current' \in [Names -> 0..MaxTokens]
      /\ Active' = {s \in Active : sessions[s].username # u}
      /\ \A s \in Active' : sessions'[s] = sessions[s]
      /\ current'[u] = 0
      /\ \A n \in Names \ {u} : current'[n] = current[n]
  BY EndSessionEffect
<1>3. AuthTypeOK'
  BY <1>1, <1>2 DEF AuthTypeOK
<1>4. OneSessionEach'
  BY <1>1, <1>2 DEF OneSessionEach
<1>5. ASSUME NEW s \in Active'
      PROVE  HoldsCurrent(sessions[s])' /\ Granted(sessions[s].username, sessions[s].role)'
  <2>1. /\ s \in Active /\ sessions'[s] = sessions[s]
        /\ sessions[s].username \in Names \ {u}
    BY <1>1, <1>2, ActiveSession DEF SessionRecords
  <2>2. HoldsCurrent(sessions[s]) /\ Granted(sessions[s].username, sessions[s].role)
    BY <1>1, <2>1
  <2>3. HoldsCurrent(sessions[s])'
    BY <1>2, <2>1, <2>2 DEF HoldsCurrent
  <2>4. Granted(sessions[s].username, sessions[s].role)'
    BY <2>1, <2>2 DEF Granted, Stored, Names
  <2> QED
    BY <2>3, <2>4
<1>6. CurrentHasSession'
  BY <1>1, <1>2 DEF CurrentHasSession
<1> QED
  BY <1>3, <1>4, <1>5, <1>6 DEF AuthInvariant
-------------------------------------------------------------------------------
(* Accounts: the tables that PutUser and DeleteUser save. *)

(* Both tables fit the store and change no other account.                  *)
LEMMA PutTable ==
  ASSUME NEW table \in UserTables, NEW u \in Accounts, NEW record \in Records,
         Put(table, u, record) # NoTable
  PROVE  /\ Put(table, u, record) \in UserTables
         /\ \A n \in Accounts \ {u} : Put(table, u, record)[n] = table[n]
<1> DEFINE after == [table EXCEPT ![u] = record]
<1>1. /\ table \in Tables /\ Cardinality(Stored(table)) <= MaxUsers
      /\ IsFiniteSet(Stored(table)) /\ Cardinality(Stored(table)) \in Nat
  <2>1. Stored(table) \in SUBSET Accounts
    BY DEF Stored
  <2> QED
    BY <2>1, AuthAssumption, FS_Subset, FS_CardinalityType DEF UserTables
<1>2. /\ Put(table, u, record) = after
      /\ u \in Stored(table) \/ Cardinality(Stored(table)) < MaxUsers
  BY DEF Put
<1>3. after \in Tables /\ \A n \in Accounts \ {u} : after[n] = table[n]
  BY <1>1 DEF Tables
<1>4. Stored(after) = Stored(table) \cup {u}
  BY <1>1, AuthAssumption DEF Stored, Tables
<1>5. Cardinality(Stored(after)) <= MaxUsers
  <2>1. Cardinality(Stored(table) \cup {u}) =
          IF u \in Stored(table) THEN Cardinality(Stored(table))
          ELSE Cardinality(Stored(table)) + 1
    BY <1>1, FS_AddElement, Zenon
  <2> HIDE DEF after
  <2> QED
    BY <1>1, <1>2, <1>4, <2>1, ConstantTypes
<1> QED
  BY <1>2, <1>3, <1>5 DEF UserTables

LEMMA DeleteTable ==
  ASSUME NEW table \in UserTables, NEW u \in Accounts
  PROVE  /\ Delete(table, u) \in UserTables
         /\ \A n \in Accounts \ {u} : Delete(table, u)[n] = table[n]
<1> DEFINE after == [table EXCEPT ![u] = NoUser]
<1>1. /\ table \in Tables /\ Cardinality(Stored(table)) <= MaxUsers
      /\ IsFiniteSet(Stored(table)) /\ Cardinality(Stored(table)) \in Nat
  <2>1. Stored(table) \in SUBSET Accounts
    BY DEF Stored
  <2> QED
    BY <2>1, AuthAssumption, FS_Subset, FS_CardinalityType DEF UserTables
<1>2. after \in Tables /\ \A n \in Accounts \ {u} : after[n] = table[n]
  BY <1>1 DEF Tables
<1>3. Stored(after) \in SUBSET Stored(table)
  BY <1>1 DEF Stored, Tables
<1>4. Cardinality(Stored(after)) <= MaxUsers
  <2> HIDE DEF after
  <2>1. /\ Cardinality(Stored(after)) <= Cardinality(Stored(table))
        /\ IsFiniteSet(Stored(after))
    BY <1>1, <1>3, FS_Subset
  <2>2. Cardinality(Stored(after)) \in Nat
    BY <2>1, FS_CardinalityType
  <2> QED
    BY <1>1, <2>1, <2>2, ConstantTypes
<1> QED
  BY <1>2, <1>4 DEF UserTables, Delete

(* Steps that leave accounts and sessions alone.                           *)
LEMMA SessionsKept ==
  ASSUME AuthInvariant, AuthTypeOK', UNCHANGED <<users, sessions, issued, current>>,
         \A s \in Active : HoldsCurrent(sessions[s])'
  PROVE  AuthInvariant'
<1>1. Active' = Active
  BY Zenon DEF Active
<1>2. OneSessionEach'
  BY <1>1, Zenon DEF AuthInvariant, OneSessionEach
<1>3. \A s \in Active' : Granted(sessions[s].username, sessions[s].role)'
  BY <1>1, Zenon DEF AuthInvariant, Granted, Stored
<1>4. CurrentHasSession'
  BY <1>1, Zenon DEF AuthInvariant, CurrentHasSession
<1> QED
  BY <1>1, <1>2, <1>3, <1>4, Zenon DEF AuthInvariant

LEMMA NothingChanges ==
  ASSUME AuthInvariant, AuthTypeOK', UNCHANGED <<users, sessions, clock, issued, current>>
  PROVE  AuthInvariant'
<1>1. ASSUME NEW s \in Active
      PROVE  HoldsCurrent(sessions[s])'
  <2>1. HoldsCurrent(sessions[s])
    BY Zenon DEF AuthInvariant
  <2> QED
    BY <2>1, Zenon DEF HoldsCurrent
<1> QED
  BY <1>1, SessionsKept

(* A save, whether it succeeds or not, keeps the invariant.                *)
LEMMA SaveUsersStep ==
  ASSUME AuthInvariant, NEW u \in Accounts, NEW table \in UserTables,
         \A n \in Accounts \ {u} : table[n] = users[n],
         SaveUsers(table, u), UNCHANGED <<clock, issued>>
  PROVE  AuthInvariant'
<1>1. u \in Names
  BY DEF Names
<1>2. CASE users' = table /\ refused' = NoTable /\ EndSession(u)
  BY <1>1, <1>2, EndSessionStep
<1>3. CASE refused' \in {refused, NoTable, table} /\ UNCHANGED <<users, sessions, current>>
  <2>1. AuthTypeOK'
    BY <1>3 DEF AuthInvariant, AuthTypeOK
  <2> QED
    BY <1>3, <2>1, NothingChanges
<1> QED
  BY <1>2, <1>3 DEF SaveUsers

(* Every request, the passing of time and a restart keep the invariant.    *)
LEMMA AuthInvariantStep ==
  ASSUME AuthInvariant, [AuthNext]_vars
  PROVE  AuthInvariant'
<1>1. /\ AuthTypeOK /\ OneSessionEach /\ CurrentHasSession
      /\ \A s \in Active : HoldsCurrent(sessions[s])
      /\ \A s \in Active : Granted(sessions[s].username, sessions[s].role)
  BY DEF AuthInvariant
<1>2. Active \in SUBSET Nat
  BY ConstantTypes DEF Active, Slots, SessionCount
<1>3. CASE TokenRequest
  <2>1. PICK u \in Names : Login(u)
    BY <1>3 DEF TokenRequest
  <2>2. CASE u = Master /\ Issue(Master, "administrator")
    BY <2>2, IssueStep DEF Granted, Roles
  <2>3. CASE u \in Stored(users) /\ users[u].enabled /\ Issue(u, users[u].role)
    <3>1. users[u] \in Records
      BY <1>1, <2>3 DEF AuthTypeOK, UserTables, Tables, Stored
    <3>2. users[u].role \in Roles /\ users[u] = [role |-> users[u].role, enabled |-> TRUE]
      BY <2>3, <3>1, Zenon DEF Records
    <3> QED
      BY <2>3, <3>2, IssueStep DEF Granted
  <2> QED
    BY <2>1, <2>2, <2>3 DEF Login
<1>4. CASE RefreshRequest
  <2>1. PICK token \in 1..Len(issued) : Refresh(token)
    BY <1>4 DEF RefreshRequest
  <2> DEFINE s == Min(Refreshable(token))
  <2>2. s \in Active /\ Issue(sessions[s].username, sessions[s].role)
    BY <1>2, <2>1, MinIsLeast, Zenon DEF Refresh, Refreshable
  <2> HIDE DEF s
  <2>3. sessions[s].username \in Names /\ sessions[s].role \in Roles
    BY <1>1, <2>2, ActiveSession DEF SessionRecords
  <2> QED
    BY <1>1, <2>2, <2>3, IssueStep
<1>5. CASE RevokeRequest
  <2>1. PICK token \in 1..Len(issued) : Revoke(token)
    BY <1>5 DEF RevokeRequest
  <2> DEFINE s == Min(Authorized(token))
  <2>2. /\ s \in Active /\ EndSession(sessions[s].username)
        /\ UNCHANGED <<users, refused, clock, issued>>
    BY <1>2, <2>1, MinIsLeast, Zenon DEF Revoke, Authorized
  <2> HIDE DEF s
  <2>3. sessions[s].username \in Names
    BY <1>1, <2>2, ActiveSession DEF SessionRecords
  <2> QED
    BY <1>1, <2>2, <2>3, EndSessionStep DEF AuthTypeOK
<1>6. ASSUME NEW token \in 1..Len(issued), NEW u \in Accounts,
             \/ CreateUserRequest(token, u)
             \/ UpdateUserRequest(token, u)
      PROVE  AuthInvariant'
  <2>1. PICK record \in Records, exists \in BOOLEAN : PutUser(u, record, exists)
    BY <1>6, Zenon DEF CreateUserRequest, UpdateUserRequest
  <2>2. users \in UserTables
    BY <1>1 DEF AuthTypeOK
  <2> QED
    BY <2>1, <2>2, PutTable, SaveUsersStep DEF PutUser
<1>7. ASSUME NEW token \in 1..Len(issued), NEW u \in Accounts,
             DeleteUserRequest(token, u)
      PROVE  AuthInvariant'
  <2>1. users \in UserTables
    BY <1>1 DEF AuthTypeOK
  <2> QED
    BY <1>7, <2>1, DeleteTable, SaveUsersStep DEF DeleteUserRequest, DeleteUser
<1>8. CASE Tick
  <2>1. clock' \in 0..MaxClock /\ clock' = clock + 1
        /\ UNCHANGED <<users, refused, sessions, issued, current>>
    BY <1>1, <1>8, ConstantTypes DEF Tick, AuthTypeOK
  <2>2. AuthTypeOK'
    BY <1>1, <2>1 DEF AuthTypeOK
  <2>3. ASSUME NEW s \in Active
        PROVE  HoldsCurrent(sessions[s])'
    <3>1. HoldsCurrent(sessions[s])
      BY <1>1
    <3> DEFINE pair == issued[sessions[s].access]
    <3>2. pair \in [username : Names, at : 0..MaxClock] /\ pair.at <= clock
      <4>1. sessions[s].access \in 1..Len(issued) /\ pair.at <= clock
        BY <3>1 DEF HoldsCurrent
      <4> QED
        BY <1>1, <4>1, IssuedPair
    <3>3. pair.at <= clock'
      <4> HIDE DEF pair
      <4>1. pair.at \in Nat /\ clock \in Nat
        BY <1>1, <3>2, ConstantTypes DEF AuthTypeOK
      <4> QED
        BY <2>1, <3>2, <4>1
    <3> QED
      BY <2>1, <3>1, <3>3 DEF HoldsCurrent
  <2> QED
    BY <1>1, <2>1, <2>2, <2>3, SessionsKept
<1>9. CASE Restart
  <2>1. users' \in UserTables /\ refused' = NoTable
    BY <1>1, <1>9 DEF Restart, AuthTypeOK
  <2>2. AuthTypeOK'
    BY <1>1, <1>9, <2>1, ConstantTypes DEF Restart, AuthTypeOK
  <2>3. Active' = {}
    BY <1>9 DEF Restart, Active
  <2> QED
    BY <1>9, <2>2, <2>3 DEF AuthInvariant, OneSessionEach, CurrentHasSession, Restart
<1>10. CASE UNCHANGED vars
  <2>1. AuthTypeOK'
    BY <1>1, <1>10, Zenon DEF vars, AuthTypeOK
  <2> QED
    BY <1>1, <1>10, <2>1, NothingChanges DEF vars
<1> QED
  BY <1>3, <1>4, <1>5, <1>6, <1>7, <1>8, <1>9, <1>10 DEF AuthNext
-------------------------------------------------------------------------------
(* The theorems. *)

(* Every behaviour keeps the invariant.                                    *)
LEMMA AuthInvariantCorrect == AuthSpec => []AuthInvariant
<1>1. AuthInvariant /\ [AuthNext]_vars => AuthInvariant'
  BY AuthInvariantStep
<1> QED
  BY <1>1, AuthInvariantInit, PTL DEF AuthSpec

(* The variables of the authentication service keep their types; the RAM   *)
(* table and a refused one that a start may load fit the user store.       *)
THEOREM AuthTypeCorrect == AuthSpec => []AuthTypeOK
<1>1. AuthInvariant => AuthTypeOK
  BY DEF AuthInvariant
<1> QED
  BY <1>1, AuthInvariantCorrect, PTL

(* Nobody has a session that the user store does not grant in that role    *)
(* (AuthService_PutUser, AuthService_DeleteUser, AuthService_Refresh).     *)
THEOREM SessionsMatch == AuthSpec => []SessionsMatchAccounts
<1>1. AuthInvariant => SessionsMatchAccounts
  BY Zenon DEF AuthInvariant, Granted, SessionsMatchAccounts
<1> QED
  BY <1>1, AuthInvariantCorrect, PTL

(* AUTH_SERVICE_SESSION_COUNT entries are enough for every account that    *)
(* may log in.  If all were taken by others, MaxUsers + 1 different        *)
(* accounts would be among the MaxUsers that remain.                       *)
THEOREM RoomForAll == AuthSpec => []RoomForEveryAccount
<1>1. AuthInvariant => RoomForEveryAccount
  <2> SUFFICES ASSUME AuthInvariant, NEW u \in Stored(users) \cup {Master},
                      FindSession(u) = 0
               PROVE  FALSE
    BY DEF RoomForEveryAccount
  <2> DEFINE others == (Stored(users) \cup {Master}) \ {u}
             holder == [s \in Slots |-> sessions[s].username]
  <2>1. AuthTypeOK /\ u \in Names
    BY DEF AuthInvariant, Names, Stored
  <2>2. Active = Slots /\ \A s \in Active : sessions[s].username # u
    <3>1. /\ (\E s \in Active : sessions[s].username = u) => FindSession(u) \in Active
          /\ Active = Slots
      BY <2>1, FoundSession
    <3>2. 0 \notin Active
      BY ConstantTypes DEF Active, Slots, SessionCount
    <3> QED
      BY <3>1, <3>2
  <2>3. IsFiniteSet(others) /\ Cardinality(others) <= MaxUsers
    <3>1. /\ IsFiniteSet(Stored(users)) /\ Cardinality(Stored(users)) <= MaxUsers
          /\ Cardinality(Stored(users)) \in Nat
      <4>1. Stored(users) \in SUBSET Accounts
        BY DEF Stored
      <4> QED
        BY <2>1, <4>1, AuthAssumption, FS_Subset, FS_CardinalityType
           DEF AuthTypeOK, UserTables
    <3> DEFINE all == Stored(users) \cup {Master}
    <3>2. /\ IsFiniteSet(all)
          /\ Cardinality(all) = IF Master \in Stored(users) THEN Cardinality(Stored(users))
                                ELSE Cardinality(Stored(users)) + 1
      BY <3>1, FS_AddElement
    <3>3. IsFiniteSet(all \ {u}) /\ Cardinality(all \ {u}) = Cardinality(all) - 1
      BY <3>2, FS_RemoveElement
    <3> HIDE DEF all
    <3>4. Cardinality(all \ {u}) <= MaxUsers
      BY <3>1, <3>2, <3>3, ConstantTypes
    <3> QED
      BY <3>3, <3>4 DEF all
  <2>4. IsFiniteSet(Slots) /\ Cardinality(Slots) = MaxUsers + 1
    BY FS_Interval, ConstantTypes DEF Slots, SessionCount
  <2>5. holder \in [Slots -> others]
    BY <2>2, Zenon DEF AuthInvariant, Granted
  <2>6. Cardinality(others) < Cardinality(Slots)
    <3> HIDE DEF others
    <3>1. Cardinality(others) \in Nat
      BY <2>3, FS_CardinalityType
    <3> QED
      BY <2>3, <2>4, <3>1, ConstantTypes
  <2>7. PICK s \in Slots, t \in Slots : s # t /\ holder[s] = holder[t]
    <3> HIDE DEF others, holder
    <3> QED
      BY <2>3, <2>4, <2>5, <2>6, FS_PigeonHole
  <2> QED
    BY <2>2, <2>7 DEF AuthInvariant, OneSessionEach
<1> QED
  BY <1>1, AuthInvariantCorrect, PTL

(* A session's freshness is the truth about its age, as long as it is      *)
(* younger than the counter's period (the subtraction of two 32-bit        *)
(* readings in AuthService_Authorize and AuthService_Refresh).             *)
LEMMA FreshIsYoung ==
  ASSUME AuthTypeOK, NEW at \in 0..MaxClock, at <= clock, clock - at < Wrap,
         NEW lifetime \in Nat
  PROVE  Fresh(at % Wrap, lifetime) <=> clock - at <= lifetime
<1>1. clock \in Nat /\ at \in Nat /\ Wrap \in Nat \ {0}
  BY ConstantTypes DEF AuthTypeOK
<1>2. ((clock % Wrap) + Wrap - (at % Wrap)) % Wrap = clock - at
  BY <1>1, AgeModuloWrap, Zenon
<1> QED
  BY <1>2 DEF Fresh, Uptime

(* The account's current pair is honoured for exactly its two lifetimes,   *)
(* however often the counter has wrapped.                                  *)
THEOREM HonoursExactly == AuthSpec => []HonoursExactlyCurrent
<1>1. AuthInvariant => HonoursExactlyCurrent
  <2> SUFFICES ASSUME AuthInvariant, NEW token \in 1..Len(issued),
                      current[issued[token].username] = token,
                      clock - issued[token].at < Wrap
               PROVE  /\ (Authorized(token) # {}) =
                           (clock - issued[token].at <= AccessLifetime)
                      /\ (Refreshable(token) # {}) =
                           (clock - issued[token].at <= RefreshLifetime)
    BY DEF HonoursExactlyCurrent
  <2> DEFINE pair == issued[token]
  <2>1. /\ AuthTypeOK /\ pair \in [username : Names, at : 0..MaxClock]
        /\ token # 0
    BY IssuedPair DEF AuthInvariant
  <2>2. PICK s \in Active : sessions[s].username = pair.username
    BY <2>1 DEF AuthInvariant, CurrentHasSession
  <2>3. /\ sessions[s].access = token /\ sessions[s].refresh = token
        /\ pair.at <= clock
        /\ sessions[s].accessIssuedAt = pair.at % Wrap
        /\ sessions[s].refreshIssuedAt = pair.at % Wrap
    BY <2>2 DEF AuthInvariant, HoldsCurrent
  <2>4. ASSUME NEW t \in Active,
               sessions[t].access = token \/ sessions[t].refresh = token
        PROVE  t = s
    <3>1. HoldsCurrent(sessions[t]) /\ HoldsCurrent(sessions[s])
      BY DEF AuthInvariant
    <3>2. sessions[t].username = sessions[s].username
      BY <2>2, <2>4, <3>1, Zenon DEF HoldsCurrent
    <3> QED
      BY <3>2 DEF AuthInvariant, OneSessionEach
  <2>5. /\ Fresh(pair.at % Wrap, AccessLifetime) <=> clock - pair.at <= AccessLifetime
        /\ Fresh(pair.at % Wrap, RefreshLifetime) <=> clock - pair.at <= RefreshLifetime
    BY <2>1, <2>3, FreshIsYoung, ConstantTypes, Zenon
  <2>6. Authorized(token) # {} <=> Fresh(pair.at % Wrap, AccessLifetime)
    BY <2>3, <2>4, Zenon DEF Authorized
  <2>7. Refreshable(token) # {} <=> Fresh(pair.at % Wrap, RefreshLifetime)
    BY <2>3, <2>4 DEF Refreshable
  <2> QED
    BY <2>5, <2>6, <2>7
<1> QED
  BY <1>1, AuthInvariantCorrect, PTL

(* A pair that was rotated, revoked or lost in a restart is never accepted *)
(* again.                                                                  *)
THEOREM RetiredForGood == AuthSpec => []RetiredStayRetired
<1>1. AuthInvariant => RetiredStayRetired
  BY DEF AuthInvariant, HoldsCurrent, RetiredStayRetired, Authorized, Refreshable
<1> QED
  BY <1>1, AuthInvariantCorrect, PTL
===============================================================================
