------------------------------ MODULE Sessions ------------------------------
(***************************************************************************)
(* The sessions table of the API and the requests that read and write it:  *)
(* login, refresh and logout (src/src/auth), the pause of a user or of a   *)
(* business as far as authentication sees it, and the cleaning script.     *)
(*                                                                         *)
(* A request is a sequence of steps, one per statement it awaits: between  *)
(* two of them any other request may run.  A refresh token is stored as a  *)
(* hash that is unique in the table, so the token of a session is          *)
(* identified with the session's id.  Steps that answer without writing    *)
(* anything (unknown token, wrong password, expired session) leave the     *)
(* state as it was and are not actions.                                    *)
(***************************************************************************)
EXTENDS Naturals, FiniteSets

CONSTANTS
  Request,      \* requests that can be in flight at the same time
  User, Tenant, \* accounts and businesses
  TenantOf,     \* the business of each account
  Switchable,   \* bound: the accounts and businesses that are ever paused
  Nobody,       \* the owner column of an id not yet used
  MaxSession,   \* bound: rows ever inserted
  MaxTime,      \* bound: the clock stops here
  Grace,        \* ROTATION_GRACE_MS
  AccessTtl,    \* lifetime of an access token
  RefreshTtl,   \* lifetime of a session
  PurgeAge      \* how long past its expiry the cleaning script keeps a row

ASSUME UserAssumption == Nobody \notin User
ASSUME TenantAssumption == TenantOf \in [User -> Tenant]
ASSUME BoundAssumption ==
  /\ MaxSession \in Nat
  /\ MaxTime \in Nat
  /\ Grace \in Nat
  /\ AccessTtl \in Nat
  /\ RefreshTtl \in Nat
  /\ PurgeAge \in Nat

VARIABLES
  now,          \* the clock of the API and of the database
  created,      \* ids handed out so far: 1..created
  stored,       \* ids with a row in the table
  row,          \* the columns of each row
  userActive, tenantActive,  \* the isActive columns of users and tenants
  request,      \* what each request in flight has read and will do next
  root,         \* history: the login a session descends from
  redeemedAt,   \* history: when its token was exchanged, Never if it was not
  known,        \* history: the owner's sessions when a revokeAllByUser started
  alarmed       \* history: sessions that were known to an alarm that finished

vars == <<now, created, stored, row, userActive, tenantActive, request,
          root, redeemedAt, known, alarmed>>
alarms == <<known, alarmed>>
history == <<root, redeemedAt, alarms>>

-----------------------------------------------------------------------------
(***************************************************************************)
(* The row, and the aggregate that is built from it.                       *)
(***************************************************************************)

SessionId == 1 .. MaxSession
Time == 0 .. MaxTime
NoSession == 0
Never == MaxTime + 1
Live == "live"      \* revoked_at and revocation_reason are both null
Reason == {Live, "LOGOUT", "ROTATED", "REUSE_DETECTED", "REVOKED"}

Row == [user: User \cup {Nobody}, createdAt: Time, reason: Reason,
        revokedAt: Time, replacedBy: SessionId \cup {NoSession}]

CreateFromExpiry(user, at) ==
  [user |-> user, createdAt |-> at + RefreshTtl, reason |-> Live,
   revokedAt |-> 0, replacedBy |-> NoSession]

\* Session.create
Create(user, at) ==
  [user |-> user, createdAt |-> at, reason |-> Live,
   revokedAt |-> 0, replacedBy |-> NoSession]

EmptyRow == Create(Nobody, 0)

IsRevoked(r) == r.reason # Live

\* expiresAt is the creation time plus the lifetime, and it is exclusive.
IsExpired(r, t) == r.createdAt + RefreshTtl <= t

RevokeTwice(r, reason, at) == [r EXCEPT !.reason = reason, !.revokedAt = at]

\* The first revocation stays: its reason and its date are not replaced.
Revoke(r, reason, at) ==
  IF IsRevoked(r) THEN r ELSE [r EXCEPT !.reason = reason, !.revokedAt = at]

WasNeverJustRotated(r, t) == FALSE

WasJustRotated(r, t) == t < r.revokedAt + Grace

-----------------------------------------------------------------------------
(***************************************************************************)
(* Requests.                                                               *)
(***************************************************************************)

Step == {"idle",
         "loginUser", "loginStart",
         "tenant", "user", "rotate", "insert",
         "revokeAll", "revoking",
         "logout"}

\* sid is the session whose token was presented, copy the aggregate in memory
\* and targets the rows a revokeAllByUser found when its statement started.
RequestState == [step: Step, sid: SessionId \cup {NoSession}, copy: Row,
                 targets: SUBSET SessionId]

At(step, s, copy) == [step |-> step, sid |-> s, copy |-> copy, targets |-> {}]

Idle == At("idle", NoSession, EmptyRow)

\* Requests that may still insert a row.
Creating == {p \in Request : request[p].step \in
              {"loginUser", "loginStart", "tenant", "user", "rotate", "insert"}}

\* Bound: a request that may insert starts only while its row fits.
Room == created + Cardinality(Creating) < MaxSession

NoLock(s) == FALSE

\* A rotation holds the lock of the row it updated until it commits.
Locked(s) == \E p \in Request : request[p].step = "insert" /\ request[p].sid = s

Goes(p, step) ==
  request' = [request EXCEPT ![p] = At(step, @.sid, @.copy)]
Ends(p) == request' = [request EXCEPT ![p] = Idle]

\* The request is about to call revokeAllByUser for u with this reason.
GoesToRevokeAll(p, s, u, reason) ==
  request' = [request EXCEPT ![p] =
                At("revokeAll", s, Revoke(Create(u, now), reason, now))]

-----------------------------------------------------------------------------

Init ==
  /\ now = 0
  /\ created = 0
  /\ stored = {}
  /\ row = [s \in SessionId |-> EmptyRow]
  /\ userActive = [u \in User |-> TRUE]
  /\ tenantActive = [t \in Tenant |-> TRUE]
  /\ request = [p \in Request |-> Idle]
  /\ root = [s \in SessionId |-> NoSession]
  /\ redeemedAt = [s \in SessionId |-> Never]
  /\ known = [p \in Request |-> {}]
  /\ alarmed = {}

(***************************************************************************)
(* Login: the business, then the account (and its password), then the row. *)
(***************************************************************************)

LoginFindTenant(p, u) ==
  /\ request[p].step = "idle"
  /\ Room
  /\ tenantActive[TenantOf[u]]
  /\ request' = [request EXCEPT ![p] = At("loginUser", NoSession, Create(u, 0))]
  /\ UNCHANGED <<now, created, stored, row, userActive, tenantActive, history>>

LoginFindUser(p) ==
  /\ request[p].step = "loginUser"
  /\ IF userActive[request[p].copy.user] THEN Goes(p, "loginStart") ELSE Ends(p)
  /\ UNCHANGED <<now, created, stored, row, userActive, tenantActive, history>>

NextId == created + 1

\* SessionIssuer.start
LoginStart(p) ==
  /\ request[p].step = "loginStart"
  /\ created < MaxSession
  /\ created' = NextId
  /\ stored' = stored \cup {NextId}
  /\ row' = [row EXCEPT ![NextId] = Create(request[p].copy.user, now)]
  /\ root' = [root EXCEPT ![NextId] = NextId]
  /\ Ends(p)
  /\ UNCHANGED <<now, userActive, tenantActive, redeemedAt, alarms>>

(***************************************************************************)
(* Refresh.                                                                *)
(***************************************************************************)

RaisesAlarmForAnyRevoked(r) == IsRevoked(r) /\ ~WasJustRotated(r, now)

\* Only a token that was exchanged, and not just now, betrays a second copy.
RaisesAlarm(r) == r.reason = "ROTATED" /\ ~WasJustRotated(r, now)

\* The token is looked up.  Every other answer ends the request as it began.
RefreshFind(p, s) ==
  /\ request[p].step = "idle"
  /\ s \in stored
  /\ \/ /\ RaisesAlarm(row[s])
        /\ GoesToRevokeAll(p, s, row[s].user, "REUSE_DETECTED")
     \/ /\ ~IsRevoked(row[s])
        /\ ~IsExpired(row[s], now)
        /\ Room
        /\ request' = [request EXCEPT ![p] = At("tenant", s, row[s])]
  /\ UNCHANGED <<now, created, stored, row, userActive, tenantActive, history>>

RefreshCheckTenant(p) ==
  LET u == request[p].copy.user IN
  /\ request[p].step = "tenant"
  /\ IF tenantActive[TenantOf[u]]
       THEN Goes(p, "user")
       ELSE GoesToRevokeAll(p, request[p].sid, u, "REVOKED")
  /\ UNCHANGED <<now, created, stored, row, userActive, tenantActive, history>>

\* An active account goes on to Session.rotateTo, in memory.
RefreshCheckUser(p) ==
  LET u == request[p].copy.user IN
  /\ request[p].step = "user"
  /\ IF userActive[u]
       THEN request' = [request EXCEPT ![p] =
                          At("rotate", @.sid, Revoke(@.copy, "ROTATED", now))]
       ELSE GoesToRevokeAll(p, request[p].sid, u, "REVOKED")
  /\ UNCHANGED <<now, created, stored, row, userActive, tenantActive, history>>

RedeemableIfStored(s) == s \in stored

\* The WHERE of the rotation's UPDATE.
Redeemable(s) == s \in stored /\ ~IsRevoked(row[s])

RotateUpdateWaits(p) ==
  /\ request[p].step = "rotate"
  /\ ~Locked(request[p].sid)
  /\ Redeemable(request[p].sid)
  /\ Goes(p, "insert")
  /\ UNCHANGED <<now, created, stored, row, userActive, tenantActive, history>>

\* The UPDATE of the rotation.  It waits for the lock of the row and, if the
\* row is no longer live, affects nothing and the request loses the race.
RotateUpdate(p) ==
  /\ request[p].step = "rotate"
  /\ ~Locked(request[p].sid)
  /\ IF Redeemable(request[p].sid) THEN Goes(p, "insert") ELSE Ends(p)
  /\ UNCHANGED <<now, created, stored, row, userActive, tenantActive, history>>

\* The INSERT of the successor and the commit of both rows.
RotateInsert(p) ==
  LET s == request[p].sid
      copy == request[p].copy
  IN
  /\ request[p].step = "insert"
  /\ created < MaxSession
  /\ created' = NextId
  /\ stored' = stored \cup {NextId}
  /\ row' = [row EXCEPT
       ![s].reason = copy.reason, ![s].revokedAt = copy.revokedAt,
       ![s].replacedBy = NextId,
       ![NextId] = Create(copy.user, copy.revokedAt)]
  /\ root' = [root EXCEPT ![NextId] = root[s]]
  /\ redeemedAt' = [redeemedAt EXCEPT ![s] = copy.revokedAt]
  /\ Ends(p)
  /\ UNCHANGED <<now, userActive, tenantActive, alarms>>

(***************************************************************************)
(* SessionRepository.revokeAllByUser: one UPDATE statement.  It chooses    *)
(* its rows when it starts, waits for the locked ones, and writes those    *)
(* that are still live when it gets them.                                  *)
(***************************************************************************)

TokenOnly(p) == {request[p].sid} \cap stored

LiveRowsOf(p) ==
  {s \in stored : row[s].user = request[p].copy.user /\ ~IsRevoked(row[s])}

RevokeAllBegin(p) ==
  /\ request[p].step = "revokeAll"
  /\ request' = [request EXCEPT ![p] =
       [step |-> "revoking", sid |-> @.sid, copy |-> @.copy,
        targets |-> LiveRowsOf(p)]]
  /\ known' = [known EXCEPT ![p] =
       {s \in stored : row[s].user = request[p].copy.user}]
  /\ UNCHANGED <<now, created, stored, row, userActive, tenantActive,
                 root, redeemedAt, alarmed>>

RevokeAllCommit(p) ==
  LET copy == request[p].copy
      targets == request[p].targets \cap stored
  IN
  /\ request[p].step = "revoking"
  /\ \A s \in targets : ~Locked(s)
  /\ row' = [s \in SessionId |->
       IF s \in targets THEN Revoke(row[s], copy.reason, copy.revokedAt)
                        ELSE row[s]]
  /\ Ends(p)
  /\ known' = [known EXCEPT ![p] = {}]
  /\ alarmed' = IF copy.reason = "REUSE_DETECTED" THEN alarmed \cup known[p]
                                                  ELSE alarmed
  /\ UNCHANGED <<now, created, stored, userActive, tenantActive,
                 root, redeemedAt>>

(***************************************************************************)
(* Logout: the row is read, revoked in memory and written back whole.      *)
(***************************************************************************)

LogoutFindOnly(p, s) ==
  /\ request[p].step = "idle"
  /\ s \in stored
  /\ request' = [request EXCEPT ![p] =
       At("logout", s, row[s])]
  /\ UNCHANGED <<now, created, stored, row, userActive, tenantActive, history>>

LogoutFind(p, s) ==
  /\ request[p].step = "idle"
  /\ s \in stored
  /\ request' = [request EXCEPT ![p] =
       At("logout", s, Revoke(row[s], "LOGOUT", now))]
  /\ UNCHANGED <<now, created, stored, row, userActive, tenantActive, history>>

\* SessionRepository.update: every column, whatever the row holds by now.
LogoutUpdate(p) ==
  LET s == request[p].sid IN
  /\ request[p].step = "logout"
  /\ ~Locked(s)
  /\ row' = IF s \in stored THEN [row EXCEPT ![s] = request[p].copy] ELSE row
  /\ Ends(p)
  /\ UNCHANGED <<now, created, stored, userActive, tenantActive, history>>

(***************************************************************************)
(* The environment: a request that dies (its transaction is rolled back),  *)
(* the switches other modules flip, the cleaning script and the clock.     *)
(***************************************************************************)

Abort(p) ==
  /\ request[p].step # "idle"
  /\ Ends(p)
  /\ known' = [known EXCEPT ![p] = {}]
  /\ UNCHANGED <<now, created, stored, row, userActive, tenantActive,
                 root, redeemedAt, alarmed>>

ToggleUser(u) ==
  /\ u \in Switchable
  /\ userActive' = [userActive EXCEPT ![u] = ~@]
  /\ UNCHANGED <<now, created, stored, row, tenantActive, request, history>>

ToggleTenant(t) ==
  /\ t \in Switchable
  /\ tenantActive' = [tenantActive EXCEPT ![t] = ~@]
  /\ UNCHANGED <<now, created, stored, row, userActive, request, history>>

Purgeable == {s \in stored : row[s].createdAt + RefreshTtl + PurgeAge < now}

\* One DELETE: it waits for the rows a rotation has locked, and the foreign
\* key of replaced_by_session_id is ON DELETE SET NULL.
Purge ==
  /\ Purgeable # {}
  /\ \A s \in Purgeable : ~Locked(s)
  /\ stored' = stored \ Purgeable
  /\ row' = [s \in SessionId |->
       IF s \in Purgeable THEN EmptyRow
       ELSE IF row[s].replacedBy \in Purgeable
         THEN [row[s] EXCEPT !.replacedBy = NoSession]
       ELSE row[s]]
  /\ UNCHANGED <<now, created, userActive, tenantActive, request, history>>

Tick ==
  /\ now < MaxTime
  /\ now' = now + 1
  /\ UNCHANGED <<created, stored, row, userActive, tenantActive, request, history>>

RequestStep(p) ==
  \/ LoginFindUser(p)
  \/ LoginStart(p)
  \/ RefreshCheckTenant(p)
  \/ RefreshCheckUser(p)
  \/ RotateUpdate(p)
  \/ RotateInsert(p)
  \/ RevokeAllBegin(p)
  \/ RevokeAllCommit(p)
  \/ LogoutUpdate(p)

Next ==
  \/ \E p \in Request :
       \/ \E u \in User : LoginFindTenant(p, u)
       \/ \E s \in SessionId : RefreshFind(p, s)
       \/ \E s \in SessionId : LogoutFind(p, s)
       \/ RequestStep(p)
       \/ Abort(p)
  \/ \E u \in User : ToggleUser(u)
  \/ \E t \in Tenant : ToggleTenant(t)
  \/ Purge
  \/ Tick

Spec == Init /\ [][Next]_vars

\* The steps that wait for a row a rotation has locked.
LockStep(p) == RotateUpdate(p) \/ RevokeAllCommit(p) \/ LogoutUpdate(p)

\* Node runs every callback that is ready, and PostgreSQL queues the
\* transactions that wait for a row: one that waits again and again while
\* others take and release the lock gets its turn.
Fairness ==
  \A p \in Request : WF_vars(RequestStep(p)) /\ SF_vars(LockStep(p))

FairSpec == Spec /\ Fairness

-----------------------------------------------------------------------------
(***************************************************************************)
(* Properties.                                                             *)
(***************************************************************************)

LiveSessions == {s \in stored : ~IsRevoked(row[s])}

\* JwtAuthGuard: what lets the access token of session s through.  A rotated
\* session passes on purpose; the token itself expires on its own.
Admits(s) ==
  /\ s \in stored
  /\ row[s].reason \in {Live, "ROTATED"}
  /\ now < row[s].createdAt + AccessTtl

TypeOK ==
  /\ now \in Time
  /\ created \in 0 .. MaxSession
  /\ stored \subseteq 1 .. created
  /\ row \in [SessionId -> Row]
  /\ userActive \in [User -> BOOLEAN]
  /\ tenantActive \in [Tenant -> BOOLEAN]
  /\ request \in [Request -> RequestState]
  /\ root \in [SessionId -> SessionId \cup {NoSession}]
  /\ redeemedAt \in [SessionId -> Time \cup {Never}]
  /\ known \in [Request -> SUBSET SessionId]
  /\ alarmed \subseteq SessionId

\* However many requests present the tokens of a login at once, and whatever
\* logouts, alarms and crashes run between their statements, at most one
\* session of that login is alive (TypeOrmSessionRepository.rotate).
OneLivePerLogin ==
  \A s, t \in LiveSessions : root[s] = root[t] => s = t

\* The rotation chain in the table: a row points to a successor exactly when
\* it was exchanged, the successor is a later session of the same owner and
\* the same login, and no two rows share it.  No stale write of a logout and
\* no cleaning breaks it.
ChainWellFormed ==
  \A s \in stored :
    LET next == row[s].replacedBy IN
    /\ (next # NoSession) <=> (row[s].reason = "ROTATED")
    /\ next # NoSession =>
         /\ next \in s + 1 .. created
         /\ row[next].user = row[s].user
         /\ root[next] = root[s]
         /\ \A t \in stored : row[t].replacedBy = next => t = s

\* The theft alarm is raised only with a token that was exchanged, and not
\* within the grace of its exchange: a double click, a logout or an account
\* that was closed never closes every session of the user as a theft.
AlarmOnlyAfterExchange ==
  \A p \in Request :
    (request[p].step \in {"revokeAll", "revoking"}
       /\ request[p].copy.reason = "REUSE_DETECTED") =>
    LET s == request[p].sid IN
      /\ redeemedAt[s] # Never
      /\ redeemedAt[s] + Grace <= request[p].copy.revokedAt

\* When an alarm has finished, every session its user had when it started is
\* closed, and stays closed whatever was in flight.
AlarmedStayClosed == \A s \in alarmed \cap stored : IsRevoked(row[s])

\* A session that was revoked never comes back, not even through a request
\* that read it alive and writes it later.
RevokedStaysRevoked ==
  [][\A s \in stored \cap stored' : IsRevoked(row[s]) => IsRevoked(row'[s])]_vars

\* A refresh token is worth one exchange, ever (session.repository.ts: "Un
\* refresh vale por un canje").
ExchangedOnce ==
  [][\A s \in SessionId :
       redeemedAt[s] # Never => redeemedAt'[s] = redeemedAt[s]]_vars

\* Every request gets an answer: the locks that rotations, alarms and logouts
\* wait for are always released.
EveryRequestEnds ==
  \A p \in Request : request[p].step # "idle" ~> request[p].step = "idle"

Tokens == INSTANCE RefreshTokens WITH
  Token <- SessionId, None <- NoSession, family <- root, live <- LiveSessions

\* The table and its requests implement single-use refresh tokens.
ImplementsRefreshTokens == Tokens!Spec

(***************************************************************************)
(* Statements of the repository that the code does not keep.               *)
(***************************************************************************)

\* "dos pestanas cerrando a la vez no debe alterar el motivo ni la fecha
\* originales" (logout.use-case.spec.ts).
FirstRevocationSticks ==
  [][\A s \in stored \cap stored' : IsRevoked(row[s]) =>
       /\ row'[s].reason = row[s].reason
       /\ row'[s].revokedAt = row[s].revokedAt]_vars

\* "baja del usuario o del negocio ... tienen efecto inmediato"
\* (jwt-auth.guard.ts).
ClosedAccountIsCutOff ==
  \A s \in SessionId : Admits(s) =>
    userActive[row[s].user] /\ tenantActive[TenantOf[row[s].user]]

\* "se cierran todas las sesiones del usuario" (session-exceptions.ts): when
\* an alarm has finished, no login that existed when it started has a live token.
AlarmClosesTheLogin ==
  \A s \in LiveSessions, t \in alarmed : root[s] # root[t]

=============================================================================
