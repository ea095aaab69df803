--------------------------- MODULE SessionsProofs ---------------------------
(***************************************************************************)
(* What holds of Sessions for every number of requests, accounts, rows and *)
(* ticks of the clock.                                                     *)
(*                                                                         *)
(* The argument for OneLivePerLogin: a session gets a successor only from  *)
(* the request that holds the lock of its row (RowLocks), which found it   *)
(* live under that lock, and which closes it in the step that opens the    *)
(* successor.  Nothing else may open a session of a login that exists      *)
(* (RootsIssued), and what a logout writes back is closed (ClosingCopies), *)
(* so no stale write reopens a row.                                        *)
(*                                                                         *)
(* The argument for ChainWellFormed: what may stand in a row (Fits) may    *)
(* also be in the memory of a logout that will write it back, so the       *)
(* invariant speaks of rows and copies alike; a successor is named by its  *)
(* predecessor or by a stale copy of it, and by nobody else (OneOrigin);   *)
(* and a row is never older than its successor, so that the cleaning never *)
(* takes a successor and leaves its predecessor.                           *)
(***************************************************************************)
EXTENDS Sessions, TLAPS

USE UserAssumption, TenantAssumption, BoundAssumption

-----------------------------------------------------------------------------
(***************************************************************************)
(* The inductive invariant.                                                *)
(***************************************************************************)

\* What a request remembers at each of its steps.
ClosingCopies ==
  \A p \in Request :
    /\ request[p].step \in {"rotate", "insert"} => IsRevoked(request[p].copy)
    /\ request[p].step \in {"revokeAll", "revoking"} => IsRevoked(request[p].copy)
    /\ request[p].step = "logout" => IsRevoked(request[p].copy)

\* Every row descends from a login that happened.
RootsIssued == \A s \in stored : root[s] \in 1 .. created

\* Whoever holds the lock of a rotation holds a live row, and holds it alone.
RowLocks ==
  \A p \in Request : request[p].step = "insert" =>
    /\ request[p].sid \in LiveSessions
    /\ \A q \in Request : request[q].step = "insert" =>
         (request[q].sid = request[p].sid => q = p)

IInv == TypeOK /\ ClosingCopies /\ RootsIssued /\ RowLocks /\ OneLivePerLogin

-----------------------------------------------------------------------------
(***************************************************************************)
(* Types.                                                                  *)
(***************************************************************************)

LEMMA RowTypes ==
  /\ \A u \in User \cup {Nobody}, t \in Time : Create(u, t) \in Row
  /\ \A r \in Row, e \in Reason, t \in Time : Revoke(r, e, t) \in Row
  /\ EmptyRow \in Row
<1>1. ASSUME NEW u \in User \cup {Nobody}, NEW t \in Time
      PROVE Create(u, t) \in Row
  BY DEF Create, Row, Time, NoSession, Reason
<1>2. ASSUME NEW r \in Row, NEW e \in Reason, NEW t \in Time
      PROVE Revoke(r, e, t) \in Row
  <2>1. [r EXCEPT !.reason = e, !.revokedAt = t] \in Row
    BY DEF Row
  <2>2. QED
    BY <2>1 DEF Revoke
<1>3. EmptyRow \in Row
  <2>1. 0 \in Time
    BY DEF Time
  <2>2. QED
    BY <1>1, <2>1 DEF EmptyRow
<1>4. QED
  BY <1>1, <1>2, <1>3

LEMMA RequestTypes ==
  /\ \A step \in Step, s \in SessionId \cup {NoSession}, r \in Row :
       At(step, s, r) \in RequestState
  /\ Idle \in RequestState
BY RowTypes DEF RequestState, At, Idle, Step, NoSession

LEMMA RequestFields ==
  TypeOK => \A p \in Request :
    /\ request[p].sid \in SessionId \cup {NoSession}
    /\ request[p].copy \in Row
    /\ request[p].copy.user \in User \cup {Nobody}
    /\ request[p].copy.revokedAt \in Time
    /\ request[p].copy.reason \in Reason
BY DEF TypeOK, RequestState, Row

LEMMA NextIdIsNext ==
  TypeOK /\ created < MaxSession =>
    /\ NextId \in SessionId
    /\ NextId \in 0 .. MaxSession
    /\ NextId \in 1 .. NextId
    /\ 1 .. created \subseteq 1 .. NextId
    /\ NextId \notin 1 .. created
    /\ stored \cup {NextId} \subseteq 1 .. NextId
    /\ NextId \notin stored
<1> SUFFICES ASSUME TypeOK, created < MaxSession
             PROVE  /\ NextId \in SessionId
                    /\ NextId \in 0 .. MaxSession
                    /\ NextId \in 1 .. NextId
                    /\ 1 .. created \subseteq 1 .. NextId
                    /\ NextId \notin 1 .. created
                    /\ stored \cup {NextId} \subseteq 1 .. NextId
                    /\ NextId \notin stored
  OBVIOUS
<1>1. created \in Nat /\ stored \subseteq 1 .. created
  BY DEF TypeOK
<1>2. QED
  BY <1>1 DEF NextId, SessionId

LEMMA TypeInit == Init => TypeOK
BY RowTypes, RequestTypes DEF Init, TypeOK, Time, Never, NoSession, SessionId

LEMMA TypeStep == IInv /\ [Next]_vars => TypeOK'
<1> SUFFICES ASSUME IInv, [Next]_vars PROVE TypeOK'
  OBVIOUS
<1> TypeOK
  BY DEF IInv
<1> USE RowTypes, RequestTypes
<1>1. ASSUME NEW p \in Request, NEW u \in User, LoginFindTenant(p, u)
      PROVE TypeOK'
  <2>1. At("loginUser", NoSession, Create(u, 0)) \in RequestState
    <3>1. 0 \in Time
      BY DEF Time
    <3>2. Create(u, 0) \in Row
      BY <3>1
    <3>3. QED
      BY <3>2 DEF Step
  <2>2. QED
    BY <1>1, <2>1 DEF TypeOK, LoginFindTenant, history, alarms
<1>2. ASSUME NEW p \in Request, NEW s \in SessionId, RefreshFind(p, s)
      PROVE TypeOK'
  <2>1. row[s] \in Row /\ row[s].user \in User \cup {Nobody} /\ now \in Time
    BY DEF TypeOK, Row
  <2>2. Revoke(Create(row[s].user, now), "REUSE_DETECTED", now) \in Row
    BY <2>1 DEF Reason
  <2>3. request' \in [Request -> RequestState]
    BY <1>2, <2>1, <2>2 DEF TypeOK, RefreshFind, GoesToRevokeAll, Step
  <2>4. QED
    BY <1>2, <2>3 DEF TypeOK, RefreshFind, history, alarms
<1>3. ASSUME NEW p \in Request, NEW s \in SessionId, LogoutFind(p, s)
      PROVE TypeOK'
  <2>1. At("logout", s, Revoke(row[s], "LOGOUT", now)) \in RequestState
    BY DEF TypeOK, Reason, Step
  <2>2. QED
    BY <1>3, <2>1 DEF TypeOK, LogoutFind, history, alarms
<1>4. ASSUME NEW p \in Request, LoginFindUser(p)
      PROVE TypeOK'
  <2>1. At("loginStart", request[p].sid, request[p].copy) \in RequestState
    BY RequestFields DEF Step
  <2>2. QED
    BY <1>4, <2>1 DEF TypeOK, LoginFindUser, Goes, Ends, history, alarms
<1>5. ASSUME NEW p \in Request, LoginStart(p)
      PROVE TypeOK'
  <2>1. request[p].copy.user \in User \cup {Nobody} /\ now \in Time
    BY DEF TypeOK, RequestState, Row
  <2>2. Create(request[p].copy.user, now) \in Row
    BY <2>1
  <2>3. /\ created' \in 0 .. MaxSession
        /\ NextId \in SessionId
        /\ stored' \subseteq 1 .. created'
    BY <1>5, NextIdIsNext DEF LoginStart
  <2>4. QED
    BY <1>5, <2>2, <2>3 DEF TypeOK, LoginStart, Ends, alarms
<1>6. ASSUME NEW p \in Request, RefreshCheckTenant(p)
      PROVE TypeOK'
  <2>1. Revoke(Create(request[p].copy.user, now), "REVOKED", now) \in Row
    BY RequestFields DEF TypeOK, Reason
  <2>2. At("user", request[p].sid, request[p].copy) \in RequestState
    BY RequestFields DEF Step
  <2>3. At("revokeAll", request[p].sid,
           Revoke(Create(request[p].copy.user, now), "REVOKED", now)) \in RequestState
    BY <2>1, RequestFields DEF Step
  <2>4. request' \in [Request -> RequestState]
    BY <1>6, <2>2, <2>3 DEF TypeOK, RefreshCheckTenant, Goes, GoesToRevokeAll
  <2>5. QED
    BY <1>6, <2>4 DEF TypeOK, RefreshCheckTenant, history, alarms
<1>7. ASSUME NEW p \in Request, RefreshCheckUser(p)
      PROVE TypeOK'
  <2>1. Revoke(request[p].copy, "ROTATED", now) \in Row
    BY RequestFields DEF TypeOK, Reason
  <2>2. Revoke(Create(request[p].copy.user, now), "REVOKED", now) \in Row
    BY RequestFields DEF TypeOK, Reason
  <2>3. /\ At("rotate", request[p].sid, Revoke(request[p].copy, "ROTATED", now))
             \in RequestState
        /\ At("revokeAll", request[p].sid,
              Revoke(Create(request[p].copy.user, now), "REVOKED", now))
             \in RequestState
    BY <2>1, <2>2, RequestFields DEF Step
  <2>4. request' \in [Request -> RequestState]
    BY <1>7, <2>3 DEF TypeOK, RefreshCheckUser, GoesToRevokeAll
  <2>5. QED
    BY <1>7, <2>4 DEF TypeOK, RefreshCheckUser, history, alarms
<1>8. ASSUME NEW p \in Request, RotateUpdate(p)
      PROVE TypeOK'
  <2>1. At("insert", request[p].sid, request[p].copy) \in RequestState
    BY RequestFields DEF Step
  <2>2. QED
    BY <1>8, <2>1 DEF TypeOK, RotateUpdate, Goes, Ends, history, alarms
<1>9. ASSUME NEW p \in Request, RotateInsert(p)
      PROVE TypeOK'
  <2> DEFINE s == request[p].sid
             copy == request[p].copy
  <2>1. /\ copy.user \in User \cup {Nobody}
        /\ copy.revokedAt \in Time
        /\ copy.reason \in Reason
    BY DEF TypeOK, RequestState, Row
  <2>2. Create(copy.user, copy.revokedAt) \in Row
    BY <2>1
  <2>3. /\ created' \in 0 .. MaxSession
        /\ NextId \in SessionId
        /\ stored' \subseteq 1 .. created'
    BY <1>9, NextIdIsNext DEF RotateInsert
  <2>4. row' \in [SessionId -> Row]
    BY <1>9, <2>1, <2>2, <2>3 DEF TypeOK, RotateInsert, Row
  <2>5. root' \in [SessionId -> SessionId \cup {NoSession}]
    <3>1. s \in SessionId
      BY <1>9 DEF RotateInsert, IInv, TypeOK, RowLocks, LiveSessions, SessionId
    <3>2. QED
      BY <1>9, <2>3, <3>1 DEF TypeOK, RotateInsert
  <2>6. redeemedAt' \in [SessionId -> Time \cup {Never}]
    BY <1>9, <2>1 DEF TypeOK, RotateInsert
  <2>7. QED
    BY <1>9, <2>3, <2>4, <2>5, <2>6 DEF TypeOK, RotateInsert, Ends, alarms
<1>10. ASSUME NEW p \in Request, RevokeAllBegin(p)
       PROVE TypeOK'
  <2>1. stored \subseteq SessionId
    BY DEF TypeOK, SessionId
  <2>2. /\ LiveRowsOf(p) \subseteq SessionId
        /\ {s \in stored : row[s].user = request[p].copy.user} \subseteq SessionId
    BY <2>1 DEF LiveRowsOf
  <2>3. request' \in [Request -> RequestState]
    BY <1>10, <2>2 DEF TypeOK, RevokeAllBegin, RequestState, Step
  <2>4. known' \in [Request -> SUBSET SessionId]
    BY <1>10, <2>2 DEF TypeOK, RevokeAllBegin
  <2>5. QED
    BY <1>10, <2>3, <2>4 DEF TypeOK, RevokeAllBegin
<1>11. ASSUME NEW p \in Request, RevokeAllCommit(p)
       PROVE TypeOK'
  <2>1. /\ request[p].copy.reason \in Reason
        /\ request[p].copy.revokedAt \in Time
    BY DEF TypeOK, RequestState, Row
  <2>2. row' \in [SessionId -> Row]
    BY <1>11, <2>1 DEF TypeOK, RevokeAllCommit
  <2>3. QED
    BY <1>11, <2>2 DEF TypeOK, RevokeAllCommit, Ends
<1>12. ASSUME NEW p \in Request, LogoutUpdate(p)
       PROVE TypeOK'
  <2>1. request[p].copy \in Row
    BY DEF TypeOK, RequestState
  <2>2. row' \in [SessionId -> Row]
    BY <1>12, <2>1 DEF TypeOK, LogoutUpdate
  <2>3. QED
    BY <1>12, <2>2 DEF TypeOK, LogoutUpdate, Ends, history, alarms
<1>13. ASSUME NEW p \in Request, Abort(p)
       PROVE TypeOK'
  BY <1>13 DEF TypeOK, Abort, Ends
<1>14. ASSUME NEW u \in User, ToggleUser(u)
       PROVE TypeOK'
  BY <1>14 DEF TypeOK, ToggleUser, history, alarms
<1>15. ASSUME NEW t \in Tenant, ToggleTenant(t)
       PROVE TypeOK'
  BY <1>15 DEF TypeOK, ToggleTenant, history, alarms
<1>16. CASE Purge
  <2>1. row' \in [SessionId -> Row]
    BY <1>16 DEF TypeOK, Purge, Row
  <2>2. QED
    BY <1>16, <2>1 DEF TypeOK, Purge, history, alarms
<1>17. CASE Tick
  BY <1>17 DEF TypeOK, Tick, history, alarms, Time
<1>18. CASE UNCHANGED vars
  BY <1>18 DEF TypeOK, vars
<1>19. QED
  BY <1>1, <1>2, <1>3, <1>4, <1>5, <1>6, <1>7, <1>8, <1>9, <1>10, <1>11, <1>12,
     <1>13, <1>14, <1>15, <1>16, <1>17, <1>18 DEF Next, RequestStep

-----------------------------------------------------------------------------
(***************************************************************************)
(* The steps, one by one.                                                  *)
(***************************************************************************)

LEMMA InvInit == Init => IInv
<1> SUFFICES ASSUME Init PROVE IInv
  OBVIOUS
<1>1. TypeOK
  BY TypeInit
<1>2. ClosingCopies /\ RootsIssued /\ RowLocks /\ OneLivePerLogin
  BY DEF Init, Idle, At, ClosingCopies, RootsIssued, RowLocks, OneLivePerLogin,
         LiveSessions
<1>3. QED
  BY <1>1, <1>2 DEF IInv

\* Closing a row closes it, and what is closed stays closed.
LEMMA RevokeCloses ==
  \A r \in Row, e \in Reason \ {Live}, t \in Time : IsRevoked(Revoke(r, e, t))
BY DEF Revoke, IsRevoked, Row, Live

\* A step that neither adds rows nor reopens one, and in which every request
\* that holds a lock afterwards held it before, keeps RowLocks and
\* OneLivePerLogin.
LEMMA NothingOpens ==
  ASSUME IInv,
         created' = created, root' = root,
         LiveSessions' \subseteq LiveSessions,
         \A p \in Request : request'[p].step = "insert" => request'[p] = request[p],
         \A p \in Request : request'[p].step = "insert" =>
           request[p].sid \in LiveSessions'
  PROVE  RowLocks' /\ OneLivePerLogin'
<1>1. OneLivePerLogin'
  BY DEF IInv, OneLivePerLogin
<1>2. RowLocks'
  BY DEF IInv, RowLocks
<1>3. QED
  BY <1>1, <1>2

LEMMA ClosingCopiesStep == IInv /\ [Next]_vars => ClosingCopies'
<1> SUFFICES ASSUME IInv, [Next]_vars PROVE ClosingCopies'
  OBVIOUS
<1> TypeOK /\ ClosingCopies
  BY DEF IInv
<1> USE DEF ClosingCopies, Idle, At
<1>1. ASSUME NEW p \in Request, NEW u \in User, LoginFindTenant(p, u)
      PROVE ClosingCopies'
  BY <1>1 DEF LoginFindTenant, TypeOK
<1>2. ASSUME NEW p \in Request, NEW s \in SessionId, RefreshFind(p, s)
      PROVE ClosingCopies'
  <2>1. IsRevoked(Revoke(Create(row[s].user, now), "REUSE_DETECTED", now))
    BY RevokeCloses, RowTypes DEF TypeOK, Row, Reason, Live
  <2>2. QED
    BY <1>2, <2>1 DEF RefreshFind, GoesToRevokeAll, TypeOK
<1>3. ASSUME NEW p \in Request, NEW s \in SessionId, LogoutFind(p, s)
      PROVE ClosingCopies'
  <2>1. IsRevoked(Revoke(row[s], "LOGOUT", now))
    BY RevokeCloses DEF TypeOK, Reason, Live
  <2>2. QED
    BY <1>3, <2>1 DEF LogoutFind, TypeOK
<1>4. ASSUME NEW p \in Request, LoginFindUser(p)
      PROVE ClosingCopies'
  BY <1>4 DEF LoginFindUser, Goes, Ends, TypeOK
<1>5. ASSUME NEW p \in Request,
             \/ RefreshCheckTenant(p)
             \/ RefreshCheckUser(p)
      PROVE ClosingCopies'
  <2>1. IsRevoked(Revoke(Create(request[p].copy.user, now), "REVOKED", now))
    BY RevokeCloses, RowTypes, RequestFields DEF TypeOK, Reason, Live
  <2>2. IsRevoked(Revoke(request[p].copy, "ROTATED", now))
    BY RevokeCloses, RequestFields DEF TypeOK, Reason, Live
  <2>3. QED
    BY <1>5, <2>1, <2>2
    DEF RefreshCheckTenant, RefreshCheckUser, Goes, GoesToRevokeAll, TypeOK
<1>6. ASSUME NEW p \in Request, RotateUpdate(p)
      PROVE ClosingCopies'
  BY <1>6 DEF RotateUpdate, Goes, Ends, TypeOK
<1>7. ASSUME NEW p \in Request, RevokeAllBegin(p)
      PROVE ClosingCopies'
  BY <1>7 DEF RevokeAllBegin, TypeOK
<1>8. ASSUME NEW p \in Request,
             \/ LoginStart(p)
             \/ RotateInsert(p)
             \/ RevokeAllCommit(p)
             \/ LogoutUpdate(p)
             \/ Abort(p)
      PROVE ClosingCopies'
  BY <1>8 DEF LoginStart, RotateInsert, RevokeAllCommit, LogoutUpdate, Abort, Ends, TypeOK
<1>9. ASSUME UNCHANGED request
      PROVE ClosingCopies'
  BY <1>9
<1>10. QED
  BY <1>1, <1>2, <1>3, <1>4, <1>5, <1>6, <1>7, <1>8, <1>9
  DEF Next, RequestStep, ToggleUser, ToggleTenant, Purge, Tick, vars

LEMMA RootsIssuedStep == IInv /\ [Next]_vars => RootsIssued'
<1> SUFFICES ASSUME IInv, [Next]_vars PROVE RootsIssued'
  OBVIOUS
<1> TypeOK /\ RootsIssued /\ RowLocks
  BY DEF IInv
<1> USE DEF RootsIssued
<1>1. ASSUME NEW p \in Request, LoginStart(p)
      PROVE RootsIssued'
  BY <1>1, NextIdIsNext DEF LoginStart, TypeOK
<1>2. ASSUME NEW p \in Request, RotateInsert(p)
      PROVE RootsIssued'
  <2>1. root[request[p].sid] \in 1 .. created
    BY <1>2 DEF RotateInsert, RowLocks, LiveSessions
  <2>2. QED
    BY <1>2, <2>1, NextIdIsNext DEF RotateInsert, TypeOK
<1>3. CASE Purge
  BY <1>3 DEF Purge, history
<1>4. ASSUME UNCHANGED <<created, stored, root>>
      PROVE RootsIssued'
  BY <1>4
<1>5. QED
  BY <1>1, <1>2, <1>3, <1>4
  DEF Next, RequestStep, LoginFindTenant, RefreshFind, LogoutFind, LoginFindUser,
      RefreshCheckTenant, RefreshCheckUser, RotateUpdate, RevokeAllBegin,
      RevokeAllCommit, LogoutUpdate, Abort, ToggleUser, ToggleTenant, Tick, vars,
      history

LEMMA LocksStep == IInv /\ [Next]_vars => RowLocks' /\ OneLivePerLogin'
<1> SUFFICES ASSUME IInv, [Next]_vars PROVE RowLocks' /\ OneLivePerLogin'
  OBVIOUS
<1> TypeOK /\ ClosingCopies /\ RootsIssued /\ RowLocks /\ OneLivePerLogin
  BY DEF IInv
<1> USE DEF Idle, At
<1>1. ASSUME NEW p \in Request, LoginStart(p)
      PROVE RowLocks' /\ OneLivePerLogin'
  <2>1. /\ LiveSessions' = LiveSessions \cup {NextId}
        /\ \A s \in stored : root'[s] = root[s] /\ root[s] # NextId
        /\ root'[NextId] = NextId
    BY <1>1, NextIdIsNext
    DEF LoginStart, LiveSessions, TypeOK, RootsIssued, Create, IsRevoked, SessionId
  <2>2. OneLivePerLogin'
    BY <2>1 DEF OneLivePerLogin, LiveSessions
  <2>3. RowLocks'
    BY <1>1, <2>1 DEF LoginStart, Ends, RowLocks, TypeOK
  <2>4. QED
    BY <2>2, <2>3
<1>2. ASSUME NEW p \in Request, RotateUpdate(p)
      PROVE RowLocks' /\ OneLivePerLogin'
  <2>1. LiveSessions' = LiveSessions /\ root' = root
    BY <1>2 DEF RotateUpdate, LiveSessions, history
  <2>2. RowLocks'
    <3>1. CASE Redeemable(request[p].sid)
      BY <1>2, <2>1, <3>1
      DEF RotateUpdate, Goes, RowLocks, Redeemable, Locked, LiveSessions, TypeOK
    <3>2. CASE ~Redeemable(request[p].sid)
      BY <1>2, <2>1, <3>2 DEF RotateUpdate, Ends, RowLocks, TypeOK
    <3>3. QED
      BY <3>1, <3>2
  <2>3. QED
    BY <2>1, <2>2 DEF OneLivePerLogin
<1>3. ASSUME NEW p \in Request, RotateInsert(p)
      PROVE RowLocks' /\ OneLivePerLogin'
  <2> DEFINE s == request[p].sid
  <2>1. s \in LiveSessions /\ s # NextId /\ s \in SessionId
    BY <1>3, NextIdIsNext
    DEF RotateInsert, RowLocks, LiveSessions, TypeOK, SessionId
  <2>2. IsRevoked(row'[s])
    BY <1>3, <2>1, NextIdIsNext
    DEF RotateInsert, ClosingCopies, IsRevoked, TypeOK, Row, Live
  <2>3. \A t \in stored \ {s} : row'[t] = row[t]
    BY <1>3, NextIdIsNext DEF RotateInsert, TypeOK, SessionId
  <2>4. LiveSessions' = (LiveSessions \ {s}) \cup {NextId}
    <3>1. ~IsRevoked(row'[NextId])
      BY <1>3, <2>1, NextIdIsNext DEF RotateInsert, TypeOK, Create, IsRevoked
    <3>2. stored' = stored \cup {NextId} /\ NextId \notin stored
      BY <1>3, NextIdIsNext DEF RotateInsert
    <3>3. \A t \in stored \ {s} : IsRevoked(row'[t]) = IsRevoked(row[t])
      BY <2>3 DEF IsRevoked
    <3>4. QED
      BY <2>1, <2>2, <3>1, <3>2, <3>3 DEF LiveSessions
  <2>5. /\ \A t \in stored : root'[t] = root[t]
        /\ root'[NextId] = root[s]
    BY <1>3, NextIdIsNext DEF RotateInsert, TypeOK, SessionId
  <2>6. OneLivePerLogin'
    BY <2>1, <2>4, <2>5 DEF OneLivePerLogin, LiveSessions
  <2>7. RowLocks'
    BY <1>3, <2>4 DEF RotateInsert, Ends, RowLocks, TypeOK
  <2>8. QED
    BY <2>6, <2>7
<1>4. ASSUME NEW p \in Request, RevokeAllCommit(p)
      PROVE RowLocks' /\ OneLivePerLogin'
  <2>1. /\ stored' = stored
        /\ \A s \in stored :
             /\ IsRevoked(row[s]) => row'[s] = row[s]
             /\ Locked(s) => row'[s] = row[s]
    <3>1. stored \subseteq SessionId
      BY DEF TypeOK, SessionId
    <3>2. \A s \in SessionId :
            \/ row'[s] = row[s]
            \/ /\ ~Locked(s)
               /\ row'[s] = Revoke(row[s], request[p].copy.reason,
                                   request[p].copy.revokedAt)
      BY <1>4 DEF RevokeAllCommit
    <3>3. \A s \in SessionId : IsRevoked(row[s]) => row'[s] = row[s]
      BY <3>2 DEF Revoke
    <3>4. QED
      BY <1>4, <3>1, <3>2, <3>3 DEF RevokeAllCommit
  <2>2. LiveSessions' \subseteq LiveSessions
    BY <2>1 DEF LiveSessions
  <2>3. \A q \in Request : request'[q].step = "insert" =>
          request'[q] = request[q] /\ request[q].step = "insert"
    BY <1>4 DEF RevokeAllCommit, Ends, TypeOK
  <2>4. \A q \in Request : request'[q].step = "insert" =>
          request[q].sid \in LiveSessions'
    BY <2>1, <2>3 DEF Locked, RowLocks, LiveSessions
  <2>5. QED
    BY <1>4, <2>2, <2>3, <2>4, NothingOpens DEF RevokeAllCommit
<1>5. ASSUME NEW p \in Request, LogoutUpdate(p)
      PROVE RowLocks' /\ OneLivePerLogin'
  <2>1. LiveSessions' \subseteq LiveSessions
    BY <1>5 DEF LogoutUpdate, ClosingCopies, LiveSessions, TypeOK, SessionId
  <2>2. \A q \in Request : request'[q].step = "insert" =>
          /\ request'[q] = request[q]
          /\ request[q].sid \in LiveSessions'
    BY <1>5 DEF LogoutUpdate, Ends, Locked, RowLocks, LiveSessions, TypeOK, SessionId
  <2>3. QED
    BY <1>5, <2>1, <2>2, NothingOpens DEF LogoutUpdate, history
<1>6. CASE Purge
  <2>1. \A s \in stored' : s \in stored /\ IsRevoked(row'[s]) = IsRevoked(row[s])
    BY <1>6 DEF Purge, IsRevoked, TypeOK, SessionId
  <2>2. LiveSessions' = LiveSessions \ Purgeable
    BY <1>6, <2>1 DEF Purge, LiveSessions
  <2>3. \A q \in Request : request'[q].step = "insert" =>
          /\ request'[q] = request[q]
          /\ request[q].sid \in LiveSessions'
    BY <1>6, <2>2 DEF Purge, Locked, RowLocks
  <2>4. QED
    BY <1>6, <2>2, <2>3, NothingOpens DEF Purge, history
<1>7. ASSUME UNCHANGED <<created, stored, row, root>>,
             \A q \in Request : request'[q].step = "insert" => request'[q] = request[q]
      PROVE RowLocks' /\ OneLivePerLogin'
  <2>1. LiveSessions' = LiveSessions
    BY <1>7 DEF LiveSessions
  <2>2. QED
    BY <1>7, <2>1, NothingOpens DEF RowLocks
<1>8. ASSUME NEW p \in Request,
             \/ \E u \in User : LoginFindTenant(p, u)
             \/ \E s \in SessionId : RefreshFind(p, s)
             \/ \E s \in SessionId : LogoutFind(p, s)
             \/ LoginFindUser(p)
             \/ RefreshCheckTenant(p)
             \/ RefreshCheckUser(p)
             \/ RevokeAllBegin(p)
             \/ Abort(p)
      PROVE RowLocks' /\ OneLivePerLogin'
  <2>1. UNCHANGED <<created, stored, row, root>>
    BY <1>8 DEF LoginFindTenant, RefreshFind, LogoutFind, LoginFindUser, history,
                RefreshCheckTenant, RefreshCheckUser, RevokeAllBegin, Abort
  <2>2. /\ request'[p].step # "insert"
        /\ \A q \in Request \ {p} : request'[q] = request[q]
    BY <1>8 DEF LoginFindTenant, RefreshFind, LogoutFind, LoginFindUser, Goes, Ends,
                RefreshCheckTenant, RefreshCheckUser, RevokeAllBegin, Abort,
                GoesToRevokeAll, TypeOK
  <2>3. QED
    BY <1>7, <2>1, <2>2
<1>9. QED
  BY <1>1, <1>2, <1>3, <1>4, <1>5, <1>6, <1>7, <1>8
  DEF Next, RequestStep, ToggleUser, ToggleTenant, Tick, vars, history

LEMMA InvStep == IInv /\ [Next]_vars => IInv'
BY TypeStep, ClosingCopiesStep, RootsIssuedStep, LocksStep DEF IInv

LEMMA Invariance == Spec => []IInv
BY InvInit, InvStep, PTL DEF Spec

-----------------------------------------------------------------------------
(***************************************************************************)
(* What the history of a session adds to the invariant.                    *)
(***************************************************************************)

\* Ids are handed out in order, and what was exchanged is closed.
ExchangedAreClosed ==
  /\ \A s \in stored : redeemedAt[s] # Never => IsRevoked(row[s])
  /\ \A s \in SessionId \ 1 .. created :
       redeemedAt[s] = Never /\ root[s] = NoSession

\* What an alarm that runs has seen is closed, or in its list to be closed.
AlarmsCover ==
  /\ alarmed \subseteq 1 .. created
  /\ \A p \in Request :
       /\ known[p] \subseteq 1 .. created
       /\ request[p].step = "revoking" =>
            \A s \in known[p] \cap stored :
              s \in request[p].targets \/ IsRevoked(row[s])

HInv == IInv /\ ExchangedAreClosed /\ AlarmsCover /\ AlarmedStayClosed

LEMMA HInit == Init => HInv
<1> SUFFICES ASSUME Init PROVE HInv
  OBVIOUS
<1>1. ExchangedAreClosed
  BY DEF Init, ExchangedAreClosed
<1>2. AlarmsCover /\ AlarmedStayClosed
  BY DEF Init, AlarmsCover, AlarmedStayClosed, Idle, At
<1>3. QED
  BY <1>1, <1>2, InvInit DEF HInv

\* No step reuses an id or reopens a row.
LEMMA NothingReopens ==
  IInv /\ [Next]_vars =>
    /\ 1 .. created \subseteq 1 .. created'
    /\ \A s \in stored' : s \in stored \/ s \notin 1 .. created
    /\ \A s \in stored \cap stored' : IsRevoked(row[s]) => IsRevoked(row'[s])
<1> DEFINE Goal ==
      /\ 1 .. created \subseteq 1 .. created'
      /\ \A s \in stored' : s \in stored \/ s \notin 1 .. created
      /\ \A s \in stored \cap stored' : IsRevoked(row[s]) => IsRevoked(row'[s])
<1> SUFFICES ASSUME IInv, [Next]_vars PROVE Goal
  OBVIOUS
<1> TypeOK /\ ClosingCopies /\ RowLocks
  BY DEF IInv
<1>1. ASSUME NEW p \in Request, LoginStart(p)
      PROVE Goal
  BY <1>1, NextIdIsNext DEF LoginStart, TypeOK
<1>2. ASSUME NEW p \in Request, RotateInsert(p)
      PROVE Goal
  <2> DEFINE s == request[p].sid
  <2>1. \A t \in stored \ {s} : row'[t] = row[t]
    BY <1>2, NextIdIsNext DEF RotateInsert, TypeOK, SessionId
  <2>2. ~IsRevoked(row[s])
    BY <1>2 DEF RotateInsert, RowLocks, LiveSessions
  <2>3. QED
    BY <1>2, <2>1, <2>2, NextIdIsNext DEF RotateInsert, IsRevoked
<1>3. ASSUME NEW p \in Request, RevokeAllCommit(p)
      PROVE Goal
  <2>1. \A s \in SessionId :
          \/ row'[s] = row[s]
          \/ row'[s] = Revoke(row[s], request[p].copy.reason,
                             request[p].copy.revokedAt)
    BY <1>3 DEF RevokeAllCommit
  <2>2. \A s \in SessionId : IsRevoked(row[s]) => row'[s] = row[s]
    BY <2>1 DEF Revoke
  <2>3. QED
    BY <1>3, <2>2 DEF RevokeAllCommit, IsRevoked, TypeOK, SessionId
<1>4. ASSUME NEW p \in Request, LogoutUpdate(p)
      PROVE Goal
  BY <1>4 DEF LogoutUpdate, ClosingCopies, IsRevoked, TypeOK, SessionId, history
<1>5. CASE Purge
  BY <1>5 DEF Purge, IsRevoked, TypeOK, SessionId
<1>6. ASSUME UNCHANGED <<created, stored, row>>
      PROVE Goal
  BY <1>6 DEF IsRevoked
<1>7. QED
  BY <1>1, <1>2, <1>3, <1>4, <1>5, <1>6
  DEF Next, RequestStep, LoginFindTenant, RefreshFind, LogoutFind, LoginFindUser,
      RefreshCheckTenant, RefreshCheckUser, RotateUpdate, RevokeAllBegin, Abort,
      ToggleUser, ToggleTenant, Tick, vars

LEMMA ExchangedAreClosedStep ==
  HInv /\ [Next]_vars =>
    /\ ExchangedAreClosed'
    /\ \A s \in SessionId : redeemedAt[s] # Never => redeemedAt'[s] = redeemedAt[s]
<1> DEFINE Goal ==
      /\ ExchangedAreClosed'
      /\ \A s \in SessionId : redeemedAt[s] # Never => redeemedAt'[s] = redeemedAt[s]
<1> SUFFICES ASSUME HInv, [Next]_vars PROVE Goal
  OBVIOUS
<1> TypeOK /\ ClosingCopies /\ RowLocks /\ ExchangedAreClosed /\ IInv
  BY DEF HInv, IInv
<1>1. ASSUME NEW p \in Request, LoginStart(p)
      PROVE Goal
  <2>1. SessionId \ 1 .. created' \subseteq SessionId \ (1 .. created \cup {NextId})
    BY <1>1, NextIdIsNext DEF LoginStart
  <2>2. \A s \in stored : row'[s] = row[s]
    BY <1>1, NextIdIsNext DEF LoginStart, TypeOK, SessionId
  <2>3. redeemedAt' = redeemedAt /\ redeemedAt[NextId] = Never
    BY <1>1, NextIdIsNext DEF LoginStart, ExchangedAreClosed
  <2>4. \A s \in SessionId \ {NextId} : root'[s] = root[s]
    BY <1>1 DEF LoginStart, TypeOK
  <2>5. QED
    BY <1>1, <2>1, <2>2, <2>3, <2>4 DEF LoginStart, ExchangedAreClosed, IsRevoked
<1>2. ASSUME NEW p \in Request, RotateInsert(p)
      PROVE Goal
  <2> DEFINE s == request[p].sid
  <2>1. /\ s \in stored /\ s \in SessionId /\ s \in 1 .. created
        /\ ~IsRevoked(row[s])
    BY <1>2 DEF RotateInsert, RowLocks, LiveSessions, TypeOK, SessionId
  <2>2. redeemedAt[s] = Never
    BY <2>1 DEF ExchangedAreClosed
  <2>3. SessionId \ 1 .. created' \subseteq SessionId \ (1 .. created \cup {NextId})
    BY <1>2, NextIdIsNext DEF RotateInsert
  <2>4. \A t \in SessionId \ {s} : redeemedAt'[t] = redeemedAt[t]
    BY <1>2 DEF RotateInsert, TypeOK
  <2>5. redeemedAt'[NextId] = Never
    BY <1>2, <2>1, <2>4, NextIdIsNext DEF RotateInsert, ExchangedAreClosed
  <2>6. IsRevoked(row'[s])
    BY <1>2, <2>1, NextIdIsNext
    DEF RotateInsert, ClosingCopies, IsRevoked, TypeOK, Row, Live
  <2>7. \A t \in stored \ {s} : row'[t] = row[t]
    BY <1>2, NextIdIsNext DEF RotateInsert, TypeOK, SessionId
  <2>8. \A t \in SessionId \ {NextId} : root'[t] = root[t]
    BY <1>2 DEF RotateInsert, TypeOK
  <2>9. \A t \in stored' : redeemedAt'[t] # Never => IsRevoked(row'[t])
    <3>1. \A t \in stored \ {s} : redeemedAt'[t] # Never => IsRevoked(row'[t])
      BY <2>4, <2>7 DEF ExchangedAreClosed, IsRevoked, TypeOK, SessionId
    <3>2. QED
      BY <1>2, <2>5, <2>6, <3>1 DEF RotateInsert
  <2>10. \A t \in SessionId \ 1 .. created' :
           redeemedAt'[t] = Never /\ root'[t] = NoSession
    BY <2>1, <2>3, <2>4, <2>8 DEF ExchangedAreClosed
  <2>11. QED
    BY <2>2, <2>4, <2>9, <2>10 DEF ExchangedAreClosed
<1>3. ASSUME UNCHANGED <<created, redeemedAt, root>>, stored' \subseteq stored
      PROVE Goal
  BY <1>3, NothingReopens DEF ExchangedAreClosed
<1>4. QED
  BY <1>1, <1>2, <1>3
  DEF Next, RequestStep, LoginFindTenant, RefreshFind, LogoutFind, LoginFindUser,
      RefreshCheckTenant, RefreshCheckUser, RotateUpdate, RevokeAllBegin,
      RevokeAllCommit, LogoutUpdate, Abort, Purge, ToggleUser, ToggleTenant, Tick,
      vars, history

LEMMA AlarmsStep ==
  HInv /\ [Next]_vars => AlarmsCover' /\ AlarmedStayClosed'
<1> SUFFICES ASSUME HInv, [Next]_vars PROVE AlarmsCover' /\ AlarmedStayClosed'
  OBVIOUS
<1> TypeOK /\ ClosingCopies /\ IInv /\ AlarmsCover /\ AlarmedStayClosed
  BY DEF HInv, IInv
<1> USE DEF Idle, At
<1>1. /\ 1 .. created \subseteq 1 .. created'
      /\ \A s \in stored' \cap 1 .. created : s \in stored
      /\ \A s \in stored' \cap 1 .. created : IsRevoked(row[s]) => IsRevoked(row'[s])
  BY NothingReopens
<1>2. alarmed' = alarmed => AlarmedStayClosed'
  BY <1>1 DEF AlarmedStayClosed, AlarmsCover
<1>3. ASSUME NEW p \in Request, RevokeAllBegin(p)
      PROVE AlarmsCover' /\ AlarmedStayClosed'
  <2>1. \A s \in known'[p] \cap stored :
          s \in request'[p].targets \/ IsRevoked(row[s])
    BY <1>3 DEF RevokeAllBegin, LiveRowsOf, TypeOK
  <2>2. known'[p] \subseteq 1 .. created
    BY <1>3 DEF RevokeAllBegin, TypeOK
  <2>3. \A q \in Request \ {p} : known'[q] = known[q] /\ request'[q] = request[q]
    BY <1>3 DEF RevokeAllBegin, TypeOK
  <2>4. QED
    BY <1>2, <1>3, <2>1, <2>2, <2>3 DEF RevokeAllBegin, AlarmsCover
<1>4. ASSUME NEW p \in Request, RevokeAllCommit(p)
      PROVE AlarmsCover' /\ AlarmedStayClosed'
  <2>1. \A s \in stored \cap request[p].targets : IsRevoked(row'[s])
    <3>1. stored \subseteq SessionId
      BY DEF TypeOK, SessionId
    <3>2. /\ request[p].copy.revokedAt \in Time
          /\ request[p].copy.reason \in Reason \ {Live}
      BY <1>4, RequestFields DEF RevokeAllCommit, ClosingCopies, IsRevoked
    <3>3. QED
      BY <1>4, <3>1, <3>2, RevokeCloses DEF RevokeAllCommit, TypeOK
  <2>2. \A s \in stored \cap known[p] : IsRevoked(row'[s])
    BY <1>1, <1>4, <2>1 DEF RevokeAllCommit, AlarmsCover
  <2>3. alarmed' \subseteq alarmed \cup known[p] /\ stored' = stored /\ created' = created
    BY <1>4 DEF RevokeAllCommit
  <2>4. AlarmedStayClosed'
    BY <1>1, <2>2, <2>3 DEF AlarmedStayClosed, AlarmsCover
  <2>5. /\ known'[p] = {}
        /\ request'[p].step = "idle"
        /\ \A q \in Request \ {p} : known'[q] = known[q] /\ request'[q] = request[q]
    BY <1>4 DEF RevokeAllCommit, Ends, TypeOK
  <2>6. AlarmsCover'
    BY <1>1, <2>3, <2>5 DEF AlarmsCover
  <2>7. QED
    BY <2>4, <2>6
<1>5. ASSUME NEW p \in Request, Abort(p)
      PROVE AlarmsCover' /\ AlarmedStayClosed'
  <2>1. /\ known'[p] = {}
        /\ request'[p].step = "idle"
        /\ \A q \in Request \ {p} : known'[q] = known[q] /\ request'[q] = request[q]
    BY <1>5 DEF Abort, Ends, TypeOK
  <2>2. QED
    BY <1>2, <1>5, <2>1 DEF Abort, AlarmsCover
<1>6. ASSUME UNCHANGED <<known, alarmed>>,
             \A q \in Request : request'[q].step = "revoking" => request'[q] = request[q]
      PROVE AlarmsCover' /\ AlarmedStayClosed'
  BY <1>1, <1>2, <1>6 DEF AlarmsCover
<1>7. ASSUME NEW p \in Request,
             \/ \E u \in User : LoginFindTenant(p, u)
             \/ \E s \in SessionId : RefreshFind(p, s)
             \/ \E s \in SessionId : LogoutFind(p, s)
             \/ LoginFindUser(p)
             \/ LoginStart(p)
             \/ RefreshCheckTenant(p)
             \/ RefreshCheckUser(p)
             \/ RotateUpdate(p)
             \/ RotateInsert(p)
             \/ LogoutUpdate(p)
      PROVE AlarmsCover' /\ AlarmedStayClosed'
  <2>1. UNCHANGED <<known, alarmed>>
    BY <1>7 DEF LoginFindTenant, RefreshFind, LogoutFind, LoginFindUser, LoginStart,
                RefreshCheckTenant, RefreshCheckUser, RotateUpdate, RotateInsert,
                LogoutUpdate, history, alarms
  <2>2. /\ request'[p].step # "revoking"
        /\ \A q \in Request \ {p} : request'[q] = request[q]
    BY <1>7 DEF LoginFindTenant, RefreshFind, LogoutFind, LoginFindUser, LoginStart,
                RefreshCheckTenant, RefreshCheckUser, RotateUpdate, RotateInsert,
                LogoutUpdate, Goes, Ends, GoesToRevokeAll, TypeOK
  <2>3. QED
    BY <1>6, <2>1, <2>2
<1>8. QED
  BY <1>3, <1>4, <1>5, <1>6, <1>7
  DEF Next, RequestStep, ToggleUser, ToggleTenant, Purge, Tick, vars, history, alarms

LEMMA HInvariance == Spec => []HInv
<1>1. HInv /\ [Next]_vars => HInv'
  BY InvStep, ExchangedAreClosedStep, AlarmsStep DEF HInv
<1>2. QED
  BY <1>1, HInit, PTL DEF Spec

-----------------------------------------------------------------------------
(***************************************************************************)
(* The chain of rotations.  A row can be written back by a logout that     *)
(* read it earlier, so whatever is said of a row must be said of the       *)
(* copies of it as well.                                                   *)
(***************************************************************************)

\* Session n may follow s in the chain.
Succeeds(s, n) ==
  /\ n \in stored
  /\ n \in s + 1 .. created
  /\ row[n].user = row[s].user
  /\ root[n] = root[s]
  /\ row[s].createdAt <= row[n].createdAt

\* The columns r may stand in the row of session s.
Fits(s, r) ==
  /\ r.user = row[s].user
  /\ r.createdAt = row[s].createdAt
  /\ (r.replacedBy # NoSession) <=> (r.reason = "ROTATED")
  /\ r.reason = "ROTATED" => redeemedAt[s] = r.revokedAt /\ Succeeds(s, r.replacedBy)

RowsFit ==
  /\ \A s \in stored : Fits(s, row[s]) /\ row[s].createdAt <= now
  /\ \A p \in Request :
       request[p].step = "logout" =>
         /\ request[p].sid \in 1 .. created
         /\ request[p].sid \in stored => Fits(request[p].sid, request[p].copy)

\* Session s has n as its successor, or a logout may write that it has.
Claims(s, n) ==
  \/ row[s].replacedBy = n
  \/ \E p \in Request :
       request[p].step = "logout" /\ request[p].sid = s /\ request[p].copy.replacedBy = n

OneOrigin ==
  \A s, t \in stored, n \in SessionId : Claims(s, n) /\ Claims(t, n) => s = t

\* What a refresh, an alarm and the end of an account remember.
CopiesFit ==
  \A p \in Request :
    LET s == request[p].sid
        copy == request[p].copy
    IN
    /\ request[p].step \in {"tenant", "user", "rotate", "insert"} =>
         /\ s \in 1 .. created
         /\ s \in stored => copy.user = row[s].user /\ copy.createdAt = row[s].createdAt
         /\ copy.createdAt <= now
    /\ request[p].step \in {"tenant", "user"} => copy.reason = Live
    /\ request[p].step \in {"rotate", "insert"} =>
         /\ copy.reason = "ROTATED"
         /\ copy.revokedAt \in copy.createdAt .. now
    /\ request[p].step \in {"revokeAll", "revoking"} =>
         s \in 1 .. created /\ copy.reason \in {"REUSE_DETECTED", "REVOKED"}

CInv == HInv /\ RowsFit /\ OneOrigin /\ CopiesFit /\ AlarmOnlyAfterExchange

\* Every step keeps the owner, the age and the login of a session, and the
\* place of its successor.
LEMMA SuccessorsStay ==
  CInv /\ [Next]_vars =>
    /\ now <= now' /\ 1 .. created \subseteq 1 .. created'
    /\ \A s \in stored \cap stored' :
         row'[s].user = row[s].user /\ row'[s].createdAt = row[s].createdAt
    /\ \A s \in stored \cap stored' : root'[s] = root[s]
    /\ \A s \in stored \cap stored', n \in SessionId : Succeeds(s, n) => Succeeds(s, n)'
<1> DEFINE Owned == \A s \in stored \cap stored' :
               row'[s].user = row[s].user /\ row'[s].createdAt = row[s].createdAt
           Rooted == \A s \in stored \cap stored' : root'[s] = root[s]
           Goal == \A s \in stored \cap stored', n \in SessionId : Succeeds(s, n) => Succeeds(s, n)'
<1> SUFFICES ASSUME CInv, [Next]_vars
             PROVE  now <= now' /\ 1 .. created \subseteq 1 .. created' /\ Owned /\ Rooted /\ Goal
  OBVIOUS
<1> TypeOK /\ RowsFit /\ RowLocks
  BY DEF CInv, HInv, IInv
<1>1. 1 .. created \subseteq 1 .. created' /\ now <= now'
  <2>1. now' = now \/ now' = now + 1
    BY DEF Next, RequestStep, LoginFindTenant, RefreshFind, LogoutFind, LoginFindUser,
           LoginStart, RotateInsert, RevokeAllCommit, LogoutUpdate, Purge,
           RefreshCheckTenant, RefreshCheckUser, RotateUpdate, RevokeAllBegin, Abort,
           ToggleUser, ToggleTenant, Tick, vars
  <2>2. QED
    BY <2>1, NothingReopens DEF CInv, HInv, TypeOK, Time
<1>2. ASSUME NEW p \in Request, LoginStart(p)
      PROVE Owned /\ Rooted
  BY <1>2, NextIdIsNext DEF LoginStart, TypeOK, SessionId
<1>3. ASSUME NEW p \in Request, RotateInsert(p)
      PROVE Owned /\ Rooted
  <2> DEFINE s == request[p].sid
  <2>1. s \in stored /\ s \in SessionId /\ s # NextId
    BY <1>3, NextIdIsNext DEF RotateInsert, RowLocks, LiveSessions, TypeOK, SessionId
  <2>2. \A t \in stored \ {s} : row'[t] = row[t]
    BY <1>3, NextIdIsNext DEF RotateInsert, TypeOK, SessionId
  <2>3. row'[s].user = row[s].user /\ row'[s].createdAt = row[s].createdAt
    BY <1>3, <2>1 DEF RotateInsert, TypeOK, Row
  <2>4. \A t \in stored : root'[t] = root[t]
    BY <1>3, NextIdIsNext DEF RotateInsert, TypeOK, SessionId
  <2>5. QED
    BY <2>2, <2>3, <2>4
<1>4. ASSUME NEW p \in Request, RevokeAllCommit(p)
      PROVE Owned /\ Rooted
  <2>1. \A s \in SessionId :
          \/ row'[s] = row[s]
          \/ row'[s] = Revoke(row[s], request[p].copy.reason, request[p].copy.revokedAt)
    BY <1>4 DEF RevokeAllCommit
  <2>2. \A r \in Row : \A e, at : /\ Revoke(r, e, at).user = r.user
                                  /\ Revoke(r, e, at).createdAt = r.createdAt
    BY DEF Revoke, Row
  <2>3. row \in [SessionId -> Row] /\ stored \subseteq SessionId
    BY DEF TypeOK, SessionId
  <2>4. Owned
    BY <2>1, <2>2, <2>3
  <2>5. root' = root
    BY <1>4 DEF RevokeAllCommit
  <2>6. QED
    BY <2>4, <2>5
<1>5. ASSUME NEW p \in Request, LogoutUpdate(p)
      PROVE Owned /\ Rooted
  BY <1>5 DEF LogoutUpdate, RowsFit, Fits, TypeOK, SessionId, history
<1>6. ASSUME Purge
      PROVE Owned /\ Rooted
  <2> DEFINE Unlinked(r) == [r EXCEPT !.replacedBy = NoSession]
  <2>1. stored' = stored \ Purgeable /\ stored \subseteq SessionId
    BY <1>6 DEF Purge, TypeOK, SessionId
  <2>2. \A s \in SessionId \ Purgeable : row'[s] = row[s] \/ row'[s] = Unlinked(row[s])
    <3>1. \A s \in SessionId \ Purgeable :
            row'[s] = IF row[s].replacedBy \in Purgeable THEN Unlinked(row[s]) ELSE row[s]
      BY <1>6 DEF Purge
    <3> HIDE DEF Unlinked
    <3>2. QED
      BY <3>1
  <2>3. \A r \in Row : Unlinked(r).user = r.user /\ Unlinked(r).createdAt = r.createdAt
    BY DEF Row
  <2>4. row \in [SessionId -> Row]
    BY DEF TypeOK
  <2>5. \A s \in SessionId \ Purgeable :
          row'[s].user = row[s].user /\ row'[s].createdAt = row[s].createdAt
    <3> HIDE DEF Unlinked
    <3> QED
      BY <2>2, <2>3, <2>4
  <2>6. root' = root
    BY <1>6 DEF Purge, history
  <2>7. QED
    BY <2>1, <2>5, <2>6
<1>7. ASSUME UNCHANGED <<row, root>>
      PROVE Owned /\ Rooted
  BY <1>7
<1>8. Owned /\ Rooted
  BY <1>2, <1>3, <1>4, <1>5, <1>6, <1>7
  DEF Next, RequestStep, LoginFindTenant, RefreshFind, LogoutFind, LoginFindUser,
      RefreshCheckTenant, RefreshCheckUser, RotateUpdate, RevokeAllBegin, Abort,
      ToggleUser, ToggleTenant, Tick, vars, history
<1>9. \A s \in stored \cap stored', n \in SessionId : Succeeds(s, n) => n \in stored'
  <2>1. CASE Purge
    BY <2>1 DEF Purge, Purgeable, Succeeds, TypeOK, Row, Time, SessionId
  <2>2. CASE stored \subseteq stored'
    BY <2>2 DEF Succeeds
  <2>3. QED
    BY <2>1, <2>2
    DEF Next, RequestStep, LoginFindTenant, RefreshFind, LogoutFind, LoginFindUser,
        LoginStart, RotateInsert, RevokeAllCommit, LogoutUpdate,
        RefreshCheckTenant, RefreshCheckUser, RotateUpdate, RevokeAllBegin, Abort,
        ToggleUser, ToggleTenant, Tick, vars
<1>10. Goal
  <2> SUFFICES ASSUME NEW s \in stored \cap stored', NEW n \in SessionId, Succeeds(s, n)
               PROVE  Succeeds(s, n)'
    OBVIOUS
  <2>1. n \in stored \cap stored'
    BY <1>9 DEF Succeeds
  <2>2. created \in Nat /\ created' \in Nat /\ s \in Nat
    <3>1. TypeOK'
      BY TypeStep DEF CInv, HInv
    <3>2. QED
      BY <3>1 DEF TypeOK
  <2>3. n \in s + 1 .. created'
    BY <1>1, <2>2 DEF Succeeds
  <2>4. QED
    BY <1>8, <2>1, <2>3 DEF Succeeds
<1>11. QED
  BY <1>1, <1>8, <1>10

\* What fits a session goes on fitting it.
LEMMA FitsStay ==
  CInv /\ [Next]_vars =>
    \A s \in stored \cap stored', r \in Row : Fits(s, r) => Fits(s, r)'
<1> SUFFICES ASSUME CInv, [Next]_vars,
                    NEW s \in stored \cap stored', NEW r \in Row, Fits(s, r)
             PROVE  Fits(s, r)'
  OBVIOUS
<1>1. s \in SessionId /\ r.revokedAt \in Time /\ r.replacedBy \in SessionId \cup {NoSession}
  BY DEF CInv, HInv, IInv, TypeOK, SessionId, Row
<1>2. r.user = row'[s].user /\ r.createdAt = row'[s].createdAt
  BY SuccessorsStay DEF Fits
<1>3. ASSUME r.reason = "ROTATED"
      PROVE  redeemedAt'[s] = r.revokedAt /\ Succeeds(s, r.replacedBy)'
  <2>1. redeemedAt[s] = r.revokedAt /\ redeemedAt[s] # Never
    BY <1>1, <1>3 DEF Fits, Time, Never
  <2>2. redeemedAt'[s] = redeemedAt[s]
    BY <1>1, <2>1, ExchangedAreClosedStep DEF CInv
  <2>3. r.replacedBy \in SessionId /\ Succeeds(s, r.replacedBy)
    BY <1>1, <1>3 DEF Fits
  <2>4. QED
    BY <2>1, <2>2, <2>3, SuccessorsStay
<1>4. QED
  BY <1>2, <1>3 DEF Fits

\* A step of request p.
Moves(p) ==
  \/ \E u \in User : LoginFindTenant(p, u)
  \/ \E s \in SessionId : RefreshFind(p, s)
  \/ \E s \in SessionId : LogoutFind(p, s)
  \/ RequestStep(p)
  \/ Abort(p)

LEMMA WhoMoves ==
  [Next]_vars => (\E p \in Request : Moves(p)) \/ UNCHANGED request
BY DEF Next, Moves, ToggleUser, ToggleTenant, Purge, Tick, vars

LEMMA OthersWait ==
  TypeOK => \A p \in Request : Moves(p) =>
              \A q \in Request \ {p} : request'[q] = request[q]
<1> SUFFICES ASSUME TypeOK, NEW p \in Request, Moves(p), NEW q \in Request \ {p}
             PROVE  request'[q] = request[q]
  OBVIOUS
<1>1. ASSUME NEW r, request' = [request EXCEPT ![p] = r]
      PROVE  request'[q] = request[q]
  BY <1>1 DEF TypeOK
<1>2. \E r : request' = [request EXCEPT ![p] = r]
  <2>1. CASE \/ \E u \in User : LoginFindTenant(p, u)
             \/ \E s \in SessionId : RefreshFind(p, s)
             \/ \E s \in SessionId : LogoutFind(p, s)
             \/ Abort(p)
    BY <2>1 DEF LoginFindTenant, RefreshFind, LogoutFind, Abort, Ends, GoesToRevokeAll
  <2>2. CASE LoginFindUser(p) \/ LoginStart(p) \/ RefreshCheckTenant(p) \/ RefreshCheckUser(p)
    BY <2>2 DEF LoginFindUser, LoginStart, RefreshCheckTenant, RefreshCheckUser,
                Goes, Ends, GoesToRevokeAll
  <2>3. CASE \/ RotateUpdate(p) \/ RotateInsert(p) \/ RevokeAllBegin(p)
             \/ RevokeAllCommit(p) \/ LogoutUpdate(p)
    BY <2>3 DEF RotateUpdate, RotateInsert, RevokeAllBegin, RevokeAllCommit, LogoutUpdate,
                Goes, Ends
  <2>4. QED
    BY <2>1, <2>2, <2>3 DEF Moves, RequestStep
<1>3. QED
  BY <1>1, <1>2

\* What a revocation, and a row made for one, holds.
LEMMA RevokeFields ==
  \A r \in Row, e \in Reason, t \in Time :
    /\ Revoke(r, e, t).user = r.user
    /\ Revoke(r, e, t).createdAt = r.createdAt
    /\ Revoke(r, e, t).replacedBy = r.replacedBy
    /\ r.reason = Live => Revoke(r, e, t).reason = e /\ Revoke(r, e, t).revokedAt = t
    /\ r.reason # Live => Revoke(r, e, t) = r
BY DEF Revoke, IsRevoked, Row

LEMMA CreatedIsClosed ==
  \A u \in User \cup {Nobody}, e \in Reason, t \in Time :
    LET r == Revoke(Create(u, t), e, t) IN r.user = u /\ r.reason = e /\ r.revokedAt = t
<1>1. \A u \in User \cup {Nobody}, t \in Time : Create(u, t).reason = Live /\ Create(u, t).user = u
  BY DEF Create
<1>2. QED
  BY <1>1, RowTypes, RevokeFields

LEMMA CopiesFitStep == CInv /\ [Next]_vars => CopiesFit'
<1> SUFFICES ASSUME CInv, [Next]_vars PROVE CopiesFit'
  OBVIOUS
<1> TypeOK /\ RowsFit /\ CopiesFit
  BY DEF CInv, HInv, IInv
<1> USE DEF Idle, At
<1> DEFINE Kept(q, r) ==
      LET s == r.sid
          copy == r.copy
      IN
      /\ r.step \in {"tenant", "user", "rotate", "insert"} =>
           /\ s \in 1 .. created'
           /\ s \in stored' => copy.user = row'[s].user /\ copy.createdAt = row'[s].createdAt
           /\ copy.createdAt <= now'
      /\ r.step \in {"tenant", "user"} => copy.reason = Live
      /\ r.step \in {"rotate", "insert"} =>
           /\ copy.reason = "ROTATED"
           /\ copy.revokedAt \in copy.createdAt .. now'
      /\ r.step \in {"revokeAll", "revoking"} =>
           s \in 1 .. created' /\ copy.reason \in {"REUSE_DETECTED", "REVOKED"}
<1>0. /\ now \in Nat /\ now' \in Nat
      /\ \A q \in Request : request[q].copy.createdAt \in Nat /\ request[q].copy.revokedAt \in Nat
      /\ \A s \in stored : row[s].createdAt \in Nat
  <2>1. TypeOK'
    BY TypeStep DEF CInv, HInv
  <2>2. \A r \in Row : r.createdAt \in Nat /\ r.revokedAt \in Nat
    BY DEF Row, Time
  <2>3. QED
    BY <2>1, <2>2, RequestFields DEF TypeOK, Time, SessionId
<1>1. ASSUME NEW q \in Request, request'[q] = request[q]
      PROVE  Kept(q, request[q])
  <2> DEFINE s == request[q].sid
  <2>1. s \in stored' /\ s \in 1 .. created => s \in stored
    BY NothingReopens DEF CInv, HInv
  <2>2. request[q].step \in {"tenant", "user", "rotate", "insert"} =>
          /\ s \in 1 .. created'
          /\ s \in stored' => /\ request[q].copy.user = row'[s].user
                              /\ request[q].copy.createdAt = row'[s].createdAt
          /\ request[q].copy.createdAt <= now'
    BY <1>0, <2>1, SuccessorsStay DEF CopiesFit
  <2>3. request[q].step \in {"revokeAll", "revoking"} => s \in 1 .. created'
    BY SuccessorsStay DEF CopiesFit
  <2>4. /\ request[q].step \in {"tenant", "user"} => request[q].copy.reason = Live
        /\ request[q].step \in {"rotate", "insert"} => request[q].copy.reason = "ROTATED"
        /\ request[q].step \in {"revokeAll", "revoking"} =>
             request[q].copy.reason \in {"REUSE_DETECTED", "REVOKED"}
    BY DEF CopiesFit
  <2>5. request[q].step \in {"rotate", "insert"} =>
          request[q].copy.revokedAt \in request[q].copy.createdAt .. now'
    BY <1>0, SuccessorsStay DEF CopiesFit
  <2>6. QED
    BY <2>2, <2>3, <2>4, <2>5
<1>2. SUFFICES ASSUME NEW p \in Request, Moves(p)
               PROVE  Kept(p, request'[p])
  BY <1>1, OthersWait, WhoMoves DEF CopiesFit
<1>3. ASSUME NEW s \in SessionId, RefreshFind(p, s)
      PROVE  Kept(p, request'[p])
  <2>1. CASE /\ RaisesAlarm(row[s])
             /\ GoesToRevokeAll(p, s, row[s].user, "REUSE_DETECTED")
    <3>1. request'[p] = At("revokeAll", s, Revoke(Create(row[s].user, now), "REUSE_DETECTED", now))
      BY <2>1 DEF GoesToRevokeAll, TypeOK
    <3>2. row[s].user \in User \cup {Nobody} /\ now \in Time
      BY DEF TypeOK, Row
    <3>3. Revoke(Create(row[s].user, now), "REUSE_DETECTED", now).reason = "REUSE_DETECTED"
      BY <3>2, CreatedIsClosed DEF Reason
    <3>4. s \in 1 .. created'
      BY <1>3 DEF RefreshFind, TypeOK
    <3>5. QED
      BY <3>1, <3>3, <3>4
  <2>2. CASE ~IsRevoked(row[s]) /\ request' = [request EXCEPT ![p] = At("tenant", s, row[s])]
    <3>1. request'[p] = At("tenant", s, row[s]) /\ s \in stored /\ UNCHANGED <<now, created, stored, row>>
      BY <1>3, <2>2 DEF RefreshFind, TypeOK
    <3>2. QED
      BY <2>2, <3>1 DEF RowsFit, IsRevoked, TypeOK
  <2>3. QED
    BY <1>3, <2>1, <2>2 DEF RefreshFind
<1>4. ASSUME RefreshCheckTenant(p)
      PROVE  Kept(p, request'[p])
  <2>1. \/ request'[p] = At("user", request[p].sid, request[p].copy)
        \/ request'[p] = At("revokeAll", request[p].sid,
                           Revoke(Create(request[p].copy.user, now), "REVOKED", now))
    BY <1>4 DEF RefreshCheckTenant, Goes, GoesToRevokeAll, TypeOK
  <2>2. Revoke(Create(request[p].copy.user, now), "REVOKED", now).reason = "REVOKED"
    BY RequestFields, CreatedIsClosed DEF TypeOK, Reason
  <2>3. request[p].step = "tenant" /\ UNCHANGED <<now, created, stored, row>>
    BY <1>4 DEF RefreshCheckTenant
  <2>4. QED
    BY <2>1, <2>2, <2>3 DEF CopiesFit
<1>5. ASSUME RefreshCheckUser(p)
      PROVE  Kept(p, request'[p])
  <2> DEFINE copy == request[p].copy
  <2>1. \/ request'[p] = At("rotate", request[p].sid, Revoke(copy, "ROTATED", now))
        \/ request'[p] = At("revokeAll", request[p].sid,
                           Revoke(Create(copy.user, now), "REVOKED", now))
    BY <1>5 DEF RefreshCheckUser, GoesToRevokeAll, TypeOK
  <2>2. Revoke(Create(copy.user, now), "REVOKED", now).reason = "REVOKED"
    BY RequestFields, CreatedIsClosed DEF TypeOK, Reason
  <2>3. request[p].step = "user" /\ UNCHANGED <<now, created, stored, row>>
    BY <1>5 DEF RefreshCheckUser
  <2>4. copy.reason = Live
    BY <2>3 DEF CopiesFit
  <2>5. LET r == Revoke(copy, "ROTATED", now)
        IN  /\ r.user = copy.user /\ r.createdAt = copy.createdAt
            /\ r.reason = "ROTATED" /\ r.revokedAt = now
    BY <2>4, RequestFields, RevokeFields DEF TypeOK, Reason
  <2>6. QED
    BY <1>0, <2>1, <2>2, <2>3, <2>5 DEF CopiesFit
<1>6. ASSUME RotateUpdate(p)
      PROVE  Kept(p, request'[p])
  BY <1>0, <1>6 DEF RotateUpdate, CopiesFit, Goes, Ends, TypeOK
<1>7. ASSUME RevokeAllBegin(p)
      PROVE  Kept(p, request'[p])
  BY <1>7 DEF RevokeAllBegin, CopiesFit, TypeOK
<1>8. ASSUME request'[p].step \in {"idle", "loginUser", "loginStart", "logout"}
      PROVE  Kept(p, request'[p])
  BY <1>8
<1>9. ASSUME \/ \E u \in User : LoginFindTenant(p, u)
             \/ \E s \in SessionId : LogoutFind(p, s)
             \/ LoginFindUser(p) \/ LoginStart(p) \/ RotateInsert(p)
             \/ RevokeAllCommit(p) \/ LogoutUpdate(p) \/ Abort(p)
      PROVE  request'[p].step \in {"idle", "loginUser", "loginStart", "logout"}
  BY <1>9 DEF LoginFindTenant, LogoutFind, LoginFindUser, LoginStart, RotateInsert,
              RevokeAllCommit, LogoutUpdate, Abort, Goes, Ends, TypeOK
<1>10. QED
  BY <1>2, <1>3, <1>4, <1>5, <1>6, <1>7, <1>8, <1>9 DEF Moves, RequestStep

\* How the row of a session may change: not at all, by being inserted, by the
\* revocation of a live row, by what a logout writes back, or by its exchange.
Changes(s) ==
  \/ s \in stored /\ row'[s] = row[s]
  \/ /\ s = NextId /\ created' = NextId
     /\ \E u \in User \cup {Nobody}, t \in Time : row'[s] = Create(u, t) /\ t <= now
  \/ /\ s \in stored /\ row[s].reason = Live
     /\ \E e \in {"REUSE_DETECTED", "REVOKED"}, t \in Time : row'[s] = Revoke(row[s], e, t)
  \/ /\ s \in stored
     /\ \E p \in Request : /\ request[p].step = "logout" /\ request[p].sid = s
                           /\ row'[s] = request[p].copy
  \/ \E p \in Request : RotateInsert(p) /\ request[p].sid = s

LEMMA RowChanges == CInv /\ [Next]_vars => \A s \in stored' : Changes(s)
<1> SUFFICES ASSUME CInv, [Next]_vars, NEW s \in stored' PROVE Changes(s)
  OBVIOUS
<1> TypeOK /\ RowsFit /\ RowLocks /\ CopiesFit
  BY DEF CInv, HInv, IInv
<1>1. ASSUME NEW p \in Request, LoginStart(p)
      PROVE Changes(s)
  <2>1. CASE s = NextId
    <3>1. /\ request[p].copy.user \in User \cup {Nobody} /\ now \in Time /\ now <= now
          /\ NextId \in SessionId
      BY <1>1, RequestFields, NextIdIsNext DEF LoginStart, TypeOK, Time
    <3>2. row'[s] = Create(request[p].copy.user, now) /\ created' = NextId
      BY <1>1, <2>1, <3>1 DEF LoginStart, TypeOK
    <3>3. QED
      BY <2>1, <3>1, <3>2 DEF Changes
  <2>2. CASE s # NextId
    <3>1. s \in stored /\ row'[s] = row[s]
      BY <1>1, <2>2 DEF LoginStart, TypeOK, SessionId
    <3>2. QED
      BY <3>1 DEF Changes
  <2>3. QED
    BY <2>1, <2>2
<1>2. ASSUME NEW p \in Request, RotateInsert(p)
      PROVE Changes(s)
  <2> DEFINE copy == request[p].copy
  <2>1. CASE s = NextId
    <3>1. /\ copy.user \in User \cup {Nobody} /\ copy.revokedAt \in Time
          /\ copy.revokedAt <= now /\ NextId \in SessionId
      BY <1>2, RequestFields, NextIdIsNext DEF RotateInsert, TypeOK, CopiesFit
    <3>2. row'[s] = Create(copy.user, copy.revokedAt) /\ created' = NextId
      BY <1>2, <2>1, <3>1 DEF RotateInsert, TypeOK
    <3>3. QED
      BY <2>1, <3>1, <3>2 DEF Changes
  <2>2. CASE s # NextId /\ s # request[p].sid
    <3>1. s \in stored /\ row'[s] = row[s]
      BY <1>2, <2>2 DEF RotateInsert, TypeOK, SessionId
    <3>2. QED
      BY <3>1 DEF Changes
  <2>3. CASE s = request[p].sid
    BY <1>2, <2>3 DEF Changes
  <2>4. QED
    BY <2>1, <2>2, <2>3
<1>3. ASSUME NEW p \in Request, RevokeAllCommit(p)
      PROVE Changes(s)
  <2> DEFINE copy == request[p].copy
  <2>1. s \in stored /\ s \in SessionId
    BY <1>3 DEF RevokeAllCommit, TypeOK, SessionId
  <2>2. row'[s] = row[s] \/ row'[s] = Revoke(row[s], copy.reason, copy.revokedAt)
    BY <1>3, <2>1 DEF RevokeAllCommit
  <2>3. row[s].reason # Live => Revoke(row[s], copy.reason, copy.revokedAt) = row[s]
    BY DEF Revoke, IsRevoked
  <2>4. copy.reason \in {"REUSE_DETECTED", "REVOKED"} /\ copy.revokedAt \in Time
    BY <1>3, RequestFields DEF RevokeAllCommit, CopiesFit
  <2>5. QED
    BY <2>1, <2>2, <2>3, <2>4 DEF Changes
<1>4. ASSUME NEW p \in Request, LogoutUpdate(p)
      PROVE Changes(s)
  <2>1. s \in stored /\ request[p].step = "logout"
    BY <1>4 DEF LogoutUpdate
  <2>2. row'[s] = row[s] \/ (s = request[p].sid /\ row'[s] = request[p].copy)
    BY <1>4, <2>1 DEF LogoutUpdate, TypeOK, SessionId
  <2>3. QED
    BY <2>1, <2>2 DEF Changes
<1>5. ASSUME Purge
      PROVE Changes(s)
  <2>1. s \in stored /\ s \notin Purgeable /\ s \in SessionId
    BY <1>5 DEF Purge, TypeOK, SessionId
  <2>2. row[s].replacedBy \notin Purgeable
    <3> SUFFICES ASSUME row[s].replacedBy \in Purgeable PROVE FALSE
      OBVIOUS
    <3> DEFINE n == row[s].replacedBy
    <3>1. n \in stored /\ n # NoSession
      BY DEF Purgeable, TypeOK, NoSession
    <3>2. row[s].createdAt <= row[n].createdAt
      BY <2>1, <3>1 DEF RowsFit, Fits, Succeeds
    <3>3. /\ row[s].createdAt \in Nat /\ row[n].createdAt \in Nat /\ now \in Nat
      BY <2>1, <3>1 DEF TypeOK, Row, Time, SessionId
    <3>4. row[n].createdAt + RefreshTtl + PurgeAge < now
      BY DEF Purgeable
    <3>5. s \in Purgeable
      BY <2>1, <3>2, <3>3, <3>4 DEF Purgeable
    <3>6. QED
      BY <2>1, <3>5
  <2>3. row'[s] = row[s]
    BY <1>5, <2>1, <2>2 DEF Purge
  <2>4. QED
    BY <2>1, <2>3 DEF Changes
<1>6. ASSUME UNCHANGED <<row, stored>>
      PROVE Changes(s)
  BY <1>6 DEF Changes
<1>7. QED
  BY <1>1, <1>2, <1>3, <1>4, <1>5, <1>6
  DEF Next, RequestStep, LoginFindTenant, RefreshFind, LogoutFind, LoginFindUser,
      RefreshCheckTenant, RefreshCheckUser, RotateUpdate, RevokeAllBegin, Abort,
      ToggleUser, ToggleTenant, Tick, vars

\* The copies of the logouts are those of before, or were just read.
LEMMA LogoutCopies ==
  CInv /\ [Next]_vars =>
    \A p \in Request : request'[p].step = "logout" =>
      \/ request'[p] = request[p]
      \/ \E s \in stored : /\ request'[p] = At("logout", s, Revoke(row[s], "LOGOUT", now))
                           /\ UNCHANGED <<now, created, stored, row, root, redeemedAt>>
<1> SUFFICES ASSUME CInv, [Next]_vars, NEW p \in Request, request'[p].step = "logout"
             PROVE  \/ request'[p] = request[p]
                    \/ \E s \in stored :
                         /\ request'[p] = At("logout", s, Revoke(row[s], "LOGOUT", now))
                         /\ UNCHANGED <<now, created, stored, row, root, redeemedAt>>
  OBVIOUS
<1> TypeOK
  BY DEF CInv, HInv, IInv
<1>1. ASSUME NEW s \in SessionId, LogoutFind(p, s)
      PROVE  /\ s \in stored
             /\ request'[p] = At("logout", s, Revoke(row[s], "LOGOUT", now))
             /\ UNCHANGED <<now, created, stored, row, root, redeemedAt>>
  BY <1>1 DEF LogoutFind, TypeOK, history
<1>2. ASSUME NEW q \in Request, q # p, Moves(q)
      PROVE  request'[p] = request[p]
  BY <1>2, OthersWait
<1>3. ASSUME \/ \E u \in User : LoginFindTenant(p, u)
             \/ \E s \in SessionId : RefreshFind(p, s)
             \/ RequestStep(p)
             \/ Abort(p)
      PROVE  request'[p].step # "logout"
  BY <1>3 DEF RequestStep, LoginFindTenant, RefreshFind, LoginFindUser,
         LoginStart, RotateInsert, RevokeAllCommit, LogoutUpdate,
         RefreshCheckTenant, RefreshCheckUser, RotateUpdate, RevokeAllBegin, Abort,
         Goes, Ends, GoesToRevokeAll, TypeOK, At, Idle
<1>4. ASSUME UNCHANGED request
      PROVE  request'[p] = request[p]
  BY <1>4
<1>5. QED
  BY <1>1, <1>2, <1>3, <1>4, WhoMoves DEF Moves

LEMMA RowsFitStep == CInv /\ [Next]_vars => RowsFit'
<1> SUFFICES ASSUME CInv, [Next]_vars PROVE RowsFit'
  OBVIOUS
<1> TypeOK /\ RowsFit /\ RowLocks /\ CopiesFit
  BY DEF CInv, HInv, IInv
<1>0. TypeOK' /\ stored \subseteq SessionId /\ stored' \subseteq SessionId
  BY TypeStep DEF CInv, HInv, TypeOK, SessionId
<1>1. ASSUME NEW s \in stored', NEW r, r = row'[s]
      PROVE  Fits(s, r)' /\ r.createdAt <= now'
  <2>0. /\ r \in Row /\ r.createdAt \in Nat /\ now \in Nat /\ now' \in Nat /\ now <= now'
        /\ \A t \in stored : row[t] \in Row
    <3>1. r \in Row
      BY <1>0, <1>1 DEF TypeOK
    <3>2. QED
      BY <1>0, <3>1, SuccessorsStay DEF TypeOK, Row, Time
  <2>1. CASE s \in stored /\ r = row[s]
    BY <2>0, <2>1, FitsStay DEF RowsFit
  <2>2. ASSUME NEW u \in User \cup {Nobody}, NEW t \in Time, r = Create(u, t), t <= now
        PROVE  Fits(s, r)' /\ r.createdAt <= now'
    <3>1. /\ r.user = row'[s].user /\ r.createdAt = row'[s].createdAt
          /\ r.replacedBy = NoSession /\ r.reason # "ROTATED" /\ r.createdAt = t
      BY <1>1, <2>2 DEF Create, Live
    <3>2. QED
      BY <2>0, <2>2, <3>1 DEF Fits, Time
  <2>3. ASSUME s \in stored, row[s].reason = Live,
               NEW e \in {"REUSE_DETECTED", "REVOKED"}, NEW t \in Time, r = Revoke(row[s], e, t)
        PROVE  Fits(s, r)' /\ r.createdAt <= now'
    <3>1. /\ r.reason = e /\ r.createdAt = row[s].createdAt /\ r.replacedBy = row[s].replacedBy
      BY <2>0, <2>3, RevokeFields DEF Reason
    <3>2. row[s].replacedBy = NoSession /\ row[s].createdAt <= now
      BY <2>3 DEF RowsFit, Fits, Live
    <3>3. QED
      BY <1>1, <2>0, <3>1, <3>2 DEF Fits
  <2>4. ASSUME s \in stored, NEW p \in Request, request[p].step = "logout", request[p].sid = s,
               r = request[p].copy
        PROVE  Fits(s, r)' /\ r.createdAt <= now'
    <3>1. Fits(s, r)
      BY <2>4 DEF RowsFit
    <3>2. r.createdAt = row[s].createdAt /\ row[s].createdAt <= now
      BY <2>4, <3>1 DEF RowsFit, Fits
    <3>3. QED
      BY <2>0, <2>4, <3>1, <3>2, FitsStay
  <2>5. ASSUME NEW p \in Request, RotateInsert(p), request[p].sid = s
        PROVE  Fits(s, r)' /\ r.createdAt <= now'
    <3> DEFINE copy == request[p].copy
    <3>1. /\ s \in stored /\ s \in 1 .. created /\ s # NextId
          /\ NextId \in s + 1 .. created' /\ NextId \in SessionId /\ NextId # NoSession
      BY <1>0, <2>5, NextIdIsNext
      DEF RotateInsert, RowLocks, LiveSessions, TypeOK, SessionId, NoSession, NextId
    <3>2. /\ copy.user = row[s].user /\ copy.reason = "ROTATED"
          /\ copy.createdAt = row[s].createdAt /\ copy.createdAt <= copy.revokedAt
      BY <2>5, <3>1, RequestFields DEF RotateInsert, CopiesFit, TypeOK
    <3>3. /\ r.reason = "ROTATED" /\ r.revokedAt = copy.revokedAt /\ r.replacedBy = NextId
          /\ r.user = row[s].user /\ r.createdAt = row[s].createdAt
      BY <1>0, <1>1, <2>5, <3>1, <3>2 DEF RotateInsert, TypeOK, Row
    <3>4. row'[NextId] = Create(copy.user, copy.revokedAt)
      BY <2>5, <3>1 DEF RotateInsert, TypeOK
    <3>5. /\ row'[NextId].user = copy.user /\ row'[NextId].createdAt = copy.revokedAt
      BY <3>4 DEF Create
    <3>6. root'[NextId] = root'[s] /\ redeemedAt'[s] = copy.revokedAt /\ NextId \in stored'
      BY <1>0, <2>5, <3>1 DEF RotateInsert, TypeOK
    <3>7. Succeeds(s, r.replacedBy)'
      BY <1>1, <3>1, <3>2, <3>3, <3>5, <3>6 DEF Succeeds
    <3>8. Fits(s, r)'
      BY <1>1, <3>1, <3>3, <3>6, <3>7 DEF Fits
    <3>9. row[s].createdAt <= now
      BY <3>1 DEF RowsFit
    <3>10. QED
      BY <2>0, <3>3, <3>8, <3>9
  <2>6. QED
    BY <1>1, <2>1, <2>2, <2>3, <2>4, <2>5, RowChanges DEF Changes
<1>2. ASSUME NEW p \in Request, request'[p].step = "logout",
             NEW s, s = request'[p].sid, NEW r, r = request'[p].copy
      PROVE  s \in 1 .. created' /\ (s \in stored' => Fits(s, r)')
  <2>1. CASE request'[p] = request[p]
    <3>1. s \in 1 .. created /\ (s \in stored => Fits(s, r)) /\ r \in Row
      BY <1>2, <2>1, RequestFields DEF RowsFit
    <3>2. s \in 1 .. created' /\ (s \in stored' => s \in stored)
      BY <3>1, NothingReopens DEF CInv, HInv
    <3>3. QED
      BY <3>1, <3>2, FitsStay
  <2>2. ASSUME NEW t \in stored, request'[p] = At("logout", t, Revoke(row[t], "LOGOUT", now)),
               UNCHANGED <<now, created, stored, row, root, redeemedAt>>
        PROVE  s \in 1 .. created' /\ (s \in stored' => Fits(s, r)')
    <3>1. s = t /\ r = Revoke(row[t], "LOGOUT", now)
      BY <1>2, <2>2 DEF At
    <3>2. s \in 1 .. created' /\ s \in stored /\ row[s] \in Row /\ now \in Time
      BY <1>0, <2>2, <3>1 DEF TypeOK
    <3>3. Fits(s, row[s])
      BY <3>2 DEF RowsFit
    <3>4. CASE row[s].reason = Live
      <4>1. /\ r.user = row[s].user /\ r.createdAt = row[s].createdAt
            /\ r.reason = "LOGOUT" /\ r.replacedBy = row[s].replacedBy
        BY <3>1, <3>2, <3>4, RevokeFields DEF Reason
      <4>2. QED
        BY <2>2, <3>2, <3>3, <3>4, <4>1 DEF Fits, Live
    <3>5. CASE row[s].reason # Live
      <4>1. r = row[s]
        BY <3>1, <3>2, <3>5, RevokeFields DEF Reason
      <4>2. r \in Row /\ Fits(s, r) /\ s \in stored'
        BY <2>2, <3>2, <3>3, <4>1
      <4>3. QED
        BY <3>2, <4>2, FitsStay
    <3>6. QED
      BY <3>4, <3>5
  <2>3. QED
    BY <1>2, <2>1, <2>2, LogoutCopies
<1>3. QED
  BY <1>1, <1>2 DEF RowsFit, Fits, Succeeds

\* A successor is claimed by who claimed it before, or was just inserted.
LEMMA ClaimsStep ==
  CInv /\ [Next]_vars =>
    \A s \in stored', n \in SessionId : Claims(s, n)' =>
      \/ s \in stored /\ Claims(s, n)
      \/ n = NextId /\ \E p \in Request : RotateInsert(p) /\ request[p].sid = s
<1> SUFFICES ASSUME CInv, [Next]_vars, NEW s \in stored', NEW n \in SessionId, Claims(s, n)'
             PROVE  \/ s \in stored /\ Claims(s, n)
                    \/ n = NextId /\ \E p \in Request : RotateInsert(p) /\ request[p].sid = s
  OBVIOUS
<1> TypeOK /\ RowsFit /\ RowLocks
  BY DEF CInv, HInv, IInv
<1>0. /\ n # NoSession /\ \A t \in stored : row[t] \in Row /\ s \in SessionId
      /\ now \in Time /\ row'[s] \in Row
  <2>1. TypeOK'
    BY TypeStep DEF CInv, HInv
  <2>2. QED
    BY <2>1 DEF TypeOK, SessionId, NoSession
<1>1. CASE row'[s].replacedBy = n
  <2>1. ASSUME NEW u, NEW t, row'[s] = Create(u, t)
        PROVE  FALSE
    BY <1>0, <1>1, <2>1 DEF Create
  <2>2. ASSUME s \in stored, NEW e \in {"REUSE_DETECTED", "REVOKED"}, NEW t \in Time,
               row'[s] = Revoke(row[s], e, t)
        PROVE  Claims(s, n)
    BY <1>0, <1>1, <2>2, RevokeFields DEF Claims, Reason
  <2>3. ASSUME NEW p \in Request, RotateInsert(p), request[p].sid = s
        PROVE  n = NextId
    <3>1. s # NextId /\ s \in SessionId
      BY <1>0, <2>3, NextIdIsNext DEF RotateInsert, RowLocks, LiveSessions
    <3>2. QED
      BY <1>1, <2>3, <3>1 DEF RotateInsert, TypeOK, Row
  <2>4. QED
    BY <1>1, <2>1, <2>2, <2>3, RowChanges DEF Changes, Claims
<1>2. ASSUME NEW p \in Request, request'[p].step = "logout", request'[p].sid = s,
             request'[p].copy.replacedBy = n
      PROVE  s \in stored /\ Claims(s, n)
  <2>1. CASE request'[p] = request[p]
    <3>1. s \in 1 .. created
      BY <1>2, <2>1 DEF RowsFit
    <3>2. s \in stored
      BY <3>1, NothingReopens DEF CInv, HInv
    <3>3. QED
      BY <1>2, <2>1, <3>2 DEF Claims
  <2>2. ASSUME NEW t \in stored, request'[p] = At("logout", t, Revoke(row[t], "LOGOUT", now))
        PROVE  s \in stored /\ Claims(s, n)
    <3>1. s = t /\ Revoke(row[t], "LOGOUT", now).replacedBy = n
      BY <1>2, <2>2 DEF At
    <3>2. QED
      BY <1>0, <3>1, RevokeFields DEF Claims, Reason
  <2>3. QED
    BY <1>2, <2>1, <2>2, LogoutCopies
<1>3. QED
  BY <1>1, <1>2 DEF Claims

LEMMA OneOriginStep == CInv /\ [Next]_vars => OneOrigin'
<1> SUFFICES ASSUME CInv, [Next]_vars PROVE OneOrigin'
  OBVIOUS
<1> TypeOK /\ RowsFit /\ OneOrigin /\ RowLocks
  BY DEF CInv, HInv, IInv
<1>1. ASSUME NEW s \in stored, NEW n \in SessionId, Claims(s, n)
      PROVE  n # NextId
  <2>1. n # NoSession /\ created \in Nat
    BY DEF SessionId, NoSession, TypeOK
  <2>2. n \in stored
    BY <1>1, <2>1 DEF Claims, RowsFit, Fits, Succeeds
  <2>3. QED
    BY <2>1, <2>2 DEF TypeOK, NextId
<1>2. ASSUME NEW p \in Request, RotateInsert(p), NEW q \in Request, RotateInsert(q)
      PROVE  request[p].sid = request[q].sid
  <2>1. p = q
    <3> SUFFICES ASSUME p # q PROVE FALSE
      OBVIOUS
    <3>1. request'[p] = Idle /\ request'[q] = request[q] /\ request'[q] = Idle
      BY <1>2 DEF RotateInsert, Ends, TypeOK
    <3>2. QED
      BY <1>2, <3>1 DEF RotateInsert, Idle, At
  <2>2. QED
    BY <2>1
<1>3. ASSUME NEW s \in stored', NEW t \in stored', NEW n \in SessionId,
             Claims(s, n)', Claims(t, n)'
      PROVE  s = t
  <2>1. /\ \/ s \in stored /\ Claims(s, n)
           \/ n = NextId /\ \E p \in Request : RotateInsert(p) /\ request[p].sid = s
        /\ \/ t \in stored /\ Claims(t, n)
           \/ n = NextId /\ \E p \in Request : RotateInsert(p) /\ request[p].sid = t
    BY <1>3, ClaimsStep
  <2>2. QED
    BY <1>1, <1>2, <2>1 DEF OneOrigin
<1>4. QED
  BY <1>3 DEF OneOrigin

LEMMA AlarmOnlyStep == CInv /\ [Next]_vars => AlarmOnlyAfterExchange'
<1> SUFFICES ASSUME CInv, [Next]_vars,
                    NEW p \in Request, request'[p].step \in {"revokeAll", "revoking"},
                    request'[p].copy.reason = "REUSE_DETECTED"
             PROVE  LET s == request'[p].sid
                    IN  /\ redeemedAt'[s] # Never
                        /\ redeemedAt'[s] + Grace <= request'[p].copy.revokedAt
  BY DEF AlarmOnlyAfterExchange
<1> TypeOK /\ RowsFit /\ CopiesFit /\ AlarmOnlyAfterExchange
  BY DEF CInv, HInv, IInv
<1> DEFINE Earned(s, at) == /\ redeemedAt'[s] # Never
                            /\ redeemedAt'[s] + Grace <= at
<1>1. ASSUME request[p].step \in {"revokeAll", "revoking"},
             request'[p].sid = request[p].sid, request'[p].copy = request[p].copy
      PROVE  Earned(request'[p].sid, request'[p].copy.revokedAt)
  <2> DEFINE s == request[p].sid
  <2>1. redeemedAt[s] # Never /\ redeemedAt[s] + Grace <= request[p].copy.revokedAt
    BY <1>1 DEF AlarmOnlyAfterExchange
  <2>2. s \in SessionId
    BY <1>1 DEF CopiesFit, TypeOK, SessionId
  <2>3. redeemedAt'[s] = redeemedAt[s]
    BY <2>1, <2>2, ExchangedAreClosedStep DEF CInv
  <2>4. QED
    BY <1>1, <2>1, <2>3
<1>2. ASSUME NEW s \in SessionId, RefreshFind(p, s)
      PROVE  Earned(request'[p].sid, request'[p].copy.revokedAt)
  <2>1. s \in stored /\ redeemedAt' = redeemedAt /\ RaisesAlarm(row[s])
        /\ request'[p] = At("revokeAll", s, Revoke(Create(row[s].user, now), "REUSE_DETECTED", now))
    <3>1. s \in stored /\ redeemedAt' = redeemedAt
      BY <1>2 DEF RefreshFind, history
    <3>2. ASSUME request' = [request EXCEPT ![p] = At("tenant", s, row[s])]
          PROVE  FALSE
      <4>1. request'[p].step = "tenant"
        BY <3>2 DEF TypeOK, At
      <4>2. QED
        BY <4>1
    <3>3. RaisesAlarm(row[s]) /\ GoesToRevokeAll(p, s, row[s].user, "REUSE_DETECTED")
      BY <1>2, <3>2 DEF RefreshFind
    <3>4. QED
      BY <3>1, <3>3 DEF GoesToRevokeAll, TypeOK
  <2>2. row[s] \in Row /\ row[s].user \in User \cup {Nobody} /\ now \in Time
    BY DEF TypeOK, Row
  <2>3. request'[p].sid = s /\ request'[p].copy.revokedAt = now
    BY <2>1, <2>2, CreatedIsClosed DEF Reason, At
  <2>4. redeemedAt[s] = row[s].revokedAt
    BY <2>1 DEF RaisesAlarm, RowsFit, Fits
  <2>5. row[s].revokedAt \in Nat /\ row[s].revokedAt # Never /\ now \in Nat
    BY <2>2 DEF Row, Time, Never
  <2>6. row[s].revokedAt + Grace <= now
    BY <2>1, <2>5 DEF RaisesAlarm, WasJustRotated
  <2>7. QED
    BY <2>1, <2>3, <2>4, <2>5, <2>6
<1>3. ASSUME RefreshCheckTenant(p) \/ RefreshCheckUser(p)
      PROVE  FALSE
  <2>1. Revoke(Create(request[p].copy.user, now), "REVOKED", now).reason = "REVOKED"
    BY RequestFields, CreatedIsClosed DEF TypeOK, Reason
  <2>2. QED
    BY <1>3, <2>1 DEF RefreshCheckTenant, RefreshCheckUser, Goes, GoesToRevokeAll, TypeOK, At
<1>4. ASSUME RevokeAllBegin(p)
      PROVE  Earned(request'[p].sid, request'[p].copy.revokedAt)
  BY <1>1, <1>4 DEF RevokeAllBegin, TypeOK
<1>5. ASSUME request'[p] = request[p]
      PROVE  Earned(request'[p].sid, request'[p].copy.revokedAt)
  BY <1>1, <1>5
<1>6. ASSUME \/ \E u \in User : LoginFindTenant(p, u)
             \/ \E s \in SessionId : LogoutFind(p, s)
             \/ LoginFindUser(p) \/ LoginStart(p) \/ RotateUpdate(p) \/ RotateInsert(p)
             \/ RevokeAllCommit(p) \/ LogoutUpdate(p) \/ Abort(p)
      PROVE  FALSE
  BY <1>6 DEF LoginFindTenant, LogoutFind, LoginFindUser, LoginStart, RotateUpdate,
              RotateInsert, RevokeAllCommit, LogoutUpdate, Abort, Goes, Ends, TypeOK, At, Idle
<1>7. ASSUME NEW q \in Request, q # p, Moves(q)
      PROVE  request'[p] = request[p]
  BY <1>7, OthersWait
<1>8. QED
  BY <1>2, <1>3, <1>4, <1>5, <1>6, <1>7, WhoMoves DEF Moves, RequestStep

LEMMA ChainInit == Init => CInv
<1> SUFFICES ASSUME Init PROVE CInv
  OBVIOUS
<1>1. stored = {} /\ \A p \in Request : request[p] = Idle
  BY DEF Init
<1>2. RowsFit /\ OneOrigin /\ CopiesFit /\ AlarmOnlyAfterExchange
  BY <1>1 DEF RowsFit, OneOrigin, CopiesFit, AlarmOnlyAfterExchange, Idle, At
<1>3. QED
  BY <1>2, HInit DEF CInv

LEMMA ChainInvariance == Spec => []CInv
<1>1. CInv /\ [Next]_vars => HInv'
  BY InvStep, ExchangedAreClosedStep, AlarmsStep DEF CInv, HInv
<1>2. CInv /\ [Next]_vars => CInv'
  BY <1>1, RowsFitStep, OneOriginStep, CopiesFitStep, AlarmOnlyStep DEF CInv
<1>3. QED
  BY <1>2, ChainInit, PTL DEF Spec

-----------------------------------------------------------------------------
(***************************************************************************)
(* Theorems.                                                               *)
(***************************************************************************)

\* Every variable of Sessions keeps its type, whatever the instance.
THEOREM TypeCorrect == Spec => []TypeOK
<1>1. IInv => TypeOK
  BY DEF IInv
<1>2. QED
  BY <1>1, Invariance, PTL

\* However many requests renew, close or denounce the tokens of a login, no
\* two of its sessions are ever alive.
THEOREM OneLiveSession == Spec => []OneLivePerLogin
<1>1. IInv => OneLivePerLogin
  BY DEF IInv
<1>2. QED
  BY <1>1, Invariance, PTL

\* A row that was revoked never comes back: no stale copy of a logout, no
\* rotation and no alarm writes it alive.
THEOREM NoResurrection == Spec => RevokedStaysRevoked
<1>1. IInv /\ [Next]_vars =>
        [\A s \in stored \cap stored' : IsRevoked(row[s]) => IsRevoked(row'[s])]_vars
  BY NothingReopens
<1>2. QED
  BY <1>1, Invariance, PTL DEF Spec, RevokedStaysRevoked

\* A refresh token is exchanged at most once.
THEOREM OneExchange == Spec => ExchangedOnce
<1>1. HInv /\ [Next]_vars =>
        [\A s \in SessionId :
           redeemedAt[s] # Never => redeemedAt'[s] = redeemedAt[s]]_vars
  BY ExchangedAreClosedStep
<1>2. QED
  BY <1>1, HInvariance, PTL DEF Spec, ExchangedOnce

\* What the user had open when a theft alarm started is closed for good when
\* it ends.
THEOREM AlarmCloses == Spec => []AlarmedStayClosed
<1>1. HInv => AlarmedStayClosed
  BY DEF HInv
<1>2. QED
  BY <1>1, HInvariance, PTL

\* The rotation chain in the table stays whole: a row names a successor exactly
\* when it was exchanged, and the successor is a later session of the same
\* owner and login that no other row names.
THEOREM ChainStaysWhole == Spec => []ChainWellFormed
<1>1. CInv => ChainWellFormed
  <2> SUFFICES ASSUME CInv, NEW s \in stored
               PROVE  LET next == row[s].replacedBy IN
                      /\ (next # NoSession) <=> (row[s].reason = "ROTATED")
                      /\ next # NoSession =>
                           /\ next \in s + 1 .. created
                           /\ row[next].user = row[s].user
                           /\ root[next] = root[s]
                           /\ \A t \in stored : row[t].replacedBy = next => t = s
    BY DEF ChainWellFormed
  <2>1. Fits(s, row[s]) /\ row[s].replacedBy \in SessionId \cup {NoSession}
    BY DEF CInv, HInv, IInv, TypeOK, SessionId, Row, RowsFit
  <2>2. QED
    BY <2>1 DEF CInv, OneOrigin, Claims, Fits, Succeeds
<1>2. QED
  BY <1>1, ChainInvariance, PTL

\* No alarm is raised but with a token that was exchanged, and past the grace
\* of its exchange.
THEOREM AlarmsAreEarned == Spec => []AlarmOnlyAfterExchange
<1>1. CInv => AlarmOnlyAfterExchange
  BY DEF CInv
<1>2. QED
  BY <1>1, ChainInvariance, PTL

-----------------------------------------------------------------------------
(***************************************************************************)
(* Sessions implements RefreshTokens.                                      *)
(***************************************************************************)

LEMMA TokensInit == Init => Tokens!Init
BY DEF Init, Tokens!Init, LiveSessions

LEMMA TokensStep == HInv /\ [Next]_vars => [Tokens!Next]_(Tokens!vars)
<1> DEFINE Goal == [Tokens!Next]_(Tokens!vars)
<1> SUFFICES ASSUME HInv, [Next]_vars PROVE Goal
  OBVIOUS
<1> TypeOK /\ ClosingCopies /\ RowLocks /\ ExchangedAreClosed /\ IInv
  BY DEF HInv, IInv
<1>1. ASSUME NEW p \in Request, LoginStart(p)
      PROVE Goal
  <2>1. root[NextId] = NoSession /\ NextId \in SessionId
    BY <1>1, NextIdIsNext DEF LoginStart, ExchangedAreClosed
  <2>2. \A s \in stored : row'[s] = row[s]
    BY <1>1, NextIdIsNext DEF LoginStart, TypeOK, SessionId
  <2>3. ~IsRevoked(row'[NextId])
    BY <1>1, <2>1 DEF LoginStart, TypeOK, Create, IsRevoked
  <2>4. LiveSessions' = LiveSessions \cup {NextId}
    BY <1>1, <2>2, <2>3 DEF LoginStart, LiveSessions, IsRevoked
  <2>5. Tokens!Login(NextId)
    BY <1>1, <2>1, <2>4 DEF LoginStart, Tokens!Login
  <2>6. QED
    BY <2>1, <2>5 DEF Tokens!Next
<1>2. ASSUME NEW p \in Request, RotateInsert(p)
      PROVE Goal
  <2> DEFINE s == request[p].sid
  <2>1. /\ s \in LiveSessions /\ s \in stored /\ s \in SessionId /\ s # NextId
        /\ NextId \in SessionId /\ root[NextId] = NoSession
    BY <1>2, NextIdIsNext
    DEF RotateInsert, RowLocks, LiveSessions, TypeOK, SessionId, ExchangedAreClosed
  <2>2. IsRevoked(row'[s])
    BY <1>2, <2>1 DEF RotateInsert, ClosingCopies, IsRevoked, TypeOK, Row, Live
  <2>3. \A t \in stored \ {s} : IsRevoked(row'[t]) = IsRevoked(row[t])
    BY <1>2, NextIdIsNext DEF RotateInsert, TypeOK, SessionId, IsRevoked
  <2>4. ~IsRevoked(row'[NextId])
    BY <1>2, <2>1 DEF RotateInsert, TypeOK, Create, IsRevoked
  <2>5. LiveSessions' = (LiveSessions \ {s}) \cup {NextId}
    BY <1>2, <2>1, <2>2, <2>3, <2>4, NextIdIsNext DEF RotateInsert, LiveSessions
  <2>6. Tokens!Redeem(s, NextId)
    BY <1>2, <2>1, <2>5 DEF RotateInsert, Tokens!Redeem
  <2>7. QED
    BY <2>1, <2>6 DEF Tokens!Next
<1>3. ASSUME UNCHANGED root, stored' \subseteq stored
      PROVE Goal
  <2> DEFINE closed == LiveSessions \ LiveSessions'
  <2>1. LiveSessions' = LiveSessions \ closed
    BY <1>3, NothingReopens DEF LiveSessions
  <2>2. closed \in SUBSET SessionId
    <3>1. stored \subseteq SessionId
      BY DEF TypeOK, SessionId
    <3>2. QED
      BY <3>1 DEF LiveSessions
  <2>3. Tokens!Close(closed)
    BY <1>3, <2>1 DEF Tokens!Close
  <2>4. QED
    BY <2>2, <2>3 DEF Tokens!Next
<1>4. QED
  BY <1>1, <1>2, <1>3
  DEF Next, RequestStep, LoginFindTenant, RefreshFind, LogoutFind, LoginFindUser,
      RefreshCheckTenant, RefreshCheckUser, RotateUpdate, RevokeAllBegin,
      RevokeAllCommit, LogoutUpdate, Abort, Purge, ToggleUser, ToggleTenant, Tick,
      vars, history

\* The table and its requests implement single-use refresh tokens: every step
\* of theirs is a login, an exchange or a closing of RefreshTokens, or none.
THEOREM Implements == Spec => ImplementsRefreshTokens
BY TokensInit, TokensStep, HInvariance, PTL
DEF Spec, ImplementsRefreshTokens, Tokens!Spec

=============================================================================
