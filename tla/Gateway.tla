------------------------------ MODULE Gateway -------------------------------
(***************************************************************************)
(* What every request passes through, from its arrival to its answer: the  *)
(* global guards, the validation pipe, a use case, the events it publishes *)
(* and the answer, written by ResponseInterceptor or AllExceptionsFilter;  *)
(* and the end of the process when something breaks outside a request.     *)
(*                                                                         *)
(* A use case is its saves, each of them a transaction, with what it       *)
(* awaits before, between and after them; the rows are in the other        *)
(* modules.  The token of every request is of one session.  Signing a      *)
(* token and answering need no other machine and do not fail; whatever     *)
(* awaits the database or argon2 may.                                      *)
(***************************************************************************)
EXTENDS Naturals, Sequences

CONSTANTS
  Request,   \* requests that can be in flight at the same time
  Sent,      \* bound: the requests clients send, a set of Requests as below
  Refusal,   \* bound: codes of the rules a use case may find broken
  MaxEvent,  \* bound: events of one save
  MaxSave    \* bound: saves of one call of the seed

ASSUME EventBound == MaxEvent \in Nat

ASSUME SaveBound == MaxSave \in Nat \ {0}

\* Only a login answers that the credentials are not valid.
ASSUME RefusalAssumption == "1100" \notin Refusal

VARIABLES
  process,   \* the server process
  session,   \* the session the tokens belong to
  dummy,     \* the cached promise of Argon2PasswordVerifier.dummyHash
  request    \* the requests in flight

vars == <<process, session, dummy, request>>

-----------------------------------------------------------------------------
(***************************************************************************)
(* Requests.  does: what it asks for.  A "change" saves once; "create", of *)
(* a product, and "configure", of its branches, are changes whose answer   *)
(* shows what was saved; a "read" saves nothing and need not be safe (POST *)
(* /products/profitability).  tenants: whose tenantId appears in its path, *)
(* query or body.                                                          *)
(***************************************************************************)

Works == {"read", "change", "create", "configure", "login", "refresh", "logout", "seed"}

Public == {"login", "refresh", "logout", "seed"}

Shown == {"create", "configure"}

\* What saves a use case makes if nothing refuses it: a logout may find
\* nothing to close, and the removal counts among those of the seed.
Saves(does) ==
  CASE does = "read" -> {0}
    [] does = "logout" -> {0, 1}
    [] does = "seed" -> 1 .. MaxSave
    [] OTHER -> {1}

Shape ==
  [does : Works, safe : BOOLEAN, origin : {"none", "ours", "foreign"},
   token : {"none", "bad", "good"}, tenants : SUBSET {"own", "other"}, valid : BOOLEAN]

ASSUME SentAssumption == Sent \subseteq Shape

\* Mutant of Guards: the businesses are compared before anyone knows who asks.
GuardsByName == <<"origin", "tenant", "jwt">>

\* In the order AuthModule registers them.
Guards == <<"origin", "jwt", "tenant">>

Path == Guards \o <<"pipe", "handle">>

Stage == {"idle", "origin", "jwt", "session", "tenant", "pipe", "handle", "hash", "publish", "answered"}

(***************************************************************************)
(* Answers: RESPONSE_CATALOG and AllExceptionsFilter.  Of each category    *)
(* there is a code here; 1605, of a menu that does not exist, has none.    *)
(***************************************************************************)

Category ==
  [code \in {"1000", "1001", "1100", "1101", "1102", "1104", "1105", "1106", "1107", "1109",
             "1400", "1402", "2000", "9999"} |->
     CASE code = "1000" -> "Validation"
       [] code \in {"1001", "1100", "1101", "1102", "1104", "1105", "1106"} -> "Unauthorized"
       [] code \in {"1107", "1109"} -> "Forbidden"
       [] code \in {"1400", "2000"} -> "NotFound"
       [] code = "1402" -> "Conflict"
       [] code = "9999" -> "Unavailable"]

\* Mutant of StatusOf: the category that came last has no status.
StatusOfAllButForbidden(category) ==
  CASE category = "Validation" -> 400
    [] category = "NotFound" -> 404
    [] category = "Conflict" -> 409
    [] category = "Unauthorized" -> 401
    [] category = "Unavailable" -> 503
    [] OTHER -> 0

\* CATEGORY_TO_HTTP.
StatusOf(category) ==
  CASE category = "Validation" -> 400
    [] category = "NotFound" -> 404
    [] category = "Conflict" -> 409
    [] category = "Unauthorized" -> 401
    [] category = "Forbidden" -> 403
    [] category = "Unavailable" -> 503

\* resolveEntry: a code without an entry has that of 9999.
Entry(code) == IF code \in DOMAIN Category THEN Category[code] ELSE Category["9999"]

\* A rule of the domain keeps its code; a refusal of the framework and any
\* other error get one.
Domain(code) == [status |-> StatusOf(Entry(code)), code |-> code]

Framework(status) ==
  [status |-> status,
   code |-> CASE status = 401 -> "1001" [] status = 404 -> "2000" [] OTHER -> "1000"]

Failure == [status |-> 500, code |-> "9999"]

\* ResponseInterceptor: an empty list is told apart.
Success(empty) == [status |-> 200, code |-> IF empty THEN "0001" ELSE "0000"]

Unanswered == [status |-> 0, code |-> "none"]

(***************************************************************************)
(* A request in flight.  user: request.user is set; late: its session was  *)
(* closed when it arrived; left: saves still to make; saved: one of them   *)
(* changed something; owed: events to publish; broke: its use case failed, *)
(* and not by a rule; verified: a password was verified for it; unlucky:   *)
(* argon2 failed for it, in its verification or in the hash it waited for. *)
(***************************************************************************)

Arrived(sent, late, left) ==
  [stage |-> Path[1], sent |-> sent, user |-> FALSE, late |-> late, left |-> left,
   saved |-> FALSE, owed |-> 0, broke |-> FALSE, verified |-> FALSE, unlucky |-> FALSE,
   answer |-> Unanswered]

Idle == [Arrived(CHOOSE s \in Shape : s.does = "login", FALSE, 0) EXCEPT !.stage = "idle"]

IsAt(r, stage) == request[r].stage = stage

InFlight(r) == request[r].stage \notin {"idle", "answered"}

Becomes(r, s) == request' = [request EXCEPT ![r] = s]

NextStage(stage) == Path[(CHOOSE i \in 1 .. Len(Path) : Path[i] = stage) + 1]

Passes(r, stage) == Becomes(r, [request[r] EXCEPT !.stage = NextStage(stage)])

Answers(s, answer) == [s EXCEPT !.stage = "answered", !.answer = answer]

SessionIsOpen == session \in {"live", "rotated"}

Arrive(r) ==
  /\ process = "up"
  /\ IsAt(r, "idle")
  /\ \E s \in Sent : \E n \in Saves(s.does) :
       Becomes(r, Arrived(s, s.does \notin Public /\ ~SessionIsOpen, n))
  /\ UNCHANGED <<process, session, dummy>>

OriginGuard(r) ==
  /\ IsAt(r, "origin")
  /\ IF request[r].sent.safe \/ request[r].sent.origin # "foreign"
     THEN Passes(r, "origin")
     ELSE Becomes(r, Answers(request[r], Domain("1109")))
  /\ UNCHANGED <<process, session, dummy>>

\* extractToken, verify.
JwtAuthGuard(r) ==
  /\ IsAt(r, "jwt")
  /\ CASE request[r].sent.does \in Public -> Passes(r, "jwt")
       [] request[r].sent.does \notin Public /\ request[r].sent.token # "good" ->
            Becomes(r, Answers(request[r], Framework(401)))
       [] OTHER -> Becomes(r, [request[r] EXCEPT !.stage = "session"])
  /\ UNCHANGED <<process, session, dummy>>

\* ensureSessionIsUsable: a session exchanged for its successor is.
EnsureSessionIsUsable(r) ==
  /\ IsAt(r, "session")
  /\ IF SessionIsOpen
     THEN Becomes(r, [request[r] EXCEPT !.stage = NextStage("jwt"), !.user = TRUE])
     ELSE Becomes(r, Answers(request[r], Framework(401)))
  /\ UNCHANGED <<process, session, dummy>>

\* Without a user there is nothing to compare with.
TenantScopeGuard(r) ==
  /\ IsAt(r, "tenant")
  /\ IF \/ request[r].sent.does \in Public
        \/ ~request[r].user
        \/ "other" \notin request[r].sent.tenants
     THEN Passes(r, "tenant")
     ELSE Becomes(r, Answers(request[r], Domain("1107")))
  /\ UNCHANGED <<process, session, dummy>>

ValidationPipe(r) ==
  /\ IsAt(r, "pipe")
  /\ IF request[r].sent.valid
     THEN Passes(r, "pipe")
     ELSE Becomes(r, Answers(request[r], Framework(400)))
  /\ UNCHANGED <<process, session, dummy>>

-----------------------------------------------------------------------------
(***************************************************************************)
(* Use cases.                                                              *)
(***************************************************************************)

Handling(r, works) == IsAt(r, "handle") /\ request[r].sent.does \in works

\* A rule is broken before a save, or what was created cannot be shown: its
\* business has been closed (ProductController.findOne).
Refuse(r) ==
  /\ Handling(r, Works \ {"login", "refresh", "logout"})
  /\ request[r].left > 0 \/ request[r].sent.does \in {"read", "create"}
  /\ \E code \in Refusal : Becomes(r, Answers(request[r], Domain(code)))
  /\ UNCHANGED <<process, session, dummy>>

\* Nothing is left to save: what was asked for, or was saved, is shown.
Read(r) ==
  /\ IsAt(r, "handle")
  /\ request[r].left = 0
  /\ \E empty \in IF request[r].sent.does \in {"read", "configure"} THEN BOOLEAN ELSE {FALSE} :
       Becomes(r, Answers(request[r], Success(empty)))
  /\ UNCHANGED <<process, session, dummy>>

\* An UPDATE or a DELETE may find no row, and nobody looks.
Save(r) ==
  /\ Handling(r, Works \ {"read", "login", "refresh"})
  /\ request[r].left > 0
  /\ \E hit \in BOOLEAN, n \in 0 .. MaxEvent :
       /\ request[r].sent.does = "create" => hit
       /\ request[r].sent.does \in {"configure", "logout"} => n = 0
       /\ Becomes(r, [request[r] EXCEPT !.stage = "publish", !.left = @ - 1, !.saved = @ \/ hit,
                                        !.owed = n])
  /\ UNCHANGED <<process, session, dummy>>

\* Mutant of Caught: the failure of a listener reaches the filter.
Propagated(s) == Answers(s, Failure)

\* What the failure of a listener leaves of the request: it is logged.
Caught(s) == s

\* EventEmitterPublisher.publish, and what the use case does after it.
Publish(r) ==
  /\ IsAt(r, "publish")
  /\ LET s == request[r]
         more == s.left > 0 \/ s.sent.does \in Shown
         told == [s EXCEPT !.owed = @ - 1]
     IN \/ s.owed > 0 /\ \E fails \in BOOLEAN : Becomes(r, IF fails THEN Caught(told) ELSE told)
        \/ s.owed = 0 /\ more /\ Becomes(r, [s EXCEPT !.stage = "handle"])
        \/ s.owed = 0 /\ ~more /\ Becomes(r, Answers(s, Success(FALSE)))
  /\ UNCHANGED <<process, session, dummy>>

(***************************************************************************)
(* Sessions.  A refresh is refused with nothing done, or after it has      *)
(* closed every session of the user, if one was open, or exchanges its     *)
(* own.                                                                    *)
(***************************************************************************)

Done(s) == [s EXCEPT !.left = 0, !.saved = TRUE]

Refresh(r) ==
  /\ Handling(r, {"refresh"})
  /\ \/ \E code \in {"1104", "1105"} : Becomes(r, Answers(request[r], Domain(code)))
     \/ \E hit \in BOOLEAN, code \in {"1102", "1104", "1106"} :
          Becomes(r, Answers([request[r] EXCEPT !.saved = hit], Domain(code)))
     \/ Becomes(r, Answers(Done(request[r]), Success(FALSE)))
  /\ UNCHANGED <<process, session, dummy>>

(***************************************************************************)
(* Login: an account that exists has its password verified, a right one    *)
(* may be refused for the state of its business or its own, or opens a     *)
(* session; one that does not has a password of nobody's verified.  A      *)
(* verification that fails is one of a wrong password.                     *)
(***************************************************************************)

LoginKnown(r) ==
  /\ Handling(r, {"login"})
  /\ LET s == [request[r] EXCEPT !.verified = TRUE] IN
       \/ Becomes(r, Answers([request[r] EXCEPT !.unlucky = TRUE], Domain("1100")))
       \/ \E code \in {"1100", "1101", "1102"} : Becomes(r, Answers(s, Domain(code)))
       \/ Becomes(r, Answers(Done(s), Success(FALSE)))
  /\ UNCHANGED <<process, session, dummy>>

Settled == {"ready", "rejected"}

\* getDummyHash: the promise is made if there is none.
LoginUnknown(r) ==
  /\ Handling(r, {"login"})
  /\ Becomes(r, [request[r] EXCEPT !.stage = "hash"])
  /\ dummy' = IF dummy = "none" THEN "computing" ELSE dummy
  /\ UNCHANGED <<process, session>>

HashReady ==
  /\ dummy = "computing"
  /\ dummy' = "ready"
  /\ UNCHANGED <<process, session, request>>

\* Mutant of AfterFailure: the rejected promise is kept.
KeptRejected == "rejected"

AfterFailure == "none"

\* Everyone who awaits the promise is told, and answers that the credentials
\* are not valid.
HashFails ==
  /\ dummy = "computing"
  /\ dummy' = AfterFailure
  /\ request' = [r \in Request |->
       IF IsAt(r, "hash") THEN Answers([request[r] EXCEPT !.unlucky = TRUE], Domain("1100"))
       ELSE request[r]]
  /\ UNCHANGED <<process, session>>

\* The answer is the same if the verification fails, or the hash has.
VerifyAgainstDummy(r) ==
  /\ IsAt(r, "hash")
  /\ dummy \in Settled
  /\ \E fails \in BOOLEAN :
       LET ready == dummy = "ready"
           s == [request[r] EXCEPT !.verified = ready /\ ~fails, !.unlucky = ready /\ fails]
       IN Becomes(r, Answers(s, Domain("1100")))
  /\ UNCHANGED <<process, session, dummy>>

-----------------------------------------------------------------------------
(***************************************************************************)
(* Failures, answers, sessions.                                            *)
(***************************************************************************)

\* What the guard or the use case awaits fails, or an error is thrown that is
\* no rule; a save whose answer is lost may have been carried out.
Breaks(r) ==
  /\ request[r].stage \in {"session", "handle"}
  /\ \E done \in BOOLEAN :
       /\ done => IsAt(r, "handle") /\ request[r].left > 0
       /\ Becomes(r, Answers([request[r] EXCEPT !.broke = TRUE, !.saved = @ \/ done], Failure))
  /\ UNCHANGED <<process, session, dummy>>

Answered(r) ==
  /\ IsAt(r, "answered")
  /\ Becomes(r, Idle)
  /\ UNCHANGED <<process, session, dummy>>

\* Another request, of any process, ends the session: exchanges it, closes
\* it, or the row goes with its user.
SessionEnds ==
  /\ session' \in CASE session = "live" -> {"rotated", "closed", "missing"}
                    [] session \in {"rotated", "closed"} -> {"missing"}
                    [] session = "missing" -> {}
  /\ UNCHANGED <<process, dummy, request>>

(***************************************************************************)
(* The process.                                                            *)
(***************************************************************************)

Listen ==
  /\ process = "starting"
  /\ process' = "up"
  /\ UNCHANGED <<session, dummy, request>>

Exit ==
  /\ process' = "down"
  /\ dummy' = "none"
  /\ request' = [r \in Request |-> Idle]
  /\ UNCHANGED session

BootFails == process = "starting" /\ Exit

\* uncaughtException, unhandledRejection: the second one finds the process
\* terminating.
Fatal ==
  /\ process = "up"
  /\ process' = "closing"
  /\ UNCHANGED <<session, dummy, request>>

\* The orderly close ends, well or badly; or it never does.
ShutdownSettles == process = "closing" /\ Exit

\* Mutant of ForceExit: the timer is cleared by the close that has begun.
NoForceExit == process = "closing" /\ FALSE /\ Exit

ForceExit == process = "closing" /\ Exit

-----------------------------------------------------------------------------
Init ==
  /\ process = "starting"
  /\ session \in {"live", "rotated"}
  /\ dummy = "none"
  /\ request = [r \in Request |-> Idle]

RequestStep(r) ==
  \/ OriginGuard(r)
  \/ JwtAuthGuard(r)
  \/ EnsureSessionIsUsable(r)
  \/ TenantScopeGuard(r)
  \/ ValidationPipe(r)
  \/ Refuse(r)
  \/ Read(r)
  \/ Save(r)
  \/ Publish(r)
  \/ Refresh(r)
  \/ LoginKnown(r)
  \/ LoginUnknown(r)
  \/ VerifyAgainstDummy(r)

ProcessStep == Listen \/ BootFails \/ Fatal \/ ShutdownSettles \/ ForceExit

Next ==
  \/ \E r \in Request : Arrive(r) \/ RequestStep(r) \/ Breaks(r) \/ Answered(r)
  \/ HashReady \/ HashFails
  \/ SessionEnds
  \/ ProcessStep

Spec == Init /\ [][Next]_vars

\* Node runs what is ready, argon2 and the timer come to an end; the close of
\* the process need not.
FairSpec ==
  /\ Spec
  /\ \A r \in Request : WF_vars(RequestStep(r))
  /\ WF_vars(HashReady \/ HashFails)
  /\ WF_vars(ForceExit)

-----------------------------------------------------------------------------
(***************************************************************************)
(* Properties.                                                             *)
(***************************************************************************)

Code == DOMAIN Category \cup Refusal \cup {"0000", "0001", "none"}

\* Type correctness; every answer has a status (AllExceptionsFilter).
TypeOK ==
  /\ process \in {"starting", "up", "closing", "down"}
  /\ session \in {"live", "rotated", "closed", "missing"}
  /\ dummy \in {"none", "computing"} \cup Settled
  /\ request \in
       [Request ->
          [stage : Stage, sent : Shape, user : BOOLEAN, late : BOOLEAN, left : 0 .. MaxSave,
           saved : BOOLEAN, owed : 0 .. MaxEvent, broke : BOOLEAN, verified : BOOLEAN,
           unlucky : BOOLEAN,
           answer : [status : {0, 200, 400, 401, 403, 404, 409, 500, 503}, code : Code]]]
  /\ \A r \in Request : IsAt(r, "answered") => request[r].answer.status # 0

\* What an answer tells, whatever failed on the way.  Success: every save was
\* made, and every event offered to its listeners.  A failure of the server:
\* the use case itself failed, not a listener of what it had saved (only then
\* does the client not know what was).  A refusal: nothing was saved, but by
\* the alarm of a refresh, by a call of the seed that stopped on its way, and
\* by a product created that cannot be shown (EventEmitterPublisher.publish,
\* AllExceptionsFilter, ConfigureProductBranchUseCase, RunSeedUseCase).
AnswerTellsWhatHappened ==
  \A r \in Request :
    IsAt(r, "answered") =>
      LET status == request[r].answer.status IN
      /\ status = 200 => request[r].left = 0 /\ request[r].owed = 0
      /\ status = 500 => request[r].broke
      /\ status \notin {200, 500} /\ request[r].saved =>
           request[r].sent.does \in {"refresh", "seed", "create"}

\* Whatever takes effect or is shown was asked for with a token of a session
\* still open when the request came, names no other business, comes from no
\* foreign page and has passed validation; each check is made although it
\* needs what another one left (AuthModule: the order of the guards).
OnlyTheAdmittedAct ==
  \A r \in Request :
    LET s == request[r].sent IN
    request[r].saved \/ request[r].answer.status = 200 =>
      /\ s.safe \/ s.origin # "foreign"
      /\ s.valid
      /\ s.does \notin Public => s.token = "good" /\ ~request[r].late /\ "other" \notin s.tenants

\* Who is told that the credentials are not valid had a password verified,
\* his or nobody's, unless argon2 failed for him himself: in his verification,
\* or in the hash he was waiting for.  One failure does not spare the later
\* ones the time (Argon2PasswordVerifier.getDummyHash).
RefusalTakesItsTime ==
  \A r \in Request :
    request[r].answer.code = "1100" => request[r].verified \/ request[r].unlucky

\* A rule that refuses a request is told from a failure of the server
\* (docs/manejo-de-errores-y-logs.md: code and status are the catalog's).
RefusalIsNoFailure ==
  \A r \in Request : request[r].answer.code \in Refusal => request[r].answer.status < 500

\* A process that broke ends, although its close may hang, and a request is
\* answered or ends with the process, although several wait for one hash
\* (registerProcessErrorHandlers, Argon2PasswordVerifier.getDummyHash).
NothingHangs ==
  /\ process = "closing" ~> process = "down"
  /\ \A r \in Request : InFlight(r) ~> ~InFlight(r)

=============================================================================
