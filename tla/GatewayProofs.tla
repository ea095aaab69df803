---------------------------- MODULE GatewayProofs ---------------------------
(***************************************************************************)
(* What holds of Gateway for every number of requests, whatever clients    *)
(* send, whatever rules the use cases find broken, however many events a   *)
(* save has and however many saves the seed.                               *)
(*                                                                         *)
(* The argument: what a request has been through can be read off its stage *)
(* (Sound), because every stage is entered from the one before it; the     *)
(* session never reopens, so a request let in was not late; a use case     *)
(* comes back from a save only if it is the seed or shows what it saved;   *)
(* and the promise of the dummy hash, when it is settled, is fulfilled.    *)
(***************************************************************************)
EXTENDS Gateway, TLAPS

USE EventBound, SaveBound, RefusalAssumption, SentAssumption

-----------------------------------------------------------------------------
(***************************************************************************)
(* The inductive invariant.                                                *)
(***************************************************************************)

Answer == [status : {0, 200, 400, 401, 403, 404, 409, 500, 503}, code : Code]

Rejection == [status : {400, 401, 403, 404, 409, 503}, code : Code]

RequestState ==
  [stage : Stage, sent : Shape, user : BOOLEAN, late : BOOLEAN, left : 0 .. MaxSave,
   saved : BOOLEAN, owed : 0 .. MaxEvent, broke : BOOLEAN, verified : BOOLEAN,
   unlucky : BOOLEAN, answer : Answer]

\* What OriginGuard, JwtAuthGuard with ensureSessionIsUsable, TenantScopeGuard
\* and the pipe have seen of a request.
FromHome(s) == s.sent.safe \/ s.sent.origin # "foreign"
IsPublic(s) == s.sent.does \in Public
Known(s) == ~IsPublic(s) => s.sent.token = "good" /\ s.user /\ ~s.late
InScope(s) == ~IsPublic(s) => "other" \notin s.sent.tenants
Admitted(s) == FromHome(s) /\ Known(s) /\ InScope(s) /\ s.sent.valid

\* Who may save and come back: a use case of several saves, or one that then
\* shows what it saved.
OneSave(s) == s.sent.does # "seed" => s.left <= IF s.stage = "publish" THEN 0 ELSE 1
Back(s) == s.sent.does = "seed" \/ (s.sent.does \in Shown /\ s.left = 0)

\* Who may be refused after a save.
SavedAnyway(s) == s.saved => s.sent.does \in {"refresh", "seed", "create"}

\* What has happened to a request that is still being handled.
SoundOnTheWay(s) ==
  /\ s.answer = Unanswered
  /\ s.stage # "publish" => s.owed = 0
  /\ s.saved => s.stage = "publish" \/ (s.stage = "handle" /\ Back(s))
  /\ OneSave(s)
  /\ s.stage \in {"jwt", "session", "tenant", "pipe", "handle", "hash", "publish"} => FromHome(s)
  /\ s.stage = "session" => ~IsPublic(s) /\ s.sent.token = "good"
  /\ s.stage \in {"tenant", "pipe", "handle", "hash", "publish"} => Known(s)
  /\ s.stage \in {"pipe", "handle", "hash", "publish"} => InScope(s)
  /\ s.stage \in {"handle", "hash", "publish"} => s.sent.valid

\* What has happened to a request that was answered.
SoundInTheEnd(s) ==
  /\ s.answer.status # 0
  /\ s.answer.status = 200 => s.left = 0 /\ s.owed = 0
  /\ s.answer.status = 500 => s.broke
  /\ s.answer.status \notin {200, 500} => SavedAnyway(s)
  /\ s.saved \/ s.answer.status = 200 => Admitted(s)
  /\ s.answer.code = "1100" => s.verified \/ s.unlucky

Sound(s) == IF s.stage = "answered" THEN SoundInTheEnd(s) ELSE SoundOnTheWay(s)

GInv ==
  /\ process \in {"starting", "up", "closing", "down"}
  /\ session \in {"live", "rotated", "closed", "missing"}
  /\ dummy \in {"none", "computing", "ready"}
  /\ request \in [Request -> RequestState]
  /\ \A r \in Request : Sound(request[r]) /\ (request[r].late => ~SessionIsOpen)

-----------------------------------------------------------------------------
(***************************************************************************)
(* The path of a request and the catalog of answers.                       *)
(***************************************************************************)

LEMMA NextStages ==
  /\ Path[1] = "origin"
  /\ NextStage("origin") = "jwt"
  /\ NextStage("jwt") = "tenant"
  /\ NextStage("tenant") = "pipe"
  /\ NextStage("pipe") = "handle"
<1>1. Len(Path) = 5 /\ Path[1] = "origin" /\ Path[2] = "jwt" /\ Path[3] = "tenant"
      /\ Path[4] = "pipe" /\ Path[5] = "handle"
  BY DEF Path, Guards
<1>2. 1 .. Len(Path) = {1, 2, 3, 4, 5}
  BY <1>1
<1>3. ASSUME NEW i \in {1, 2, 3, 4, 5}
      PROVE  (CHOOSE j \in {1, 2, 3, 4, 5} : Path[j] = Path[i]) = i
  <2>1. \A j \in {1, 2, 3, 4, 5} : Path[j] = Path[i] => j = i
    BY <1>1
  <2>2. QED
    BY <2>1
<1>4. QED
  BY <1>1, <1>2, <1>3 DEF NextStage

LEMMA Statuses ==
  /\ \A code : Domain(code).status \in {400, 401, 403, 404, 409, 503} /\ Domain(code).code = code
  /\ \A status : Framework(status).code \in {"1000", "1001", "2000"}
BY DEF Domain, Entry, Category, StatusOf, Framework

-----------------------------------------------------------------------------
(***************************************************************************)
(* The steps, one by one.                                                  *)
(***************************************************************************)

LEMMA Codes ==
  /\ Refusal \cup {"1000", "1001", "1100", "1101", "1107", "1109", "2000", "9999",
                   "0000", "0001", "none"} \subseteq Code
  /\ Unanswered \in [status : {0}, code : Code]
  /\ \A code \in Code : Domain(code) \in [status : {400, 401, 403, 404, 409, 503}, code : Code]
  /\ \A status : Framework(status).code \in Code
BY Statuses DEF Code, Category, Domain, Unanswered

\* Only a call of the seed has more than one save to make.
LEMMA SavesOfOne ==
  \A does : Saves(does) \subseteq 0 .. MaxSave /\ (does # "seed" => Saves(does) \subseteq {0, 1})
<1>1. 0 \in 0 .. MaxSave /\ 1 \in 0 .. MaxSave /\ 1 .. MaxSave \subseteq 0 .. MaxSave
  OBVIOUS
<1>2. QED
  BY <1>1 DEF Saves

LEMMA Starts ==
  /\ Idle \in RequestState /\ Sound(Idle) /\ ~Idle.late
  /\ \A s \in Sent, late \in BOOLEAN : \A left \in Saves(s.does) :
       LET n == Arrived(s, late, left) IN n \in RequestState /\ Sound(n) /\ n.late = late
<1>1. ASSUME NEW s \in Shape, NEW late \in BOOLEAN, NEW left \in 0 .. MaxSave,
             s.does # "seed" => left \in {0, 1}
      PROVE  LET n == Arrived(s, late, left) IN
             /\ n \in RequestState /\ n.stage = "origin" /\ n.late = late /\ n.left = left
             /\ n.sent = s /\ Sound(n)
  <2> DEFINE n == Arrived(s, late, left)
  <2>1. /\ n.stage = "origin" /\ n.late = late /\ ~n.saved /\ n.answer = Unanswered /\ n.owed = 0
        /\ n.left = left /\ n.sent = s
    BY NextStages DEF Arrived
  <2>2. n \in RequestState
    <3>1. /\ Unanswered \in Answer
          /\ Path[1] \in Stage /\ 0 \in 0 .. MaxEvent
      BY Codes, NextStages DEF Stage, Unanswered, Answer
    <3>2. QED
      BY <3>1 DEF Arrived, RequestState
  <2> HIDE DEF n
  <2>3. Sound(n)
    BY <1>1, <2>1 DEF Sound, SoundOnTheWay, OneSave
  <2>4. QED
    BY <2>1, <2>2, <2>3 DEF n
<1>2. (CHOOSE s \in Shape : s.does = "login") \in Shape
  <2> DEFINE e == [does |-> "login", safe |-> TRUE, origin |-> "none", token |-> "none",
                   tenants |-> {}, valid |-> TRUE]
  <2>1. e \in Shape /\ e.does = "login"
    BY DEF Shape, Works
  <2>2. QED
    BY <2>1
<1>3. Idle \in RequestState /\ Sound(Idle) /\ ~Idle.late
  <2> DEFINE e == CHOOSE s \in Shape : s.does = "login"
             n == Arrived(e, FALSE, 0)
  <2>1. n \in RequestState /\ n.stage = "origin" /\ ~n.late /\ n.left = 0 /\ Sound(n)
    <3>1. e \in Shape /\ 0 \in 0 .. MaxSave /\ FALSE \in BOOLEAN
      BY <1>2
    <3> HIDE DEF e
    <3>2. QED
      BY <1>1, <3>1
  <2>2. Idle = [n EXCEPT !.stage = "idle"]
    BY DEF Idle
  <2> HIDE DEF n
  <2>3. n.answer = Unanswered /\ n.saved = FALSE /\ n.owed = 0
    BY <2>1 DEF Sound, SoundOnTheWay, RequestState
  <2>4. /\ Idle \in RequestState /\ Idle.stage = "idle" /\ Idle.late = n.late
        /\ Idle.answer = n.answer /\ Idle.saved = n.saved /\ Idle.owed = n.owed
        /\ Idle.left = n.left
    BY <2>1, <2>2 DEF RequestState, Stage
  <2>5. QED
    BY <2>1, <2>3, <2>4 DEF Sound, SoundOnTheWay, OneSave
<1>4. QED
  BY <1>1, <1>3, SavesOfOne

LEMMA GatewayInit == Init => GInv
BY Starts DEF Init, GInv

\* What a step must show of the request it moves.
LEMMA Moved ==
  ASSUME GInv, NEW r \in Request, NEW s \in RequestState, Sound(s), Becomes(r, s),
         s.late => ~SessionIsOpen,
         UNCHANGED <<process, session>>, dummy' \in {"none", "computing", "ready"}
  PROVE  GInv'
BY DEF GInv, Becomes, SessionIsOpen

\* The fields a request has after it passed a stage, or was answered.
LEMMA Fields ==
  ASSUME NEW s \in RequestState,
         NEW a \in Answer
  PROVE  LET n == Answers(s, a) IN
         /\ n \in RequestState
         /\ n.stage = "answered" /\ n.answer = a /\ n.sent = s.sent /\ n.late = s.late
         /\ n.user = s.user /\ n.saved = s.saved /\ n.owed = s.owed /\ n.left = s.left
         /\ n.broke = s.broke /\ n.verified = s.verified /\ n.unlucky = s.unlucky
<1>1. "answered" \in Stage
  BY DEF Stage
<1>2. QED
  BY <1>1 DEF RequestState, Answers

\* An answer that is no success.
LEMMA Refused ==
  ASSUME NEW s \in RequestState,
         NEW a \in [status : {400, 401, 403, 404, 409, 500, 503}, code : Code],
         s.saved => Admitted(s),
         a.status = 500 => s.broke,
         a.status # 500 => SavedAnyway(s),
         a.code # "1100" \/ s.verified \/ s.unlucky
  PROVE  Answers(s, a) \in RequestState /\ Sound(Answers(s, a)) /\ Answers(s, a).late = s.late
<1> DEFINE n == Answers(s, a)
<1>1. a \in Answer /\ a.status \notin {0, 200}
  BY DEF Answer
<1>2. /\ n \in RequestState /\ n.stage = "answered" /\ n.answer = a /\ n.late = s.late
      /\ n.saved = s.saved /\ n.verified = s.verified /\ n.unlucky = s.unlucky
      /\ n.broke = s.broke /\ n.sent = s.sent /\ n.user = s.user
  BY <1>1, Fields
<1> HIDE DEF n
<1>3. SavedAnyway(s) => SavedAnyway(n)
  BY <1>2 DEF SavedAnyway
<1>4. Admitted(s) => Admitted(n)
  BY <1>2 DEF Admitted, FromHome, Known, InScope, IsPublic
<1>5. Sound(n)
  BY <1>1, <1>2, <1>3, <1>4 DEF Sound, SoundInTheEnd
<1>6. QED
  BY <1>2, <1>5 DEF n

LEMMA Staged ==
  ASSUME NEW s \in RequestState, NEW stage \in Stage
  PROVE  LET n == [s EXCEPT !.stage = stage] IN
         /\ n \in RequestState
         /\ n.stage = stage /\ n.answer = s.answer /\ n.sent = s.sent /\ n.late = s.late
         /\ n.user = s.user /\ n.saved = s.saved /\ n.owed = s.owed /\ n.left = s.left
BY DEF RequestState

\* A request that goes on to the next stage having earned it.
LEMMA GoesOn ==
  ASSUME GInv, NEW r \in Request, request[r].stage \notin {"answered", "publish"},
         NEW stage \in Stage \ {"answered", "publish"}, ~request[r].saved,
         Becomes(r, [request[r] EXCEPT !.stage = stage]),
         stage \in {"jwt", "session", "tenant", "pipe", "handle", "hash"} => FromHome(request[r]),
         stage = "session" => ~IsPublic(request[r]) /\ request[r].sent.token = "good",
         stage \in {"tenant", "pipe", "handle", "hash"} => Known(request[r]),
         stage \in {"pipe", "handle", "hash"} => InScope(request[r]),
         stage \in {"handle", "hash"} => request[r].sent.valid,
         UNCHANGED <<process, session>>, dummy' \in {"none", "computing", "ready"}
  PROVE  GInv'
<1> DEFINE s == request[r]
           n == [s EXCEPT !.stage = stage]
<1>1. s \in RequestState /\ Sound(s) /\ (s.late => ~SessionIsOpen)
  BY DEF GInv
<1>2. /\ n \in RequestState /\ n.stage = stage /\ n.answer = s.answer /\ n.sent = s.sent
      /\ n.late = s.late /\ n.user = s.user /\ n.saved = s.saved /\ n.owed = s.owed
      /\ n.left = s.left
  BY <1>1, Staged
<1>3. s.answer = Unanswered /\ s.owed = 0 /\ OneSave(s)
  BY <1>1 DEF Sound, SoundOnTheWay
<1> HIDE DEF n
<1>4. OneSave(n)
  BY <1>2, <1>3 DEF OneSave
<1>5. Sound(n)
  BY <1>2, <1>3, <1>4 DEF Sound, SoundOnTheWay, FromHome, Known, InScope, IsPublic
<1>6. QED
  BY <1>1, <1>2, <1>5, Moved DEF n

\* A request whose answer is no success, before it saved anything.
LEMMA IsRefused ==
  ASSUME GInv, NEW r \in Request, ~request[r].saved, NEW a \in Rejection, a.code # "1100",
         Becomes(r, Answers(request[r], a)), UNCHANGED <<process, session, dummy>>
  PROVE  GInv'
<1> DEFINE s == request[r]
           n == Answers(s, a)
<1>1. /\ s \in RequestState /\ (s.late => ~SessionIsOpen)
      /\ dummy' \in {"none", "computing", "ready"}
  BY DEF GInv
<1>2. n \in RequestState /\ Sound(n) /\ n.late = s.late
  BY <1>1, Refused DEF Rejection, SavedAnyway
<1> HIDE DEF n
<1>3. QED
  BY <1>1, <1>2, Moved DEF n

LEMMA AnswersOfGuards ==
  /\ Domain("1109") \in Rejection /\ Domain("1107") \in Rejection
  /\ Framework(401) \in Rejection /\ Framework(400) \in Rejection
  /\ Domain("1109").code # "1100" /\ Domain("1107").code # "1100"
  /\ Framework(401).code # "1100" /\ Framework(400).code # "1100"
<1>1. \A status \in {400, 401} : Framework(status) \in Rejection
  BY Codes DEF Framework, Rejection
<1>2. "1109" \in Code /\ "1107" \in Code
  BY Codes
<1>3. QED
  BY <1>1, <1>2, Codes, Statuses DEF Rejection

LEMMA GuardsStep ==
  ASSUME GInv, NEW r \in Request,
         \/ OriginGuard(r) \/ JwtAuthGuard(r) \/ EnsureSessionIsUsable(r)
         \/ TenantScopeGuard(r) \/ ValidationPipe(r)
  PROVE  GInv'
<1> DEFINE s == request[r]
<1>1. /\ s \in RequestState /\ (s.late => ~SessionIsOpen)
      /\ dummy \in {"none", "computing", "ready"}
      /\ s.stage \in {"origin", "jwt", "session", "tenant", "pipe"} => SoundOnTheWay(s) /\ ~s.saved
      /\ {"jwt", "session", "tenant", "pipe", "handle"} \subseteq Stage \ {"answered", "publish"}
  BY DEF GInv, Sound, SoundOnTheWay, Stage
<1>2. ASSUME OriginGuard(r) PROVE GInv'
  <2>1. CASE FromHome(s)
    BY <1>1, <1>2, <2>1, NextStages, GoesOn DEF OriginGuard, IsAt, Passes, FromHome
  <2>2. CASE ~FromHome(s)
    BY <1>1, <1>2, <2>2, AnswersOfGuards, IsRefused DEF OriginGuard, IsAt, FromHome
  <2>3. QED
    BY <2>1, <2>2
<1>3. ASSUME JwtAuthGuard(r) PROVE GInv'
  <2>1. s.stage = "jwt" /\ UNCHANGED <<process, session, dummy>>
    BY <1>3 DEF JwtAuthGuard, IsAt
  <2>2. FromHome(s)
    BY <1>1, <2>1 DEF SoundOnTheWay
  <2>3. CASE IsPublic(s)
    <3>1. Becomes(r, [s EXCEPT !.stage = "tenant"])
      BY <1>3, <2>3, NextStages DEF JwtAuthGuard, Passes, IsPublic
    <3>2. QED
      BY <1>1, <2>1, <2>2, <2>3, <3>1, GoesOn DEF Known
  <2>4. CASE ~IsPublic(s) /\ s.sent.token # "good"
    <3>1. Becomes(r, Answers(s, Framework(401)))
      BY <1>3, <2>4 DEF JwtAuthGuard, IsPublic
    <3>2. QED
      BY <1>1, <2>1, <3>1, AnswersOfGuards, IsRefused
  <2>5. CASE ~IsPublic(s) /\ s.sent.token = "good"
    <3>1. Becomes(r, [s EXCEPT !.stage = "session"])
      BY <1>3, <2>5 DEF JwtAuthGuard, IsPublic
    <3>2. QED
      BY <1>1, <2>1, <2>2, <2>5, <3>1, GoesOn
  <2>6. QED
    BY <2>3, <2>4, <2>5
<1>4. ASSUME EnsureSessionIsUsable(r) PROVE GInv'
  <2>1. s.stage = "session" /\ UNCHANGED <<process, session, dummy>>
    BY <1>4 DEF EnsureSessionIsUsable, IsAt
  <2>2. FromHome(s) /\ s.sent.token = "good" /\ s.answer = Unanswered /\ ~s.saved
        /\ s.owed = 0 /\ OneSave(s)
    BY <1>1, <2>1 DEF SoundOnTheWay
  <2>3. CASE SessionIsOpen
    <3> DEFINE n == [s EXCEPT !.stage = "tenant", !.user = TRUE]
    <3>1. Becomes(r, n)
      BY <1>4, <2>3, NextStages DEF EnsureSessionIsUsable
    <3>2. /\ n \in RequestState /\ n.stage = "tenant" /\ n.user = TRUE /\ n.answer = s.answer
          /\ n.sent = s.sent /\ n.late = s.late /\ n.saved = s.saved /\ n.owed = s.owed
          /\ n.left = s.left
      BY <1>1 DEF RequestState
    <3> HIDE DEF n
    <3>3. OneSave(n)
      BY <2>1, <2>2, <3>2 DEF OneSave
    <3>4. Sound(n)
      BY <1>1, <2>2, <2>3, <3>2, <3>3 DEF Sound, SoundOnTheWay, FromHome, Known, IsPublic
    <3>5. QED
      BY <1>1, <2>1, <3>1, <3>2, <3>4, Moved
  <2>4. CASE ~SessionIsOpen
    BY <1>4, <2>1, <2>2, <2>4, AnswersOfGuards, IsRefused DEF EnsureSessionIsUsable
  <2>5. QED
    BY <2>3, <2>4
<1>5. ASSUME TenantScopeGuard(r) PROVE GInv'
  <2>1. s.stage = "tenant" /\ UNCHANGED <<process, session, dummy>>
    BY <1>5 DEF TenantScopeGuard, IsAt
  <2>2. FromHome(s) /\ Known(s) /\ ~s.saved
    BY <1>1, <2>1 DEF SoundOnTheWay
  <2>3. CASE IsPublic(s) \/ ~s.user \/ "other" \notin s.sent.tenants
    <3>1. Becomes(r, [s EXCEPT !.stage = "pipe"]) /\ InScope(s)
      BY <1>5, <2>2, <2>3, NextStages DEF TenantScopeGuard, Passes, InScope, Known, IsPublic
    <3>2. QED
      BY <1>1, <2>1, <2>2, <3>1, GoesOn
  <2>4. CASE ~(IsPublic(s) \/ ~s.user \/ "other" \notin s.sent.tenants)
    BY <1>5, <2>1, <2>2, <2>4, AnswersOfGuards, IsRefused DEF TenantScopeGuard, IsPublic
  <2>5. QED
    BY <2>3, <2>4
<1>6. ASSUME ValidationPipe(r) PROVE GInv'
  <2>1. s.stage = "pipe" /\ UNCHANGED <<process, session, dummy>>
    BY <1>6 DEF ValidationPipe, IsAt
  <2>2. FromHome(s) /\ Known(s) /\ InScope(s) /\ ~s.saved
    BY <1>1, <2>1 DEF SoundOnTheWay
  <2>3. CASE s.sent.valid
    <3>1. Becomes(r, [s EXCEPT !.stage = "handle"])
      BY <1>6, <2>3, NextStages DEF ValidationPipe, Passes
    <3>2. QED
      BY <1>1, <2>1, <2>2, <2>3, <3>1, GoesOn
  <2>4. CASE ~s.sent.valid
    BY <1>6, <2>1, <2>2, <2>4, AnswersOfGuards, IsRefused DEF ValidationPipe
  <2>5. QED
    BY <2>3, <2>4
<1>7. QED
  BY <1>2, <1>3, <1>4, <1>5, <1>6

\* A success, which tells that nothing is left to do.
LEMMA Succeeds ==
  ASSUME NEW s \in RequestState, NEW empty \in BOOLEAN, s.left = 0, s.owed = 0, Admitted(s)
  PROVE  /\ Answers(s, Success(empty)) \in RequestState
         /\ Sound(Answers(s, Success(empty)))
         /\ Answers(s, Success(empty)).late = s.late
<1> DEFINE a == Success(empty)
           n == Answers(s, a)
<1>1. a \in Answer /\ a.status = 200 /\ a.code # "1100"
  BY Codes DEF Success, Answer
<1> HIDE DEF a
<1>2. /\ n \in RequestState /\ n.stage = "answered" /\ n.answer = a /\ n.sent = s.sent
      /\ n.late = s.late /\ n.user = s.user /\ n.owed = s.owed /\ n.left = s.left
  BY <1>1, Fields
<1> HIDE DEF n
<1>3. Admitted(n)
  BY <1>2 DEF Admitted, FromHome, Known, InScope, IsPublic
<1>4. Sound(n)
  BY <1>1, <1>2, <1>3 DEF Sound, SoundInTheEnd
<1>5. QED
  BY <1>2, <1>4 DEF n, a

\* What is known of a request once every guard and the pipe let it through.
LEMMA Inside ==
  ASSUME GInv, NEW r \in Request, request[r].stage \in {"handle", "hash", "publish"}
  PROVE  LET s == request[r] IN
         /\ s \in RequestState /\ SoundOnTheWay(s) /\ Admitted(s) /\ OneSave(s)
         /\ s.answer = Unanswered /\ (s.late => ~SessionIsOpen)
         /\ s.stage # "publish" => s.owed = 0
         /\ s.stage = "handle" /\ s.saved => Back(s)
         /\ s.stage = "hash" => ~s.saved
BY DEF GInv, Sound, SoundOnTheWay, Admitted

\* It stays sound while it is being handled, whatever it saves.
LEMMA StaysInside ==
  ASSUME NEW s \in RequestState, NEW n \in RequestState, Admitted(s),
         n.sent = s.sent, n.user = s.user, n.late = s.late, n.answer = Unanswered,
         n.stage \in {"handle", "publish"}, n.stage = "handle" => n.owed = 0,
         n.stage = "handle" /\ n.saved => Back(n),
         OneSave(n)
  PROVE  Sound(n)
<1>1. Admitted(n)
  BY DEF Admitted, FromHome, Known, InScope, IsPublic
<1>2. QED
  BY <1>1 DEF Sound, SoundOnTheWay, Admitted

LEMMA UseCasesStep ==
  ASSUME GInv, NEW r \in Request, Refuse(r) \/ Read(r) \/ Save(r) \/ Publish(r)
  PROVE  GInv'
<1> DEFINE s == request[r]
<1>1. s.stage \in {"handle", "publish"} /\ UNCHANGED <<process, session, dummy>>
  BY DEF Refuse, Read, Save, Publish, Handling, IsAt
<1>2. /\ s \in RequestState /\ Admitted(s) /\ OneSave(s) /\ s.answer = Unanswered
      /\ s.late => ~SessionIsOpen
      /\ s.stage = "handle" => s.owed = 0 /\ (s.saved => Back(s))
      /\ dummy \in {"none", "computing", "ready"}
      /\ s.left \in 0 .. MaxSave /\ s.owed \in 0 .. MaxEvent /\ s.saved \in BOOLEAN
  <2>1. /\ s \in RequestState /\ Admitted(s) /\ OneSave(s) /\ s.answer = Unanswered
        /\ s.late => ~SessionIsOpen
        /\ s.stage = "handle" => s.owed = 0 /\ (s.saved => Back(s))
        /\ dummy \in {"none", "computing", "ready"}
    BY <1>1, Inside DEF GInv
  <2>2. QED
    BY <2>1 DEF RequestState
<1>3. ASSUME Refuse(r) PROVE GInv'
  <2>1. s.stage = "handle" /\ (s.left > 0 \/ s.sent.does \in {"read", "create"})
    BY <1>3 DEF Refuse, Handling, IsAt
  <2>2. SavedAnyway(s)
    BY <1>2, <2>1 DEF SavedAnyway, Back, Shown, RequestState
  <2>3. PICK code \in Refusal : Becomes(r, Answers(s, Domain(code)))
    BY <1>3 DEF Refuse
  <2>4. /\ Domain(code) \in [status : {400, 401, 403, 404, 409, 500, 503}, code : Code]
        /\ Domain(code).status # 500 /\ Domain(code).code # "1100"
    BY Codes, Statuses
  <2>5. QED
    BY <1>1, <1>2, <2>2, <2>3, <2>4, Refused, Moved
<1>4. ASSUME Read(r) PROVE GInv'
  <2>1. s.stage = "handle" /\ s.left = 0
    BY <1>4 DEF Read, IsAt
  <2>2. PICK empty \in BOOLEAN : Becomes(r, Answers(s, Success(empty)))
    BY <1>4 DEF Read
  <2>3. QED
    BY <1>1, <1>2, <2>1, <2>2, Succeeds, Moved
<1>5. ASSUME Save(r) PROVE GInv'
  <2>1. s.stage = "handle" /\ s.left > 0
    BY <1>5 DEF Save, Handling, IsAt
  <2>2. PICK hit \in BOOLEAN, n \in 0 .. MaxEvent :
          Becomes(r, [s EXCEPT !.stage = "publish", !.left = @ - 1, !.saved = @ \/ hit, !.owed = n])
    BY <1>5 DEF Save
  <2> DEFINE x == [s EXCEPT !.stage = "publish", !.left = @ - 1, !.saved = @ \/ hit, !.owed = n]
  <2>3. "publish" \in Stage /\ s.left - 1 \in 0 .. MaxSave /\ (s.saved \/ hit) \in BOOLEAN
    BY <1>2, <2>1 DEF Stage, RequestState
  <2>4. /\ x \in RequestState /\ x.stage = "publish" /\ x.left = s.left - 1 /\ x.answer = s.answer
        /\ x.sent = s.sent /\ x.user = s.user /\ x.late = s.late
    BY <1>2, <2>3 DEF RequestState
  <2> HIDE DEF x
  <2>5. OneSave(x)
    BY <1>2, <2>1, <2>3, <2>4 DEF OneSave
  <2>6. Sound(x)
    BY <1>2, <2>4, <2>5, StaysInside
  <2>7. QED
    BY <1>1, <1>2, <2>2, <2>4, <2>6, Moved DEF x
<1>6. ASSUME Publish(r) PROVE GInv'
  <2> DEFINE more == s.left > 0 \/ s.sent.does \in Shown
             told == [s EXCEPT !.owed = @ - 1]
  <2>1. s.stage = "publish"
    BY <1>6 DEF Publish, IsAt
  <2>2. \/ s.owed > 0 /\ \E fails \in BOOLEAN : Becomes(r, IF fails THEN Caught(told) ELSE told)
        \/ s.owed = 0 /\ more /\ Becomes(r, [s EXCEPT !.stage = "handle"])
        \/ s.owed = 0 /\ ~more /\ Becomes(r, Answers(s, Success(FALSE)))
    BY <1>6 DEF Publish
  <2>3. s.owed > 0 => s.owed # 0
    BY <1>2
  <2>4. CASE s.owed > 0
    <3> DEFINE x == [s EXCEPT !.owed = @ - 1]
    <3>1. Becomes(r, x)
      BY <2>2, <2>3, <2>4, Zenon DEF Caught
    <3>2. /\ x \in RequestState /\ x.stage = s.stage /\ x.left = s.left /\ x.answer = s.answer
          /\ x.sent = s.sent /\ x.user = s.user /\ x.late = s.late
      BY <1>2, <2>4 DEF RequestState
    <3> HIDE DEF x
    <3>3. OneSave(x)
      BY <1>2, <3>2 DEF OneSave
    <3>4. Sound(x)
      BY <1>2, <2>1, <3>2, <3>3, StaysInside
    <3>5. QED
      BY <1>1, <1>2, <3>1, <3>2, <3>4, Moved
  <2>5. CASE s.owed = 0 /\ more
    <3> DEFINE x == [s EXCEPT !.stage = "handle"]
    <3>1. Becomes(r, x)
      BY <2>2, <2>3, <2>5, Zenon
    <3>2. /\ x \in RequestState /\ x.stage = "handle" /\ x.left = s.left /\ x.answer = s.answer
          /\ x.sent = s.sent /\ x.user = s.user /\ x.late = s.late /\ x.owed = s.owed
      BY <1>2 DEF RequestState, Stage
    <3> HIDE DEF x
    <3>3. s.left \in 0 .. MaxSave /\ (s.sent.does # "seed" => s.left <= 0)
      BY <1>2, <2>1 DEF OneSave, RequestState
    <3>4. OneSave(x) /\ Back(x)
      BY <2>5, <3>2, <3>3 DEF OneSave, Back
    <3>5. Sound(x)
      BY <1>2, <2>5, <3>2, <3>4, StaysInside
    <3>6. QED
      BY <1>1, <1>2, <3>1, <3>2, <3>5, Moved
  <2>6. CASE s.owed = 0 /\ ~more
    <3>1. Becomes(r, Answers(s, Success(FALSE)))
      BY <2>2, <2>3, <2>6, Zenon
    <3>2. s.left = 0
      BY <1>2, <2>6
    <3>3. QED
      BY <1>1, <1>2, <2>6, <3>1, <3>2, Succeeds, Moved
  <2>7. QED
    BY <1>2, <2>4, <2>5, <2>6 DEF RequestState
<1>7. QED
  BY <1>3, <1>4, <1>5, <1>6

\* What the session of a request that was let in becomes.
LEMMA DoneFields ==
  ASSUME NEW s \in RequestState, s.owed = 0, Admitted(s)
  PROVE  LET n == Done(s) IN
         n \in RequestState /\ n.late = s.late /\ n.left = 0 /\ n.owed = 0 /\ Admitted(n)
<1> DEFINE n == Done(s)
<1>1. /\ n \in RequestState /\ n.late = s.late /\ n.left = 0 /\ n.owed = 0
      /\ n.sent = s.sent /\ n.user = s.user
  <2>1. 0 \in 0 .. MaxSave
    OBVIOUS
  <2>2. QED
    BY <2>1 DEF RequestState, Done
<1> HIDE DEF n
<1>2. Admitted(n)
  BY <1>1 DEF Admitted, FromHome, Known, InScope, IsPublic
<1>3. QED
  BY <1>1, <1>2 DEF n

LEMMA SessionCodes ==
  \A code \in {"1100", "1101", "1102", "1104", "1105", "1106"} :
    /\ Domain(code) \in [status : {400, 401, 403, 404, 409, 500, 503}, code : Code]
    /\ Domain(code).status # 500 /\ Domain(code).code = code
<1>1. {"1100", "1101", "1102", "1104", "1105", "1106"} \subseteq Code
  BY DEF Code, Category
<1>2. QED
  BY <1>1, Codes, Statuses

LEMMA RefreshStep ==
  ASSUME GInv, NEW r \in Request, Refresh(r)
  PROVE  GInv'
<1> DEFINE s == request[r]
<1>1. s.stage = "handle" /\ s.sent.does = "refresh" /\ UNCHANGED <<process, session, dummy>>
  BY DEF Refresh, Handling, IsAt
<1>2. /\ s \in RequestState /\ Admitted(s) /\ s.owed = 0 /\ ~s.saved
      /\ s.late => ~SessionIsOpen
      /\ dummy \in {"none", "computing", "ready"}
  BY <1>1, Inside DEF GInv, Back, Shown
<1>3. ASSUME NEW hit \in BOOLEAN, NEW code \in {"1102", "1104", "1105", "1106"},
             Becomes(r, Answers([s EXCEPT !.saved = hit], Domain(code)))
      PROVE  GInv'
  <2> DEFINE n == [s EXCEPT !.saved = hit]
  <2>1. n \in RequestState /\ n.late = s.late /\ n.sent = s.sent /\ n.user = s.user
    BY <1>2 DEF RequestState
  <2> HIDE DEF n
  <2>2. Admitted(n) /\ SavedAnyway(n)
    BY <1>1, <1>2, <2>1 DEF Admitted, FromHome, Known, InScope, IsPublic, SavedAnyway
  <2>3. LET x == Answers(n, Domain(code)) IN x \in RequestState /\ Sound(x) /\ x.late = n.late
    BY <1>2, <1>3, <2>1, <2>2, SessionCodes, Refused
  <2>4. QED
    BY <1>1, <1>2, <1>3, <2>1, <2>3, Moved DEF n
<1>4. CASE \E code \in {"1104", "1105"} : Becomes(r, Answers(s, Domain(code)))
  <2>1. [s EXCEPT !.saved = FALSE] = s
    BY <1>2 DEF RequestState
  <2>2. QED
    BY <1>3, <1>4, <2>1
<1>5. CASE Becomes(r, Answers(Done(s), Success(FALSE)))
  BY <1>1, <1>2, <1>5, DoneFields, Succeeds, Moved
<1>6. QED
  BY <1>3, <1>4, <1>5 DEF Refresh

LEMMA LoginStep ==
  ASSUME GInv, NEW r \in Request, LoginKnown(r) \/ LoginUnknown(r) \/ VerifyAgainstDummy(r)
  PROVE  GInv'
<1> DEFINE s == request[r]
<1>1. /\ s.stage \in {"handle", "hash"} /\ (s.stage = "handle" => s.sent.does = "login")
      /\ UNCHANGED <<process, session>>
  BY DEF LoginKnown, LoginUnknown, VerifyAgainstDummy, Handling, IsAt
<1>2. /\ s \in RequestState /\ Admitted(s) /\ s.owed = 0 /\ ~s.saved
      /\ s.late => ~SessionIsOpen
      /\ dummy \in {"none", "computing", "ready"}
  BY <1>1, Inside DEF GInv, Back, Shown
<1>3. ASSUME NEW verified \in BOOLEAN, NEW unlucky \in BOOLEAN,
             NEW code \in {"1100", "1101", "1102"}, code = "1100" => verified \/ unlucky,
             UNCHANGED dummy,
             Becomes(r, Answers([s EXCEPT !.verified = verified, !.unlucky = unlucky],
                                Domain(code)))
      PROVE  GInv'
  <2> DEFINE v == [s EXCEPT !.verified = verified, !.unlucky = unlucky]
  <2>1. /\ v \in RequestState /\ v.verified = verified /\ v.unlucky = unlucky /\ ~v.saved
        /\ v.late = s.late
    BY <1>2 DEF RequestState
  <2> HIDE DEF v
  <2>2. SavedAnyway(v)
    BY <2>1 DEF SavedAnyway
  <2>3. LET x == Answers(v, Domain(code)) IN x \in RequestState /\ Sound(x) /\ x.late = v.late
    BY <1>2, <1>3, <2>1, <2>2, SessionCodes, Refused
  <2>4. QED
    BY <1>1, <1>2, <1>3, <2>1, <2>3, Moved DEF v
<1>4. ASSUME LoginKnown(r) PROVE GInv'
  <2> DEFINE v == [s EXCEPT !.verified = TRUE]
  <2>1. UNCHANGED dummy
    BY <1>4 DEF LoginKnown
  <2>2. CASE Becomes(r, Answers([s EXCEPT !.unlucky = TRUE], Domain("1100")))
    <3>1. [s EXCEPT !.unlucky = TRUE] = [s EXCEPT !.verified = s.verified, !.unlucky = TRUE]
      BY <1>2 DEF RequestState
    <3>2. s.verified \in BOOLEAN
      BY <1>2 DEF RequestState
    <3>3. QED
      BY <1>3, <2>1, <2>2, <3>1, <3>2
  <2>3. CASE \E code \in {"1100", "1101", "1102"} : Becomes(r, Answers(v, Domain(code)))
    <3>1. v = [s EXCEPT !.verified = TRUE, !.unlucky = s.unlucky] /\ s.unlucky \in BOOLEAN
      BY <1>2 DEF RequestState
    <3>2. QED
      BY <1>3, <2>1, <2>3, <3>1
  <2>4. CASE Becomes(r, Answers(Done(v), Success(FALSE)))
    <3>1. /\ v \in RequestState /\ v.late = s.late /\ v.owed = 0 /\ v.sent = s.sent
          /\ v.user = s.user
      BY <1>2 DEF RequestState
    <3> HIDE DEF v
    <3>2. Admitted(v)
      BY <1>2, <3>1 DEF Admitted, FromHome, Known, InScope, IsPublic
    <3>3. QED
      BY <1>1, <1>2, <2>1, <2>4, <3>1, <3>2, DoneFields, Succeeds, Moved
  <2>5. QED
    BY <1>4, <2>2, <2>3, <2>4 DEF LoginKnown
<1>5. ASSUME LoginUnknown(r) PROVE GInv'
  <2>1. /\ s.stage = "handle" /\ Becomes(r, [s EXCEPT !.stage = "hash"])
        /\ dummy' \in {"none", "computing", "ready"}
    BY <1>2, <1>5 DEF LoginUnknown, Handling, IsAt
  <2>2. "hash" \in Stage \ {"answered", "publish"}
    BY DEF Stage
  <2>3. QED
    BY <1>1, <1>2, <2>1, <2>2, GoesOn DEF Admitted
<1>6. ASSUME VerifyAgainstDummy(r) PROVE GInv'
  <2>1. dummy = "ready" /\ UNCHANGED dummy
    BY <1>2, <1>6 DEF VerifyAgainstDummy, Settled
  <2>2. PICK fails \in BOOLEAN :
          Becomes(r, Answers([s EXCEPT !.verified = (dummy = "ready") /\ ~fails,
                                       !.unlucky = (dummy = "ready") /\ fails], Domain("1100")))
    BY <1>6 DEF VerifyAgainstDummy
  <2> DEFINE verified == (dummy = "ready") /\ ~fails
             unlucky == (dummy = "ready") /\ fails
  <2>3. verified \in BOOLEAN /\ unlucky \in BOOLEAN /\ (verified \/ unlucky)
    BY <2>1
  <2>4. Becomes(r, Answers([s EXCEPT !.verified = verified, !.unlucky = unlucky], Domain("1100")))
    BY <2>2
  <2> HIDE DEF verified, unlucky
  <2>5. QED
    BY <1>3, <2>1, <2>3, <2>4
<1>7. QED
  BY <1>4, <1>5, <1>6

\* The steps of every request together, and those of the process.
LEMMA SharedStep ==
  ASSUME GInv, HashReady \/ HashFails \/ SessionEnds \/ ProcessStep
  PROVE  GInv'
<1>1. ASSUME HashReady PROVE GInv'
  BY <1>1 DEF HashReady, GInv, SessionIsOpen
<1>2. ASSUME HashFails PROVE GInv'
  <2>1. ASSUME NEW r \in Request
        PROVE  /\ request'[r] \in RequestState /\ Sound(request'[r])
               /\ request'[r].late => ~SessionIsOpen
    <3> DEFINE s == request[r]
               v == [s EXCEPT !.unlucky = TRUE]
    <3>1. s \in RequestState /\ Sound(s) /\ (s.late => ~SessionIsOpen)
      BY DEF GInv
    <3>2. CASE ~IsAt(r, "hash")
      BY <1>2, <3>1, <3>2 DEF HashFails
    <3>3. CASE IsAt(r, "hash")
      <4>1. request'[r] = Answers(v, Domain("1100"))
        BY <1>2, <3>3 DEF HashFails
      <4>2. ~s.saved
        BY <3>3, Inside DEF IsAt
      <4>3. v \in RequestState /\ v.unlucky = TRUE /\ ~v.saved /\ v.late = s.late
        BY <3>1, <4>2 DEF RequestState
      <4> HIDE DEF v
      <4>4. SavedAnyway(v)
        BY <4>3 DEF SavedAnyway
      <4>5. QED
        BY <3>1, <4>1, <4>3, <4>4, SessionCodes, Refused
    <3>4. QED
      BY <3>2, <3>3
  <2>2. request' \in [Request -> RequestState]
    <3>1. DOMAIN request' = Request /\ request' = [r \in Request |-> request'[r]]
      BY <1>2 DEF HashFails
    <3>2. QED
      BY <2>1, <3>1
  <2>3. dummy' = "none" /\ UNCHANGED <<process, session>>
    BY <1>2 DEF HashFails, AfterFailure
  <2>4. QED
    BY <2>1, <2>2, <2>3 DEF GInv, SessionIsOpen
<1>3. ASSUME SessionEnds PROVE GInv'
  <2>1. session' \in {"live", "rotated", "closed", "missing"} /\ (~SessionIsOpen => ~SessionIsOpen')
    BY <1>3 DEF SessionEnds, GInv, SessionIsOpen
  <2>2. QED
    BY <1>3, <2>1 DEF SessionEnds, GInv
<1>4. ASSUME Exit, process' \in {"starting", "up", "closing", "down"} PROVE GInv'
  <2>1. /\ request' = [r \in Request |-> Idle] /\ dummy' = "none" /\ session' = session
    BY <1>4 DEF Exit
  <2>2. QED
    BY <1>4, <2>1, Starts DEF GInv, SessionIsOpen
<1>5. ASSUME Listen \/ Fatal PROVE GInv'
  BY <1>5 DEF Listen, Fatal, GInv, SessionIsOpen
<1>6. ASSUME BootFails \/ ShutdownSettles \/ ForceExit PROVE GInv'
  BY <1>4, <1>6 DEF BootFails, ShutdownSettles, ForceExit, Exit
<1>7. QED
  BY <1>1, <1>2, <1>3, <1>5, <1>6 DEF ProcessStep

LEMMA GatewayStep == GInv /\ [Next]_vars => GInv'
<1> SUFFICES ASSUME GInv, [Next]_vars PROVE GInv'
  OBVIOUS
<1>1. ASSUME NEW r \in Request, Arrive(r) PROVE GInv'
  <2>1. PICK s \in Sent : \E left \in Saves(s.does) :
          Becomes(r, Arrived(s, s.does \notin Public /\ ~SessionIsOpen, left))
    BY <1>1 DEF Arrive
  <2>2. PICK left \in Saves(s.does) :
          Becomes(r, Arrived(s, s.does \notin Public /\ ~SessionIsOpen, left))
    BY <2>1
  <2> DEFINE late == s.does \notin Public /\ ~SessionIsOpen
             n == Arrived(s, late, left)
  <2>3. late \in BOOLEAN /\ (late => ~SessionIsOpen)
    BY DEF SessionIsOpen
  <2> HIDE DEF late
  <2>4. n \in RequestState /\ Sound(n) /\ n.late = late
    BY <2>3, Starts
  <2> HIDE DEF n
  <2>5. UNCHANGED <<process, session, dummy>> /\ dummy \in {"none", "computing", "ready"}
    BY <1>1 DEF Arrive, GInv
  <2>6. QED
    BY <2>2, <2>3, <2>4, <2>5, Moved DEF n, late
<1>2. ASSUME NEW r \in Request, Breaks(r) PROVE GInv'
  <2> DEFINE s == request[r]
  <2>1. PICK done \in BOOLEAN :
          /\ done => s.stage = "handle"
          /\ Becomes(r, Answers([s EXCEPT !.broke = TRUE, !.saved = @ \/ done], Failure))
    BY <1>2 DEF Breaks, IsAt
  <2> DEFINE n == [s EXCEPT !.broke = TRUE, !.saved = @ \/ done]
  <2>2. /\ s.stage \in {"session", "handle"} /\ s \in RequestState /\ (s.late => ~SessionIsOpen)
        /\ dummy \in {"none", "computing", "ready"} /\ UNCHANGED <<process, session, dummy>>
    BY <1>2 DEF Breaks, GInv
  <2>3. s.saved \/ done => Admitted(s)
    <3>1. CASE s.stage = "handle"
      BY <3>1, Inside
    <3>2. CASE s.stage = "session"
      BY <2>1, <3>2 DEF GInv, Sound, SoundOnTheWay
    <3>3. QED
      BY <2>2, <3>1, <3>2
  <2>4. /\ n \in RequestState /\ n.broke = TRUE /\ n.saved = (s.saved \/ done) /\ n.late = s.late
        /\ n.sent = s.sent /\ n.user = s.user
    <3>1. (s.saved \/ done) \in BOOLEAN
      BY <2>2 DEF RequestState
    <3>2. QED
      BY <2>2, <3>1 DEF RequestState
  <2> HIDE DEF n
  <2>5. n.saved => Admitted(n)
    BY <2>3, <2>4 DEF Admitted, FromHome, Known, InScope, IsPublic
  <2>6. /\ Failure \in [status : {400, 401, 403, 404, 409, 500, 503}, code : Code]
        /\ Failure.status = 500 /\ Failure.code # "1100"
    BY Codes DEF Failure
  <2>7. LET x == Answers(n, Failure) IN x \in RequestState /\ Sound(x) /\ x.late = n.late
    BY <2>4, <2>5, <2>6, Refused
  <2>8. QED
    BY <2>1, <2>2, <2>4, <2>7, Moved DEF n
<1>3. ASSUME NEW r \in Request, Answered(r) PROVE GInv'
  <2>1. /\ Becomes(r, Idle) /\ UNCHANGED <<process, session, dummy>>
        /\ dummy \in {"none", "computing", "ready"}
    BY <1>3 DEF Answered, GInv
  <2>2. QED
    BY <2>1, Starts, Moved
<1>4. ASSUME UNCHANGED vars PROVE GInv'
  BY <1>4 DEF vars, GInv, SessionIsOpen
<1>5. QED
  BY <1>1, <1>2, <1>3, <1>4, GuardsStep, UseCasesStep, RefreshStep, LoginStep, SharedStep
  DEF Next, RequestStep

LEMMA GatewayInvariance == Spec => []GInv
BY GatewayInit, GatewayStep, PTL DEF Spec

-----------------------------------------------------------------------------
(***************************************************************************)
(* Theorems.                                                               *)
(***************************************************************************)

\* Every variable of Gateway keeps its type, and whoever is answered gets a
\* status, whatever clients send and whatever fails.
THEOREM GatewayTypeCorrect == Spec => []TypeOK
<1>1. GInv => TypeOK
  BY DEF GInv, TypeOK, RequestState, Answer, Settled, Sound, SoundInTheEnd, IsAt
<1>2. QED
  BY <1>1, GatewayInvariance, PTL

\* A success leaves nothing undone, a failure of the server is the use case's
\* own, and a refusal has saved nothing but for the three that say so, however
\* many saves a call of the seed makes and wherever it breaks.
THEOREM AnswersAreTrue == Spec => []AnswerTellsWhatHappened
<1>1. GInv => AnswerTellsWhatHappened
  BY DEF GInv, AnswerTellsWhatHappened, Sound, SoundInTheEnd, SavedAnyway, IsAt
<1>2. QED
  BY <1>1, GatewayInvariance, PTL

\* Nothing takes effect or is shown but to whom every guard lets through, for
\* every set of requests clients may send.
THEOREM TheAdmittedAct == Spec => []OnlyTheAdmittedAct
<1>1. GInv => OnlyTheAdmittedAct
  <2> SUFFICES ASSUME GInv, NEW r \in Request,
                      request[r].saved \/ request[r].answer.status = 200
               PROVE  LET s == request[r].sent IN
                      /\ s.safe \/ s.origin # "foreign"
                      /\ s.valid
                      /\ s.does \notin Public => /\ s.token = "good" /\ ~request[r].late
                                                 /\ "other" \notin s.tenants
    BY DEF OnlyTheAdmittedAct
  <2>1. CASE request[r].stage = "answered"
    BY <2>1 DEF GInv, Sound, SoundInTheEnd, Admitted, FromHome, Known, InScope, IsPublic
  <2>2. CASE request[r].stage # "answered"
    <3>1. request[r].stage \in {"handle", "publish"}
      BY <2>2 DEF GInv, Sound, SoundOnTheWay, Unanswered
    <3>2. QED
      BY <3>1, Inside DEF Admitted, FromHome, Known, InScope, IsPublic
  <2>3. QED
    BY <2>1, <2>2
<1>2. QED
  BY <1>1, GatewayInvariance, PTL

\* Who is told that the credentials are not valid had a password verified, or
\* argon2 failed for him himself, for any number of logins that share a hash.
THEOREM RefusalsTakeTheirTime == Spec => []RefusalTakesItsTime
<1>1. GInv => RefusalTakesItsTime
  BY DEF GInv, RefusalTakesItsTime, Sound, SoundInTheEnd, SoundOnTheWay, Unanswered
<1>2. QED
  BY <1>1, GatewayInvariance, PTL

=============================================================================
