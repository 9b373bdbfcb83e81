------------------------------ MODULE QuizRounds ------------------------------
(***************************************************************************)
(* The rounds of a quiz (app/services/quizzes): managers open, change,     *)
(* close and delete them and choose the audience, people sit them, graders *)
(* mark written answers, and a daily task closes what is overdue and       *)
(* records the average on the quiz's measure.                              *)
(*                                                                         *)
(* A request is a transaction in two steps.  The first takes the locks it  *)
(* takes first, and checks what the code checks under them; the second     *)
(* waits for the locks it takes last, and changes and commits everything.  *)
(* What a request reads between is what those locks protect.  A start has  *)
(* a step more: its query reads who takes part, and then waits for the     *)
(* round; only a row that has changed by then is read again.               *)
(*                                                                         *)
(* An attempt's answers are one written answer: blank, it scores nothing;  *)
(* otherwise it waits for a grade, here 0 or 1.                            *)
(***************************************************************************)
EXTENDS Integers, FiniteSets, FiniteSetsExt

CONSTANTS
  People,
  Rounds,     \* bound on the rounds opened
  Slots,      \* requests under way at once
  MinCohort,  \* MIN_COHORT
  LastDay     \* bound on the days that pass

ASSUME CohortAssumption == MinCohort \in Nat \ {0}
ASSUME PeopleAssumption == IsFiniteSet(People)
ASSUME DaysAssumption == LastDay \in Nat

VARIABLES
  today,
  quiz,      \* the row of the quiz, with its audience
  round,     \* the rows of quiz_rounds
  people,    \* the participants of each round
  attempt,   \* the rows of quiz_attempts, with their answers
  result,    \* the entry of each round on the quiz's measure
  request    \* the transactions under way

vars == <<today, quiz, round, people, attempt, result, request>>

Marks == {0, 1}
Answers == {"blank", "text"}
Days == 0..LastDay
NoRound == [status |-> "none", opens |-> 0, due |-> 0]
NoAttempt == [status |-> "none", answer |-> "blank", score |-> 0]
NoResult == [sum |-> 0, of |-> 0]
Free == [op |-> "free"]

RoundStates == {"none", "open", "closed", "deleted"}
AttemptStates == {"none", "in_progress", "submitted", "complete"}
Attempts == [status : AttemptStates, answer : Answers, score : Marks]
Requests ==
  {Free}
    \cup [op : {"join", "start", "sit", "grade"}, round : Rounds, person : People]
    \cup [op : {"change", "remove"}, round : Rounds]
    \cup [op : {"open", "audience", "status", "archive", "delete"}]

TypeOK ==
  /\ today \in Days
  /\ quiz \in [status : {"draft", "active", "archived", "deleted"}, audience : SUBSET People]
  /\ round \in [Rounds -> [status : RoundStates, opens : Days, due : Days]]
  /\ people \in [Rounds -> SUBSET People]
  /\ attempt \in [Rounds -> [People -> Attempts]]
  /\ DOMAIN result = Rounds
  /\ request \in [Slots -> Requests]

(* A quiz that is new, or whose round so far was taken away before anybody *)
(* started it.                                                             *)
Init ==
  /\ today = 0
  /\ quiz \in {[status |-> "draft", audience |-> {}]} \cup
              [status : {"active"}, audience : SUBSET People]
  /\ round = [r \in Rounds |-> NoRound]
  /\ people = [r \in Rounds |-> {}]
  /\ attempt = [r \in Rounds |-> [p \in People |-> NoAttempt]]
  /\ result = [r \in Rounds |-> NoResult]
  /\ request = [s \in Slots |-> Free]

Open == {r \in Rounds : round[r].status = "open"}
Unused == {r \in Rounds : round[r].status = "none"}
Existing == {r \in Rounds : round[r].status \in {"open", "closed"}}
Sittable(r) == r \in Open /\ round[r].opens <= today /\ today <= round[r].due
Responses(r, status) == {p \in People : attempt[r][p].status = status}
-----------------------------------------------------------------------------
(* Locks. *)

Managing == {"open", "change", "remove", "audience", "status", "archive", "delete"}

QuizLock(mode) == [row |-> "quiz", of |-> <<>>, mode |-> mode]
RoundLock(r, mode) == [row |-> "round", of |-> <<r>>, mode |-> mode]
AttemptLock(r, p) == [row |-> "attempt", of |-> <<r, p>>, mode |-> "update"]
RoundLocks(rs) == {RoundLock(r, "update") : r \in rs}

(* Mutant: a round is changed under its own lock, before the quiz's. *)
TakesRoundFirst(q) ==
  CASE q.op = "start" -> {RoundLock(q.round, "share")}
    [] q.op \in {"sit", "grade"} -> {AttemptLock(q.round, q.person)}
    [] q.op = "change" -> RoundLocks({q.round})
    [] q.op \in Managing \ {"change"} -> {QuizLock("update")}
    [] q.op \in {"free", "join"} -> {}

(* Mutant: a start reads the round without its lock. *)
TakesNoRound(q) ==
  CASE q.op = "start" -> {}
    [] q.op \in {"sit", "grade"} -> {AttemptLock(q.round, q.person)}
    [] q.op \in Managing -> {QuizLock("update")}
    [] q.op \in {"free", "join"} -> {}

(* What a request locks first ... *)
Takes(q) ==
  CASE q.op = "start" -> {RoundLock(q.round, "share")}
    [] q.op \in {"sit", "grade"} -> {AttemptLock(q.round, q.person)}
    [] q.op \in Managing -> {QuizLock("update")}
    [] q.op \in {"free", "join"} -> {}

(* ... and those it has at the end: the insert of an attempt locks the quiz *)
(* it refers to.                                                            *)
Awaits(q) ==
  CASE q.op = "start" -> {QuizLock("share")}
    [] q.op \in {"join", "sit"} -> {RoundLock(q.round, "share")}
    [] q.op = "grade" -> RoundLocks({q.round})
    [] q.op \in {"change", "remove"} -> {QuizLock("update")} \cup RoundLocks({q.round})
    [] q.op \in {"audience", "archive"} -> RoundLocks(Open)
    [] q.op = "delete" -> RoundLocks(Existing)
    [] q.op \in {"open", "status", "free"} -> {}

Conflict(locks, held) ==
  \E l \in locks, h \in held :
    l.row = h.row /\ l.of = h.of /\ {l.mode, h.mode} # {"share"}

(* s waits for u. *)
WaitsFor(s, u) == s # u /\ Conflict(Awaits(request[s]), Takes(request[u]))
Blocked(s) == \E u \in Slots : WaitsFor(s, u)

Begin(s, q) ==
  /\ request[s] = Free
  /\ ~ \E u \in Slots : Conflict(Takes(q), Takes(request[u]))
  /\ request' = [request EXCEPT ![s] = q]
  /\ UNCHANGED <<today, quiz, round, people, attempt, result>>

Done(s) == request' = [request EXCEPT ![s] = Free]

(* A request is rolled back: it is refused, or its worker dies. *)
Abort(s) ==
  /\ request[s] # Free
  /\ Done(s)
  /\ UNCHANGED <<today, quiz, round, people, attempt, result>>

Deadlocked(s) == \E u \in Slots : WaitsFor(s, u) /\ WaitsFor(u, s)

(* PostgreSQL ends one of the requests that wait for each other. *)
BreakDeadlock(s) == Deadlocked(s) /\ Abort(s)
-----------------------------------------------------------------------------
(* Results. *)

(* result_ready, for a round with this status and these attempts *)
Ready(status, as) ==
  /\ status = "closed"
  /\ \A p \in People : as[p].status # "submitted"
  /\ Cardinality({p \in People : as[p].status = "complete"}) >= MinCohort

ScoreSum(as, ps) == MapThenSumSet(LAMBDA p : as[p].score, ps)

Average(as) ==
  LET finished == {p \in People : as[p].status = "complete"} IN
  [sum |-> ScoreSum(as, finished), of |-> Cardinality(finished)]

(* Mutant: a result is recorded once. *)
RecordedOnce(r, status, as) ==
  IF Ready(status, as) /\ result[r] = NoResult THEN Average(as) ELSE result[r]

(* record_round_result *)
Recorded(r, status, as) ==
  IF Ready(status, as) THEN Average(as) ELSE result[r]

(* close_round, for each of rs *)
ClosedRounds(rs) ==
  [r \in Rounds |-> IF r \in rs THEN [round[r] EXCEPT !.status = "closed"] ELSE round[r]]
ClosedResults(rs) ==
  [r \in Rounds |-> IF r \in rs THEN Recorded(r, "closed", attempt[r]) ELSE result[r]]
-----------------------------------------------------------------------------
(* People sitting rounds. *)

(* The query of _own_round sees the round and its participants ... *)
StartFindsRound(s, r, p) ==
  /\ r \in Existing
  /\ p \in people[r]
  /\ attempt[r][p].status = "none"
  /\ Begin(s, [op |-> "join", round |-> r, person |-> p])

(* ... and then has the round's lock, and its status and dates of now. *)
StartTakesRound(s) ==
  LET q == request[s] IN
  /\ q.op = "join"
  /\ ~ Blocked(s)
  /\ Sittable(q.round)
  /\ attempt[q.round][q.person].status = "none"
  /\ request' = [request EXCEPT ![s].op = "start"]
  /\ UNCHANGED <<today, quiz, round, people, attempt, result>>

(* An attempt that another request has started meanwhile is carried on. *)
StartInserts(s) ==
  LET q == request[s] IN
  /\ q.op = "start"
  /\ ~ Blocked(s)
  /\ attempt' = IF quiz.status # "deleted" /\ attempt[q.round][q.person].status = "none"
                THEN [attempt EXCEPT ![q.round][q.person].status = "in_progress"]
                ELSE attempt
  /\ Done(s)
  /\ UNCHANGED <<today, quiz, round, people, result>>

SitLocksAttempt(s, r, p) ==
  /\ attempt[r][p].status = "in_progress"
  /\ Begin(s, [op |-> "sit", round |-> r, person |-> p])

(* mark and settle *)
HandedIn(answer) ==
  [status |-> IF answer = "text" THEN "submitted" ELSE "complete",
   answer |-> answer,
   score |-> 0]

(* The answers of a page are saved, and at the end handed in. *)
SitFinishes(s) ==
  LET q == request[s] IN
  /\ q.op = "sit"
  /\ ~ Blocked(s)
  /\ Sittable(q.round)
  /\ \E a \in Answers :
       \E sat \in {[attempt[q.round][q.person] EXCEPT !.answer = a], HandedIn(a)} :
         attempt' = [attempt EXCEPT ![q.round][q.person] = sat]
  /\ Done(s)
  /\ UNCHANGED <<today, quiz, round, people, result>>

-----------------------------------------------------------------------------
(* Graders. *)

GradeLocksAttempt(s, r, p) ==
  /\ attempt[r][p].status \in {"submitted", "complete"}
  /\ attempt[r][p].answer = "text"
  /\ Begin(s, [op |-> "grade", round |-> r, person |-> p])

GradeFinishes(s) ==
  LET q == request[s]
      graded(g) == [attempt[q.round] EXCEPT ![q.person] =
                      [status |-> "complete", answer |-> @.answer, score |-> g]] IN
  /\ q.op = "grade"
  /\ ~ Blocked(s)
  /\ \E g \in Marks :
       /\ attempt' = [attempt EXCEPT ![q.round] = graded(g)]
       /\ result' = [result EXCEPT ![q.round] =
                        Recorded(q.round, round[q.round].status, graded(g))]
  /\ Done(s)
  /\ UNCHANGED <<today, quiz, round, people>>
-----------------------------------------------------------------------------
(* Managers.  Each locks the quiz first. *)

ManagerLocksQuiz(s) ==
  /\ quiz.status # "deleted"
  /\ \/ \E op \in {"open", "audience", "status", "archive", "delete"} : Begin(s, [op |-> op])
     \/ \E op \in {"change", "remove"}, r \in Existing : Begin(s, [op |-> op, round |-> r])

(* The round r, with the quiz's audience. *)
AddRound(r, opens, due) ==
  /\ round' = [round EXCEPT ![r] = [status |-> "open", opens |-> opens, due |-> due]]
  /\ people' = [people EXCEPT ![r] = quiz.audience]

(* start_round, and the rounds of a schedule *)
OpenRound(s) ==
  /\ request[s].op = "open"
  /\ quiz.status = "active"
  /\ \E r \in Unused, opens, due \in Days :
       today <= opens /\ opens <= due /\ AddRound(r, opens, due)
  /\ Done(s)
  /\ UNCHANGED <<today, quiz, attempt, result>>

(* Mutant: a round whose result is recorded can be reopened. *)
ReopensAnyRound(s) ==
  LET r == request[s].round IN
  /\ request[s].op = "change"
  /\ ~ Blocked(s)
  /\ r \in Existing
  /\ \E due \in Days, status \in {"open", "closed"} :
       /\ round[r].opens <= due
       /\ status = "open" => today <= due /\ quiz.status = "active"
       /\ round' = [round EXCEPT ![r] = [status |-> status, opens |-> @.opens, due |-> due]]
       /\ result' = IF r \in Open /\ status = "closed" THEN ClosedResults({r}) ELSE result
  /\ Done(s)
  /\ UNCHANGED <<today, quiz, people, attempt>>

(* update_round *)
ChangeRound(s) ==
  LET r == request[s].round IN
  /\ request[s].op = "change"
  /\ ~ Blocked(s)
  /\ r \in Existing
  /\ \E due \in Days, status \in {"open", "closed"} :
       /\ round[r].opens <= due
       /\ status = "open" => today <= due /\ quiz.status = "active"
       /\ status = "open" /\ r \notin Open => result[r] = NoResult
       /\ round' = [round EXCEPT ![r] = [status |-> status, opens |-> @.opens, due |-> due]]
       /\ result' = IF r \in Open /\ status = "closed" THEN ClosedResults({r}) ELSE result
  /\ Done(s)
  /\ UNCHANGED <<today, quiz, people, attempt>>

(* delete_round *)
RemoveRound(s) ==
  LET r == request[s].round IN
  /\ request[s].op = "remove"
  /\ ~ Blocked(s)
  /\ r \in Existing
  /\ Responses(r, "none") = People
  /\ round' = [round EXCEPT ![r].status = "deleted"]
  /\ people' = [people EXCEPT ![r] = {}]
  /\ Done(s)
  /\ UNCHANGED <<today, quiz, attempt, result>>

(* sync_participants: those who have started stay. *)
Synced(r, audience) ==
  audience \cup (people[r] \ Responses(r, "none"))

(* replace_audience *)
SetAudience(s) ==
  /\ request[s].op = "audience"
  /\ ~ Blocked(s)
  /\ \E audience \in SUBSET People :
       /\ quiz' = [quiz EXCEPT !.audience = audience]
       /\ people' = [r \in Rounds |-> IF r \in Open THEN Synced(r, audience) ELSE people[r]]
  /\ Done(s)
  /\ UNCHANGED <<today, round, attempt, result>>

(* update_quiz: a quiz that is activated opens a round for today, unless it *)
(* is scheduled and not due, or not scheduled and has one open.             *)
SetStatus(s) ==
  /\ request[s].op = "status"
  /\ \E status \in {"draft", "active"} \ {quiz.status} :
       /\ status = "draft" => Existing = {}
       /\ quiz' = [quiz EXCEPT !.status = status]
       /\ \/ UNCHANGED <<round, people>>
          \/ status = "active" /\ \E r \in Unused, due \in Days :
               due >= today /\ AddRound(r, today, due)
  /\ Done(s)
  /\ UNCHANGED <<today, attempt, result>>

(* update_quiz: an archived quiz closes its rounds. *)
Archive(s) ==
  /\ request[s].op = "archive"
  /\ ~ Blocked(s)
  /\ quiz.status # "archived"
  /\ quiz' = [quiz EXCEPT !.status = "archived"]
  /\ round' = ClosedRounds(Open)
  /\ result' = ClosedResults(Open)
  /\ Done(s)
  /\ UNCHANGED <<today, people, attempt>>

(* delete_quiz *)
DeleteQuiz(s) ==
  /\ request[s].op = "delete"
  /\ ~ Blocked(s)
  /\ \A r \in Rounds : Responses(r, "none") = People
  /\ quiz' = [quiz EXCEPT !.status = "deleted"]
  /\ round' = [r \in Rounds |->
                 IF r \in Existing THEN [round[r] EXCEPT !.status = "deleted"] ELSE round[r]]
  /\ people' = [r \in Rounds |-> {}]
  /\ Done(s)
  /\ UNCHANGED <<today, attempt, result>>
-----------------------------------------------------------------------------
(* The daily task, and the day. *)

CloseDue(r) ==
  /\ r \in Open
  /\ round[r].due < today
  /\ ~ \E u \in Slots : Conflict(RoundLocks({r}), Takes(request[u]))
  /\ round' = ClosedRounds({r})
  /\ result' = ClosedResults({r})
  /\ UNCHANGED <<today, quiz, people, attempt, request>>

NextDay ==
  /\ today < LastDay
  /\ today' = today + 1
  /\ UNCHANGED <<quiz, round, people, attempt, result, request>>

Sit(s) == StartTakesRound(s) \/ StartInserts(s) \/ SitFinishes(s) \/ GradeFinishes(s)

Manage(s) ==
  OpenRound(s) \/ ChangeRound(s) \/ RemoveRound(s) \/ SetAudience(s) \/ SetStatus(s)
  \/ Archive(s) \/ DeleteQuiz(s)

Next ==
  \/ \E s \in Slots, r \in Rounds, p \in People :
       \/ StartFindsRound(s, r, p)
       \/ SitLocksAttempt(s, r, p)
       \/ GradeLocksAttempt(s, r, p)
  \/ \E s \in Slots :
       ManagerLocksQuiz(s) \/ Sit(s) \/ Manage(s) \/ Abort(s) \/ BreakDeadlock(s)
  \/ \E r \in Rounds : CloseDue(r)
  \/ NextDay

Spec == Init /\ [][Next]_vars

-----------------------------------------------------------------------------
(* Properties. *)

(* A round's result is the average of its responses as they are now: it is *)
(* there as soon as the round is closed, everything is marked and enough   *)
(* people have finished, and a regrade is in it, whichever of the grade    *)
(* and the close commits first.                                            *)
ResultIsCurrent ==
  \A r \in Existing :
    result[r] = IF Ready(round[r].status, attempt[r]) THEN Average(attempt[r]) ELSE NoResult

(* A round whose result is recorded never opens again or goes away, and    *)
(* keeps its responses: comparing results would give a latecomer away.     *)
RecordedStays ==
  [][\A r \in Rounds : result[r] # NoResult =>
       /\ round[r].status = "closed" => round[r].status' = "closed"
       /\ result[r].of' = result[r].of]_vars

(* Attempts start, and answers change, only while their round is open and  *)
(* they are not handed in, however long the request waits for its locks.   *)
AnswersEndWithTheRound ==
  [][\A r \in Rounds, p \in People :
       \/ attempt[r][p].answer # attempt[r][p].answer'
       \/ attempt[r][p].status = "none" /\ attempt[r][p].status' # "none"
       => r \in Open /\ attempt[r][p].status \in {"none", "in_progress"}]_vars

(* Everybody with an attempt is a participant of its round: only those see *)
(* the round on their list and can open it.                                *)
StartedHaveAPlace ==
  \A r \in Existing, p \in People : attempt[r][p].status # "none" => p \in people[r]

(* Two requests wait for each other only when one of them starts an        *)
(* attempt: sitting, grading and managing take their locks in one order.   *)
OnlyStartsDeadlock ==
  \A s, u \in Slots :
    WaitsFor(s, u) /\ WaitsFor(u, s) => "start" \in {request[s].op, request[u].op}

=============================================================================
