--------------------------- MODULE QuizRounds_proofs ---------------------------
(***************************************************************************)
(* Proofs about QuizRounds, for any people, rounds, requests, cohort and   *)
(* days.                                                                   *)
(*                                                                         *)
(* What a request found under the locks it took first is still so when it  *)
(* has the others (Held), two requests never hold the same of those locks  *)
(* for a change (OneHolder), and the result of a round is that of its      *)
(* attempts at every commit (Current).                                     *)
(***************************************************************************)
EXTENDS QuizRounds, FiniteSetTheorems, TLAPS

Held ==
  \A s \in Slots :
    /\ request[s].op = "start" => request[s].round \in Open
    /\ request[s].op = "sit" => attempt[request[s].round][request[s].person].status = "in_progress"
    /\ request[s].op = "grade" =>
         attempt[request[s].round][request[s].person].status \in {"submitted", "complete"}

Sitting == {"sit", "grade"}

OneHolder ==
  \A s, t \in Slots :
    \/ request[s].op \in Managing /\ request[t].op \in Managing
    \/ /\ request[s].op \in Sitting /\ request[t].op \in Sitting
       /\ request[s].round = request[t].round /\ request[s].person = request[t].person
    => s = t

Result(r) == IF Ready(round[r].status, attempt[r]) THEN Average(attempt[r]) ELSE NoResult

Current == \A r \in Rounds : result[r] = Result(r)

QuizInv ==
  /\ TypeOK
  /\ Held
  /\ OneHolder
  /\ Current
-----------------------------------------------------------------------------
(* Results. *)

Finished(scores) == {p \in People : scores[p].status = "complete"}

LEMMA AverageOf == ASSUME NEW scores PROVE Average(scores).of = Cardinality(Finished(scores))
<1>1. Average(scores) = [sum |-> ScoreSum(scores, Finished(scores)), of |-> Cardinality(Finished(scores))]
  BY DEF Average, Finished
<1> DEFINE a == ScoreSum(scores, Finished(scores))
           b == Cardinality(Finished(scores))
<1> HIDE DEF a, b
<1>2. Average(scores) = [sum |-> a, of |-> b]
  BY <1>1 DEF a, b
<1>3. Average(scores).of = b
  BY <1>2
<1> QED
  BY <1>3 DEF b

(* Nobody has finished a round that nobody has started. *)
LEMMA NotReady ==
  ASSUME NEW status, NEW scores, \A p \in People : scores[p].status = "none"
  PROVE  ~ Ready(status, scores)
<1> DEFINE c == Cardinality({p \in People : scores[p].status = "complete"})
<1>1. {p \in People : scores[p].status = "complete"} = {}
  OBVIOUS
<1>2. c = 0
  BY <1>1, FS_EmptySet
<1>3. Ready(status, scores) => c >= MinCohort
  BY DEF Ready
<1> HIDE DEF c
<1> QED
  BY <1>2, <1>3, CohortAssumption

(* A result is of somebody, and everybody who is in it has finished. *)
LEMMA Recorded1 ==
  ASSUME NEW scores, Ready("closed", scores)
  PROVE  Average(scores) # NoResult /\ Average(scores).of = Cardinality(Finished(scores))
<1>1. Cardinality(Finished(scores)) >= MinCohort
  BY DEF Ready, Finished
<1>2. IsFiniteSet(Finished(scores))
  BY PeopleAssumption, FS_Subset DEF Finished
<1>3. Cardinality(Finished(scores)) \in Nat
  BY <1>2, FS_CardinalityType
<1> DEFINE c == Cardinality(Finished(scores))
           a == Average(scores)
<1>4. c >= MinCohort /\ c \in Nat
  BY <1>1, <1>3
<1>5. a.of = c
  BY AverageOf
<1> HIDE DEF c, a
<1>6. c # 0
  BY <1>4, CohortAssumption
<1>7. a # NoResult
  BY <1>5, <1>6 DEF NoResult
<1> QED
  BY <1>5, <1>7 DEF c, a

(* Records of what is ready, and of nothing else. *)
LEMMA RecordedIs ==
  ASSUME NEW r, NEW status, NEW scores, Ready(status, scores) \/ result[r] = NoResult
  PROVE  Recorded(r, status, scores) = IF Ready(status, scores) THEN Average(scores) ELSE NoResult
  BY DEF Recorded
-----------------------------------------------------------------------------
LEMMA InitInv == Init => QuizInv
<1> SUFFICES ASSUME Init PROVE QuizInv
  OBVIOUS
<1>1. TypeOK
  <2>1. 0 \in Days
    BY DaysAssumption DEF Days
  <2>2. NoRound \in [status : RoundStates, opens : Days, due : Days] /\ NoAttempt \in Attempts
    BY <2>1 DEF NoRound, NoAttempt, RoundStates, AttemptStates, Attempts, Answers, Marks
  <2>3. quiz \in [status : {"draft", "active", "archived", "deleted"}, audience : SUBSET People]
    BY DEF Init
  <2> QED
    BY <2>1, <2>2, <2>3 DEF Init, TypeOK, Requests
<1>2. Held /\ OneHolder
  BY DEF Init, Held, OneHolder, Free, Managing, Sitting
<1>3. Current
  <2> SUFFICES ASSUME NEW r \in Rounds PROVE result[r] = Result(r)
    BY DEF Current
  <2>1. result[r] = NoResult /\ round[r] = NoRound
    BY DEF Init
  <2> QED
    BY <2>1 DEF Result, Ready, NoRound
<1> QED
  BY <1>1, <1>2, <1>3 DEF QuizInv

(* A step that changes requests only. *)
LEMMA RequestStep ==
  ASSUME QuizInv, UNCHANGED <<round, attempt, result>>, TypeOK',
         \A s \in Slots : request'[s] # request[s] =>
           /\ request'[s].op = "start" => request'[s].round \in Open
           /\ request'[s].op = "sit" =>
                attempt[request'[s].round][request'[s].person].status = "in_progress"
           /\ request'[s].op = "grade" =>
                attempt[request'[s].round][request'[s].person].status \in {"submitted", "complete"},
         OneHolder'
  PROVE  QuizInv'
<1>1. Held'
  BY DEF QuizInv, Held, Open
<1>2. Current'
  BY DEF QuizInv, Current, Result, Ready
<1> QED
  BY <1>1, <1>2 DEF QuizInv

(* Two that lock one row to change it are in conflict. *)
LEMMA Collide ==
  ASSUME NEW l, NEW f, NEW g, l.mode = "update", l \in f, l \in g
  PROVE  Conflict(f, g)
<1>1. {l.mode, l.mode} # {"share"}
  OBVIOUS
<1> QED
  BY <1>1 DEF Conflict

(* A request that has begun holds its first locks alone. *)
LEMMA BeginStep ==
  ASSUME QuizInv, NEW s \in Slots, NEW q \in Requests, Begin(s, q),
         q.op = "start" => q.round \in Open,
         q.op = "sit" => attempt[q.round][q.person].status = "in_progress",
         q.op = "grade" => attempt[q.round][q.person].status \in {"submitted", "complete"}
  PROVE  QuizInv'
<1>1. /\ request' = [request EXCEPT ![s] = q]
      /\ \A u \in Slots : ~ Conflict(Takes(q), Takes(request[u]))
      /\ UNCHANGED <<today, quiz, round, people, attempt, result>>
  BY DEF Begin
<1>2. TypeOK'
  BY <1>1 DEF QuizInv, TypeOK
<1>3. request'[s] = q /\ \A t \in Slots : t # s => request'[t] = request[t]
  BY <1>1 DEF QuizInv, TypeOK
<1>4. OneHolder'
  <2>1. ASSUME NEW u \in Slots
        PROVE  /\ ~ (q.op \in Managing /\ request[u].op \in Managing)
               /\ ~ (/\ q.op \in Sitting /\ request[u].op \in Sitting
                     /\ q.round = request[u].round /\ q.person = request[u].person)
    <3>1. CASE q.op \in Managing /\ request[u].op \in Managing
      <4>1. Takes(q) = {QuizLock("update")} /\ Takes(request[u]) = {QuizLock("update")}
        BY <3>1 DEF Takes, Managing
      <4> QED
        BY <1>1, <4>1, Collide DEF QuizLock
    <3>2. CASE /\ q.op \in Sitting /\ request[u].op \in Sitting
               /\ q.round = request[u].round /\ q.person = request[u].person
      <4>1. Takes(q) = {AttemptLock(q.round, q.person)}
        BY <3>2 DEF Takes, Sitting, Managing
      <4>2. Takes(request[u]) = {AttemptLock(q.round, q.person)}
        BY <3>2 DEF Takes, Sitting, Managing
      <4> QED
        BY <1>1, <4>1, <4>2, Collide DEF AttemptLock
    <3> QED
      BY <3>1, <3>2
  <2> QED
    BY <1>3, <2>1 DEF QuizInv, OneHolder
<1> QED
  BY <1>1, <1>2, <1>3, <1>4, RequestStep
-----------------------------------------------------------------------------
(* Requests that start, wait and end. *)

LEMMA RequestOf ==
  ASSUME TypeOK, NEW s \in Slots
  PROVE  /\ request[s].op \in {"join", "start", "sit", "grade"} =>
              request[s] \in [op : {"join", "start", "sit", "grade"}, round : Rounds, person : People]
         /\ request[s].op \in {"change", "remove"} =>
              request[s] \in [op : {"change", "remove"}, round : Rounds]
<1>1. request[s] \in Requests
  BY DEF TypeOK
<1> QED
  BY <1>1 DEF Requests, Free

(* A request that ends, after what it has done. *)
LEMMA EndsWell ==
  ASSUME QuizInv, NEW s \in Slots, Done(s)
  PROVE  /\ request' \in [Slots -> Requests]
         /\ request'[s] = Free
         /\ \A t \in Slots : t # s => request'[t] = request[t]
         /\ OneHolder'
<1>1. /\ request' \in [Slots -> Requests]
      /\ request'[s] = Free
      /\ \A t \in Slots : t # s => request'[t] = request[t]
  BY DEF Done, QuizInv, TypeOK, Requests
<1>2. OneHolder'
  BY <1>1 DEF QuizInv, OneHolder, Free, Managing, Sitting
<1> QED
  BY <1>1, <1>2

LEMMA BeginsStep ==
  ASSUME QuizInv, NEW s \in Slots,
         \/ \E r \in Rounds, p \in People :
              StartFindsRound(s, r, p) \/ SitLocksAttempt(s, r, p) \/ GradeLocksAttempt(s, r, p)
         \/ ManagerLocksQuiz(s)
  PROVE  QuizInv'
<1>1. ASSUME NEW r \in Rounds, NEW p \in People, StartFindsRound(s, r, p)
      PROVE  QuizInv'
  <2> DEFINE q == [op |-> "join", round |-> r, person |-> p]
  <2>1. q \in Requests /\ Begin(s, q)
    BY <1>1 DEF Requests, StartFindsRound
  <2> QED
    BY <2>1, BeginStep
<1>2. ASSUME NEW r \in Rounds, NEW p \in People, SitLocksAttempt(s, r, p)
      PROVE  QuizInv'
  <2> DEFINE q == [op |-> "sit", round |-> r, person |-> p]
  <2>1. q \in Requests /\ Begin(s, q) /\ attempt[r][p].status = "in_progress"
    BY <1>2 DEF Requests, SitLocksAttempt
  <2> QED
    BY <2>1, BeginStep
<1>3. ASSUME NEW r \in Rounds, NEW p \in People, GradeLocksAttempt(s, r, p)
      PROVE  QuizInv'
  <2> DEFINE q == [op |-> "grade", round |-> r, person |-> p]
  <2>1. q \in Requests /\ Begin(s, q) /\ attempt[r][p].status \in {"submitted", "complete"}
    BY <1>3 DEF Requests, GradeLocksAttempt
  <2> QED
    BY <2>1, BeginStep
<1>4. CASE ManagerLocksQuiz(s)
  <2>1. ASSUME NEW op \in {"open", "audience", "status", "archive", "delete"}, Begin(s, [op |-> op])
        PROVE  QuizInv'
    <3> DEFINE q == [op |-> op]
    <3>1. q \in Requests /\ q.op \notin {"start", "sit", "grade"}
      BY DEF Requests
    <3> QED
      BY <2>1, <3>1, BeginStep
  <2>2. ASSUME NEW op \in {"change", "remove"}, NEW r \in Rounds, Begin(s, [op |-> op, round |-> r])
        PROVE  QuizInv'
    <3> DEFINE q == [op |-> op, round |-> r]
    <3>1. q \in Requests /\ q.op \notin {"start", "sit", "grade"}
      BY DEF Requests
    <3> QED
      BY <2>2, <3>1, BeginStep
  <2> QED
    BY <1>4, <2>1, <2>2 DEF ManagerLocksQuiz, Existing
<1> QED
  BY <1>1, <1>2, <1>3, <1>4

LEMMA AbortStep ==
  ASSUME QuizInv, NEW s \in Slots, Abort(s)
  PROVE  QuizInv'
<1>1. UNCHANGED <<today, quiz, round, people, attempt, result>> /\ Done(s)
  BY DEF Abort
<1>2. TypeOK'
  BY <1>1, EndsWell DEF QuizInv, TypeOK
<1> QED
  BY <1>1, <1>2, EndsWell, RequestStep DEF Free

LEMMA StartTakesRoundStep ==
  ASSUME QuizInv, NEW s \in Slots, StartTakesRound(s)
  PROVE  QuizInv'
<1> DEFINE q == request[s]
           n == [op |-> "start", round |-> q.round, person |-> q.person]
<1>1. /\ q \in [op : {"join", "start", "sit", "grade"}, round : Rounds, person : People]
      /\ q.op = "join" /\ q.round \in Open
      /\ UNCHANGED <<today, quiz, round, people, attempt, result>>
  BY RequestOf DEF StartTakesRound, QuizInv, Sittable
<1>2. request' = [request EXCEPT ![s] = [q EXCEPT !.op = "start"]]
  BY DEF StartTakesRound
<1>3. [q EXCEPT !.op = "start"] = n
  BY <1>1
<1>4. n \in Requests
  BY <1>1 DEF Requests
<1>5. /\ request' \in [Slots -> Requests]
      /\ request'[s] = n /\ \A t \in Slots : t # s => request'[t] = request[t]
  BY <1>2, <1>3, <1>4 DEF QuizInv, TypeOK
<1>6. TypeOK'
  BY <1>1, <1>5 DEF QuizInv, TypeOK
<1>7. OneHolder'
  BY <1>5 DEF QuizInv, OneHolder, Managing, Sitting
<1> QED
  BY <1>1, <1>5, <1>6, <1>7, RequestStep
-----------------------------------------------------------------------------
(* Whoever has a round's lock for a change has it from no start. *)

NoStart(s, r) ==
  \A t \in Slots : t # s => ~ (request[t].op = "start" /\ request[t].round = r)

LEMMA Excludes ==
  ASSUME NEW locks, NEW r, NEW t \in Slots, RoundLock(r, "update") \in locks,
         ~ Conflict(locks, Takes(request[t]))
  PROVE  ~ (request[t].op = "start" /\ request[t].round = r)
<1> SUFFICES ASSUME request[t].op = "start", request[t].round = r PROVE FALSE
  OBVIOUS
<1>1. RoundLock(r, "share") \in Takes(request[t])
  BY DEF Takes, Managing
<1>2. "update" \in {"update", "share"} /\ "update" \notin {"share"}
  OBVIOUS
<1> QED
  BY <1>1, <1>2 DEF Conflict, RoundLock

LEMMA HasRound ==
  ASSUME NEW s \in Slots, NEW r, ~ Blocked(s), RoundLock(r, "update") \in Awaits(request[s])
  PROVE  NoStart(s, r)
<1> SUFFICES ASSUME NEW t \in Slots, t # s
             PROVE  ~ (request[t].op = "start" /\ request[t].round = r)
  BY DEF NoStart
<1>1. ~ Conflict(Awaits(request[s]), Takes(request[t]))
  BY DEF Blocked, WaitsFor
<1> QED
  BY <1>1, Excludes

(* The rounds that each manager has in the end. *)
LEMMA Locked ==
  ASSUME NEW s \in Slots, NEW r \in Rounds, ~ Blocked(s),
         \/ request[s].op \in {"change", "remove"} /\ r = request[s].round
         \/ request[s].op \in {"audience", "archive"} /\ r \in Open
         \/ request[s].op = "delete" /\ r \in Existing
  PROVE  NoStart(s, r)
<1>1. CASE request[s].op \in {"change", "remove"} /\ r = request[s].round
  <2>1. RoundLock(r, "update") \in Awaits(request[s])
    BY <1>1 DEF Awaits, RoundLocks
  <2> QED
    BY <2>1, HasRound
<1>2. CASE request[s].op \in {"audience", "archive"} /\ r \in Open
  <2>1. Awaits(request[s]) = RoundLocks(Open)
    BY <1>2 DEF Awaits
  <2>2. RoundLock(r, "update") \in Awaits(request[s])
    BY <1>2, <2>1 DEF RoundLocks
  <2> QED
    BY <2>2, HasRound
<1>3. CASE request[s].op = "delete" /\ r \in Existing
  <2>1. Awaits(request[s]) = RoundLocks(Existing)
    BY <1>3 DEF Awaits
  <2>2. RoundLock(r, "update") \in Awaits(request[s])
    BY <1>3, <2>1 DEF RoundLocks
  <2> QED
    BY <2>2, HasRound
<1> QED
  BY <1>1, <1>2, <1>3

LEMMA CurrentNext ==
  ASSUME \A r \in Rounds :
           result'[r] = IF Ready(round'[r].status, attempt'[r]) THEN Average(attempt'[r])
                        ELSE NoResult
  PROVE  Current'
  BY DEF Current, Result

(* A request that ends with rounds changed and attempts as they were. *)
LEMMA RoundStep ==
  ASSUME QuizInv, NEW s \in Slots, Done(s), UNCHANGED attempt, TypeOK',
         \A r \in Rounds : NoStart(s, r) \/ (r \in Open => round'[r].status = "open"),
         \A r \in Rounds :
           result'[r] = IF Ready(round'[r].status, attempt[r]) THEN Average(attempt[r])
                        ELSE NoResult
  PROVE  QuizInv'
<1>1. Current'
  BY CurrentNext
<1>2. Held'
  <2> SUFFICES ASSUME NEW t \in Slots, t # s
               PROVE  /\ request[t].op = "start" => round'[request[t].round].status = "open" /\ request[t].round \in Rounds
                      /\ request[t].op = "sit" => attempt[request[t].round][request[t].person].status = "in_progress"
                      /\ request[t].op = "grade" =>
                           attempt[request[t].round][request[t].person].status \in {"submitted", "complete"}
    BY EndsWell DEF Held, Free, Open
  <2> QED
    BY RequestOf DEF QuizInv, Held, Open, NoStart
<1> QED
  BY <1>1, <1>2, EndsWell DEF QuizInv
-----------------------------------------------------------------------------
(* What managers do. *)

LEMMA AddRoundStep ==
  ASSUME QuizInv, NEW s \in Slots, Done(s), UNCHANGED <<today, attempt, result>>,
         NEW r \in Unused, NEW opens \in Days, NEW due \in Days, AddRound(r, opens, due),
         quiz' \in [status : {"draft", "active", "archived", "deleted"}, audience : SUBSET People]
  PROVE  QuizInv'
<1> DEFINE n == [status |-> "open", opens |-> opens, due |-> due]
<1>1. n \in [status : RoundStates, opens : Days, due : Days] /\ n.status = "open"
  BY DEF RoundStates
<1>2. r \in Rounds /\ round[r].status = "none"
  BY DEF Unused
<1>3. /\ round' = [round EXCEPT ![r] = n]
      /\ people' = [people EXCEPT ![r] = quiz.audience]
  BY DEF AddRound
<1> HIDE DEF n
<1>4. /\ round' \in [Rounds -> [status : RoundStates, opens : Days, due : Days]]
      /\ \A t \in Rounds : round'[t] = IF t = r THEN n ELSE round[t]
  BY <1>1, <1>2, <1>3 DEF QuizInv, TypeOK
<1>5. people' \in [Rounds -> SUBSET People]
  BY <1>2, <1>3 DEF QuizInv, TypeOK
<1>6. TypeOK'
  BY <1>4, <1>5, EndsWell DEF QuizInv, TypeOK
<1>7. \A t \in Rounds : t \in Open => round'[t].status = "open"
  BY <1>1, <1>4 DEF Open
<1>8. ASSUME NEW t \in Rounds
      PROVE  result'[t] = IF Ready(round'[t].status, attempt[t]) THEN Average(attempt[t])
                          ELSE NoResult
  <2>1. result[t] = IF Ready(round[t].status, attempt[t]) THEN Average(attempt[t]) ELSE NoResult
    BY DEF QuizInv, Current, Result
  <2>2. CASE t # r
    <3>1. round'[t].status = round[t].status
      BY <1>4, <2>2
    <3> QED
      BY <2>1, <3>1
  <2>3. CASE t = r
    <3>1. round[t].status = "none" /\ round'[t].status = "open"
      BY <1>1, <1>2, <1>4, <2>3
    <3>2. ~ Ready(round[t].status, attempt[t]) /\ ~ Ready(round'[t].status, attempt[t])
      BY <3>1 DEF Ready
    <3> QED
      BY <2>1, <3>2
  <2> QED
    BY <2>2, <2>3
<1> QED
  BY <1>6, <1>7, <1>8, RoundStep

LEMMA OpenRoundStep ==
  ASSUME QuizInv, NEW s \in Slots, OpenRound(s)
  PROVE  QuizInv'
<1>1. /\ Done(s) /\ UNCHANGED <<today, quiz, attempt, result>>
      /\ \E r \in Unused, opens, due \in Days : AddRound(r, opens, due)
  BY DEF OpenRound
<1>2. PICK r \in Unused, opens \in Days, due \in Days : AddRound(r, opens, due)
  BY <1>1
<1>3. quiz' \in [status : {"draft", "active", "archived", "deleted"}, audience : SUBSET People]
  BY <1>1 DEF QuizInv, TypeOK
<1> QED
  BY <1>1, <1>2, <1>3, AddRoundStep

(* The result of a round that is closed now. *)
LEMMA ClosesWell ==
  ASSUME QuizInv, NEW r \in Rounds, r \in Open
  PROVE  Recorded(r, "closed", attempt[r]) =
           IF Ready("closed", attempt[r]) THEN Average(attempt[r]) ELSE NoResult
<1>1. ~ Ready(round[r].status, attempt[r])
  BY DEF Ready, Open
<1>2. result[r] = NoResult
  BY <1>1 DEF QuizInv, Current, Result
<1> QED
  BY <1>2, RecordedIs

LEMMA ClosedRoundsAre ==
  ASSUME QuizInv, NEW rs \in SUBSET Rounds
  PROVE  /\ ClosedRounds(rs) \in [Rounds -> [status : RoundStates, opens : Days, due : Days]]
         /\ \A r \in Rounds : ClosedRounds(rs)[r].status = IF r \in rs THEN "closed" ELSE round[r].status
         /\ DOMAIN ClosedResults(rs) = Rounds
         /\ \A r \in Rounds : ClosedResults(rs)[r] =
              IF r \in rs THEN Recorded(r, "closed", attempt[r]) ELSE result[r]
  BY DEF QuizInv, TypeOK, ClosedRounds, ClosedResults, RoundStates

LEMMA ChangeRoundStep ==
  ASSUME QuizInv, NEW s \in Slots, ChangeRound(s)
  PROVE  QuizInv'
<1> DEFINE r == request[s].round
<1>1. /\ request[s].op = "change" /\ ~ Blocked(s) /\ r \in Existing
      /\ Done(s) /\ UNCHANGED <<today, quiz, people, attempt>>
  BY DEF ChangeRound
<1>2. PICK due \in Days, status \in {"open", "closed"} :
        /\ status = "open" /\ r \notin Open => result[r] = NoResult
        /\ round' = [round EXCEPT ![r] = [status |-> status, opens |-> @.opens, due |-> due]]
        /\ result' = IF r \in Open /\ status = "closed" THEN ClosedResults({r}) ELSE result
  BY DEF ChangeRound
<1>3. r \in Rounds /\ (r \in Open \/ round[r].status = "closed")
  BY <1>1 DEF Existing, Open
<1>4. NoStart(s, r)
  BY <1>1, <1>3, Locked
<1> HIDE DEF r
<1> DEFINE n == [status |-> status, opens |-> round[r].opens, due |-> due]
<1>5. n \in [status : RoundStates, opens : Days, due : Days] /\ n.status = status
  BY <1>3 DEF RoundStates, QuizInv, TypeOK
<1>6. round' = [round EXCEPT ![r] = n]
  BY <1>2
<1> HIDE DEF n
<1>7. /\ round' \in [Rounds -> [status : RoundStates, opens : Days, due : Days]]
      /\ round'[r] = n /\ \A t \in Rounds \ {r} : round'[t] = round[t]
  BY <1>3, <1>5, <1>6 DEF QuizInv, TypeOK
<1>8. DOMAIN result' = Rounds
  BY <1>2, <1>3, ClosedRoundsAre DEF QuizInv, TypeOK
<1>9. TypeOK'
  BY <1>1, <1>7, <1>8, EndsWell DEF QuizInv, TypeOK
<1>10. \A t \in Rounds : NoStart(s, t) \/ (t \in Open => round'[t].status = "open")
  BY <1>4, <1>7 DEF Open
<1>11. ASSUME NEW t \in Rounds
       PROVE  result'[t] = IF Ready(round'[t].status, attempt[t]) THEN Average(attempt[t])
                           ELSE NoResult
  <2>1. result[t] = IF Ready(round[t].status, attempt[t]) THEN Average(attempt[t]) ELSE NoResult
    BY DEF QuizInv, Current, Result
  <2>2. CASE t # r
    <3>1. round'[t].status = round[t].status /\ result'[t] = result[t]
      BY <1>2, <1>3, <1>7, <2>2, ClosedRoundsAre
    <3> QED
      BY <2>1, <3>1
  <2>3. CASE t = r /\ status = "closed" /\ r \in Open
    <3>1. result'[t] = Recorded(t, "closed", attempt[t]) /\ round'[t].status = "closed"
      BY <1>2, <1>3, <1>5, <1>7, <2>3, ClosedRoundsAre
    <3> QED
      BY <2>3, <3>1, ClosesWell
  <2>4. CASE t = r /\ status = "closed" /\ r \notin Open
    <3>1. result'[t] = result[t] /\ round'[t].status = round[t].status
      BY <1>2, <1>3, <1>5, <1>7, <2>4
    <3> QED
      BY <2>1, <3>1
  <2>5. CASE t = r /\ status = "open"
    <3>1. round'[t].status = "open" /\ result'[t] = result[t]
      BY <1>2, <1>5, <1>7, <2>5
    <3>2. ~ Ready(round'[t].status, attempt[t])
      BY <3>1 DEF Ready
    <3>3. result[t] = NoResult
      <4>1. CASE r \in Open
        <5>1. ~ Ready(round[t].status, attempt[t])
          BY <2>5, <4>1 DEF Ready, Open
        <5> QED
          BY <2>1, <5>1
      <4>2. CASE r \notin Open
        BY <1>2, <2>5, <4>2
      <4> QED
        BY <4>1, <4>2
    <3> QED
      BY <3>1, <3>2, <3>3
  <2> QED
    BY <2>2, <2>3, <2>4, <2>5
<1> QED
  BY <1>1, <1>9, <1>10, <1>11, RoundStep

LEMMA RemoveRoundStep ==
  ASSUME QuizInv, NEW s \in Slots, RemoveRound(s)
  PROVE  QuizInv'
<1> DEFINE r == request[s].round
           n == [round[r] EXCEPT !.status = "deleted"]
<1>1. /\ request[s].op = "remove" /\ ~ Blocked(s) /\ r \in Existing
      /\ Responses(r, "none") = People
      /\ Done(s) /\ UNCHANGED <<today, quiz, attempt, result>>
      /\ round' = [round EXCEPT ![r].status = "deleted"]
      /\ people' = [people EXCEPT ![r] = {}]
  BY DEF RemoveRound
<1>2. r \in Rounds /\ NoStart(s, r)
  BY <1>1, Locked DEF Existing
<1>3. n \in [status : RoundStates, opens : Days, due : Days] /\ n.status = "deleted"
  BY <1>2 DEF QuizInv, TypeOK, RoundStates
<1>4. round' = [round EXCEPT ![r] = n]
  BY <1>1
<1>5. \A p \in People : attempt[r][p].status = "none"
  BY <1>1 DEF Responses
<1> HIDE DEF r, n
<1>6. /\ round' \in [Rounds -> [status : RoundStates, opens : Days, due : Days]]
      /\ round'[r] = n /\ \A t \in Rounds \ {r} : round'[t] = round[t]
  BY <1>2, <1>3, <1>4 DEF QuizInv, TypeOK
<1>7. people' \in [Rounds -> SUBSET People]
  BY <1>1, <1>2 DEF QuizInv, TypeOK, r
<1>8. TypeOK'
  BY <1>1, <1>6, <1>7, EndsWell DEF QuizInv, TypeOK
<1>9. \A t \in Rounds : NoStart(s, t) \/ (t \in Open => round'[t].status = "open")
  BY <1>2, <1>6 DEF Open
<1>10. ASSUME NEW t \in Rounds
       PROVE  result'[t] = IF Ready(round'[t].status, attempt[t]) THEN Average(attempt[t])
                           ELSE NoResult
  <2>1. result[t] = IF Ready(round[t].status, attempt[t]) THEN Average(attempt[t]) ELSE NoResult
    BY DEF QuizInv, Current, Result
  <2>2. CASE t # r
    <3>1. round'[t].status = round[t].status /\ result'[t] = result[t]
      BY <1>1, <1>6, <2>2
    <3> QED
      BY <2>1, <3>1
  <2>3. CASE t = r
    <3>1. ~ Ready(round[t].status, attempt[t]) /\ ~ Ready(round'[t].status, attempt[t])
      BY <1>5, <2>3, NotReady
    <3> QED
      BY <1>1, <2>1, <3>1
  <2> QED
    BY <2>2, <2>3
<1> QED
  BY <1>1, <1>8, <1>9, <1>10, RoundStep

LEMMA SetAudienceStep ==
  ASSUME QuizInv, NEW s \in Slots, SetAudience(s)
  PROVE  QuizInv'
<1>1. Done(s) /\ UNCHANGED <<today, round, attempt, result>>
  BY DEF SetAudience
<1>2. PICK audience \in SUBSET People :
        /\ quiz' = [quiz EXCEPT !.audience = audience]
        /\ people' = [r \in Rounds |-> IF r \in Open THEN Synced(r, audience) ELSE people[r]]
  BY DEF SetAudience
<1>3. people' \in [Rounds -> SUBSET People]
  BY <1>2 DEF Synced, QuizInv, TypeOK
<1>4. quiz' \in [status : {"draft", "active", "archived", "deleted"}, audience : SUBSET People]
  BY <1>2 DEF QuizInv, TypeOK
<1>5. TypeOK'
  BY <1>1, <1>3, <1>4, EndsWell DEF QuizInv, TypeOK
<1>6. \A r \in Rounds : NoStart(s, r) \/ (r \in Open => round'[r].status = "open")
  BY <1>1 DEF Open
<1>7. \A r \in Rounds :
        result'[r] = IF Ready(round'[r].status, attempt[r]) THEN Average(attempt[r]) ELSE NoResult
  BY <1>1 DEF QuizInv, Current, Result
<1> QED
  BY <1>1, <1>5, <1>6, <1>7, RoundStep

LEMMA SetStatusStep ==
  ASSUME QuizInv, NEW s \in Slots, SetStatus(s)
  PROVE  QuizInv'
<1>1. Done(s) /\ UNCHANGED <<today, attempt, result>>
  BY DEF SetStatus
<1>2. PICK status \in {"draft", "active"} :
        /\ quiz' = [quiz EXCEPT !.status = status]
        /\ \/ UNCHANGED <<round, people>>
           \/ \E r \in Unused, due \in Days : due >= today /\ AddRound(r, today, due)
  BY DEF SetStatus
<1>3. quiz' \in [status : {"draft", "active", "archived", "deleted"}, audience : SUBSET People]
  BY <1>2 DEF QuizInv, TypeOK
<1>4. CASE \E r \in Unused, due \in Days : due >= today /\ AddRound(r, today, due)
  <2>1. PICK r \in Unused, due \in Days : AddRound(r, today, due)
    BY <1>4
  <2>2. today \in Days
    BY DEF QuizInv, TypeOK
  <2> QED
    BY <1>1, <1>3, <2>1, <2>2, AddRoundStep
<1>5. CASE UNCHANGED <<round, people>>
  <2>1. TypeOK'
    BY <1>1, <1>3, <1>5, EndsWell DEF QuizInv, TypeOK
  <2>2. \A r \in Rounds : NoStart(s, r) \/ (r \in Open => round'[r].status = "open")
    BY <1>5 DEF Open
  <2>3. \A r \in Rounds :
          result'[r] = IF Ready(round'[r].status, attempt[r]) THEN Average(attempt[r])
                       ELSE NoResult
    BY <1>1, <1>5 DEF QuizInv, Current, Result
  <2> QED
    BY <1>1, <2>1, <2>2, <2>3, RoundStep
<1> QED
  BY <1>2, <1>4, <1>5

LEMMA ArchiveStep ==
  ASSUME QuizInv, NEW s \in Slots, Archive(s)
  PROVE  QuizInv'
<1>1. /\ request[s].op = "archive" /\ ~ Blocked(s) /\ Done(s)
      /\ UNCHANGED <<today, people, attempt>>
      /\ round' = ClosedRounds(Open) /\ result' = ClosedResults(Open)
  BY DEF Archive
<1>2. quiz' \in [status : {"draft", "active", "archived", "deleted"}, audience : SUBSET People]
  BY DEF Archive, QuizInv, TypeOK
<1>3. Open \in SUBSET Rounds
  BY DEF Open
<1>4. TypeOK'
  BY <1>1, <1>2, <1>3, ClosedRoundsAre, EndsWell DEF QuizInv, TypeOK
<1>5. \A r \in Rounds : NoStart(s, r) \/ (r \in Open => round'[r].status = "open")
  BY <1>1, Locked
<1>6. ASSUME NEW r \in Rounds
      PROVE  result'[r] = IF Ready(round'[r].status, attempt[r]) THEN Average(attempt[r])
                          ELSE NoResult
  <2>1. CASE r \in Open
    <3>1. result'[r] = Recorded(r, "closed", attempt[r]) /\ round'[r].status = "closed"
      BY <1>1, <1>3, <2>1, ClosedRoundsAre
    <3> QED
      BY <2>1, <3>1, ClosesWell
  <2>2. CASE r \notin Open
    <3>1. result'[r] = result[r] /\ round'[r].status = round[r].status
      BY <1>1, <1>3, <2>2, ClosedRoundsAre
    <3> QED
      BY <3>1 DEF QuizInv, Current, Result
  <2> QED
    BY <2>1, <2>2
<1> QED
  BY <1>1, <1>4, <1>5, <1>6, RoundStep

LEMMA DeleteQuizStep ==
  ASSUME QuizInv, NEW s \in Slots, DeleteQuiz(s)
  PROVE  QuizInv'
<1>1. /\ request[s].op = "delete" /\ ~ Blocked(s)
      /\ \A r \in Rounds : Responses(r, "none") = People
      /\ Done(s) /\ UNCHANGED <<today, attempt, result>>
      /\ people' = [r \in Rounds |-> {}]
  BY DEF DeleteQuiz
<1>2. quiz' \in [status : {"draft", "active", "archived", "deleted"}, audience : SUBSET People]
  BY DEF DeleteQuiz, QuizInv, TypeOK
<1>3. round' \in [Rounds -> [status : RoundStates, opens : Days, due : Days]]
  <2> DEFINE gone(r) == [round[r] EXCEPT !.status = "deleted"]
             after(r) == IF r \in Existing THEN gone(r) ELSE round[r]
  <2>1. \A r \in Rounds : round[r] \in [status : RoundStates, opens : Days, due : Days]
    BY DEF QuizInv, TypeOK
  <2>2. \A r \in Rounds : gone(r) \in [status : RoundStates, opens : Days, due : Days]
    BY <2>1 DEF RoundStates
  <2>3. round' = [r \in Rounds |-> after(r)]
    BY DEF DeleteQuiz
  <2> HIDE DEF gone
  <2>4. \A r \in Rounds : after(r) \in [status : RoundStates, opens : Days, due : Days]
    BY <2>1, <2>2
  <2> HIDE DEF after
  <2> QED
    BY <2>3, <2>4
<1>4. TypeOK'
  BY <1>1, <1>2, <1>3, EndsWell DEF QuizInv, TypeOK
<1>5. \A r \in Rounds : r \in Open => r \in Existing
  BY DEF Open, Existing
<1>6. \A r \in Rounds : NoStart(s, r) \/ (r \in Open => round'[r].status = "open")
  BY <1>1, <1>5, Locked
<1>7. ASSUME NEW r \in Rounds
      PROVE  result'[r] = IF Ready(round'[r].status, attempt[r]) THEN Average(attempt[r])
                          ELSE NoResult
  <2>1. \A p \in People : attempt[r][p].status = "none"
    BY <1>1 DEF Responses
  <2>2. ~ Ready(round[r].status, attempt[r]) /\ ~ Ready(round'[r].status, attempt[r])
    BY <2>1, NotReady
  <2> QED
    BY <1>1, <2>2 DEF QuizInv, Current, Result
<1> QED
  BY <1>1, <1>4, <1>6, <1>7, RoundStep

LEMMA CloseDueStep ==
  ASSUME QuizInv, NEW r \in Rounds, CloseDue(r)
  PROVE  QuizInv'
<1>1. /\ r \in Open /\ UNCHANGED <<today, quiz, people, attempt, request>>
      /\ \A u \in Slots : ~ Conflict(RoundLocks({r}), Takes(request[u]))
      /\ round' = ClosedRounds({r}) /\ result' = ClosedResults({r})
  BY DEF CloseDue
<1>2. RoundLock(r, "update") \in RoundLocks({r})
  BY DEF RoundLocks
<1>3. \A u \in Slots : ~ (request[u].op = "start" /\ request[u].round = r)
  BY <1>1, <1>2, Excludes
<1>4. TypeOK'
  <2>1. /\ round' \in [Rounds -> [status : RoundStates, opens : Days, due : Days]]
        /\ DOMAIN result' = Rounds
    BY <1>1, ClosedRoundsAre
  <2> QED
    BY <1>1, <2>1 DEF QuizInv, TypeOK
<1>5. \A t \in Rounds \ {r} : round'[t].status = round[t].status
  BY <1>1, ClosedRoundsAre
<1>6. Held'
  BY <1>1, <1>3, <1>5 DEF QuizInv, Held, Open
<1>7. OneHolder'
  BY <1>1 DEF QuizInv, OneHolder
<1>8. ASSUME NEW t \in Rounds
      PROVE  result'[t] = IF Ready(round'[t].status, attempt'[t]) THEN Average(attempt'[t])
                          ELSE NoResult
  <2>1. CASE t = r
    <3>1. result'[t] = Recorded(t, "closed", attempt[t]) /\ round'[t].status = "closed"
      BY <1>1, <2>1, ClosedRoundsAre
    <3>2. attempt'[t] = attempt[t]
      BY <1>1
    <3> QED
      BY <1>1, <2>1, <3>1, <3>2, ClosesWell
  <2>2. CASE t # r
    <3>1. result'[t] = result[t] /\ round'[t].status = round[t].status /\ attempt'[t] = attempt[t]
      BY <1>1, <2>2, ClosedRoundsAre
    <3> QED
      BY <3>1 DEF QuizInv, Current, Result
  <2> QED
    BY <2>1, <2>2
<1>9. Current'
  BY <1>8, CurrentNext
<1> QED
  BY <1>4, <1>6, <1>7, <1>9 DEF QuizInv
-----------------------------------------------------------------------------
(* What those who sit and grade do. *)

(* A request that ends with one attempt changed, which it has locked or *)
(* which nobody has started.                                            *)
LEMMA AttemptStep ==
  ASSUME QuizInv, NEW s \in Slots, Done(s), UNCHANGED <<today, quiz, round, people>>,
         NEW r \in Rounds, NEW p \in People, NEW b \in Attempts,
         attempt' = [attempt EXCEPT ![r] = [attempt[r] EXCEPT ![p] = b]],
         \/ request[s].op \in Sitting /\ request[s].round = r /\ request[s].person = p
         \/ attempt[r][p].status = "none",
         DOMAIN result' = Rounds,
         \A t \in Rounds \ {r} : result'[t] = result[t],
         result'[r] = IF Ready(round[r].status, attempt'[r]) THEN Average(attempt'[r]) ELSE NoResult
  PROVE  QuizInv'
<1>1. attempt \in [Rounds -> [People -> Attempts]]
  BY DEF QuizInv, TypeOK
<1>2. /\ attempt' \in [Rounds -> [People -> Attempts]]
      /\ \A t \in Rounds \ {r} : attempt'[t] = attempt[t]
      /\ \A x \in People \ {p} : attempt'[r][x] = attempt[r][x]
  BY <1>1
<1>3. TypeOK'
  BY <1>2, EndsWell DEF QuizInv, TypeOK
<1>4. \A t \in Rounds :
        result'[t] = IF Ready(round'[t].status, attempt'[t]) THEN Average(attempt'[t])
                     ELSE NoResult
  <2> SUFFICES ASSUME NEW t \in Rounds, t # r
               PROVE  result'[t] = IF Ready(round'[t].status, attempt'[t])
                                   THEN Average(attempt'[t]) ELSE NoResult
    OBVIOUS
  <2>1. result'[t] = result[t] /\ round'[t] = round[t] /\ attempt'[t] = attempt[t]
    BY <1>2
  <2>2. result[t] = IF Ready(round[t].status, attempt[t]) THEN Average(attempt[t]) ELSE NoResult
    BY DEF QuizInv, Current, Result
  <2> QED
    BY <2>1, <2>2
<1>5. Current'
  BY <1>4, CurrentNext
<1>6. ASSUME NEW t \in Slots, t # s
      PROVE  /\ request[t].op = "start" => request[t].round \in Open
             /\ request[t].op = "sit" =>
                  attempt'[request[t].round][request[t].person].status = "in_progress"
             /\ request[t].op = "grade" =>
                  attempt'[request[t].round][request[t].person].status
                    \in {"submitted", "complete"}
  <2>1. CASE request[t].op \in Sitting
    <3>1. request[t].round \in Rounds /\ request[t].person \in People
      BY <2>1, RequestOf DEF QuizInv, Sitting
    <3>2. ~ (request[t].round = r /\ request[t].person = p)
      BY <1>6, <2>1 DEF QuizInv, OneHolder, Held, Sitting
    <3>3. attempt'[request[t].round][request[t].person] = attempt[request[t].round][request[t].person]
      BY <1>2, <3>1, <3>2
    <3> QED
      BY <3>3 DEF QuizInv, Held
  <2>2. CASE request[t].op \notin Sitting
    BY <2>2 DEF QuizInv, Held, Sitting
  <2> QED
    BY <2>1, <2>2
<1>7. Held'
  <2> SUFFICES ASSUME NEW t \in Slots
               PROVE  /\ request'[t].op = "start" =>
                           request'[t].round \in Rounds
                           /\ round'[request'[t].round].status = "open"
                      /\ request'[t].op = "sit" =>
                           attempt'[request'[t].round][request'[t].person].status = "in_progress"
                      /\ request'[t].op = "grade" =>
                           attempt'[request'[t].round][request'[t].person].status
                             \in {"submitted", "complete"}
    BY DEF Held, Open
  <2>1. /\ request'[s] = Free /\ \A u \in Slots : u # s => request'[u] = request[u]
        /\ UNCHANGED round
    BY EndsWell
  <2>2. CASE t = s
    BY <2>1, <2>2 DEF Free
  <2>3. CASE t # s
    <3>1. request'[t] = request[t]
      BY <2>1, <2>3
    <3> QED
      BY <1>6, <2>1, <2>3, <3>1 DEF Open
  <2> QED
    BY <2>2, <2>3
<1> QED
  BY <1>3, <1>5, <1>7, EndsWell DEF QuizInv

(* An open round has no result, whatever its attempts become. *)
LEMMA OpenHasNoResult ==
  ASSUME QuizInv, NEW r \in Rounds, r \in Open, NEW scores
  PROVE  result[r] = IF Ready(round[r].status, scores) THEN Average(scores) ELSE NoResult
<1>1. ~ Ready(round[r].status, attempt[r]) /\ ~ Ready(round[r].status, scores)
  BY DEF Open, Ready
<1> QED
  BY <1>1 DEF QuizInv, Current, Result

LEMMA StartInsertsStep ==
  ASSUME QuizInv, NEW s \in Slots, StartInserts(s)
  PROVE  QuizInv'
<1> DEFINE r == request[s].round
           p == request[s].person
           b == [attempt[r][p] EXCEPT !.status = "in_progress"]
<1>1. /\ request[s].op = "start" /\ Done(s) /\ UNCHANGED <<today, quiz, round, people, result>>
      /\ \/ /\ attempt[r][p].status = "none"
            /\ attempt' = [attempt EXCEPT ![r][p].status = "in_progress"]
         \/ UNCHANGED attempt
  BY DEF StartInserts
<1>2. r \in Rounds /\ p \in People /\ r \in Open
  BY <1>1, RequestOf DEF QuizInv, Held
<1>3. CASE UNCHANGED attempt
  <2>1. TypeOK'
    BY <1>1, <1>3, EndsWell DEF QuizInv, TypeOK
  <2> QED
    BY <1>1, <1>3, <2>1, EndsWell, RequestStep DEF Free
<1>4. CASE /\ attempt[r][p].status = "none"
           /\ attempt' = [attempt EXCEPT ![r][p].status = "in_progress"]
  <2>1. attempt[r][p] \in Attempts
    BY <1>2 DEF QuizInv, TypeOK
  <2>2. b \in Attempts
    BY <2>1 DEF Attempts, AttemptStates
  <2>3. attempt' = [attempt EXCEPT ![r] = [attempt[r] EXCEPT ![p] = b]]
    BY <1>4
  <2>4. DOMAIN result = Rounds
    BY DEF QuizInv, TypeOK
  <2>5. result'[r] = IF Ready(round[r].status, attempt'[r]) THEN Average(attempt'[r]) ELSE NoResult
    BY <1>1, <1>2, OpenHasNoResult
  <2>6. Done(s) /\ UNCHANGED <<today, quiz, round, people>> /\ attempt[r][p].status = "none"
    BY <1>1, <1>4
  <2>7. DOMAIN result' = Rounds /\ \A t \in Rounds \ {r} : result'[t] = result[t]
    BY <1>1, <2>4
  <2>8. r \in Rounds /\ p \in People
    BY <1>2
  <2> HIDE DEF b, r, p
  <2> QED
    BY <2>2, <2>3, <2>5, <2>6, <2>7, <2>8, AttemptStep
<1> QED
  BY <1>1, <1>3, <1>4

LEMMA SitFinishesStep ==
  ASSUME QuizInv, NEW s \in Slots, SitFinishes(s)
  PROVE  QuizInv'
<1> DEFINE r == request[s].round
           p == request[s].person
<1>1. /\ request[s].op = "sit" /\ Done(s) /\ UNCHANGED <<today, quiz, round, people, result>>
      /\ r \in Open
  BY DEF SitFinishes, Sittable
<1>2. PICK a \in Answers : \E sat \in {[attempt[r][p] EXCEPT !.answer = a], HandedIn(a)} :
        attempt' = [attempt EXCEPT ![r][p] = sat]
  BY DEF SitFinishes
<1>3. PICK sat \in {[attempt[r][p] EXCEPT !.answer = a], HandedIn(a)} :
        attempt' = [attempt EXCEPT ![r][p] = sat]
  BY <1>2
<1>4. r \in Rounds /\ p \in People
  BY <1>1, RequestOf DEF QuizInv
<1>5. attempt[r][p] \in Attempts
  BY <1>4 DEF QuizInv, TypeOK
<1>6. sat \in Attempts
  BY <1>5 DEF Attempts, AttemptStates, Answers, Marks, HandedIn
<1>7. attempt' = [attempt EXCEPT ![r] = [attempt[r] EXCEPT ![p] = sat]]
  BY <1>3
<1>8. DOMAIN result = Rounds
  BY DEF QuizInv, TypeOK
<1>9. result'[r] = IF Ready(round[r].status, attempt'[r]) THEN Average(attempt'[r]) ELSE NoResult
  BY <1>1, <1>4, OpenHasNoResult
<1>10. request[s].op \in Sitting /\ request[s].round = r /\ request[s].person = p
  BY <1>1 DEF Sitting
<1> HIDE DEF r, p
<1> QED
  BY <1>1, <1>4, <1>6, <1>7, <1>8, <1>9, <1>10, AttemptStep

(* Whether a round's result is ready depends on the status of its attempts. *)
LEMMA SameReady ==
  ASSUME NEW status, NEW scores, NEW others,
         \A p \in People : scores[p].status = others[p].status, Ready(status, scores)
  PROVE  Ready(status, others) /\ Finished(others) = Finished(scores)
<1>1. {p \in People : scores[p].status = "complete"} = {p \in People : others[p].status = "complete"}
  OBVIOUS
<1> DEFINE c == Cardinality({p \in People : scores[p].status = "complete"})
<1>2. c = Cardinality({p \in People : others[p].status = "complete"})
  BY <1>1
<1>3. status = "closed" /\ c >= MinCohort /\ \A p \in People : others[p].status # "submitted"
  BY DEF Ready
<1> HIDE DEF c
<1>4. Ready(status, others)
  BY <1>2, <1>3 DEF Ready
<1> QED
  BY <1>1, <1>4 DEF Finished

(* A regrade of a recorded round leaves it ready. *)
LEMMA GradedIsReady ==
  ASSUME QuizInv, NEW r \in Rounds, NEW p \in People, NEW b, b.status = "complete",
         attempt[r][p].status \in {"submitted", "complete"}, result[r] # NoResult
  PROVE  /\ Ready(round[r].status, attempt[r])
         /\ Ready(round[r].status, [attempt[r] EXCEPT ![p] = b])
         /\ Finished([attempt[r] EXCEPT ![p] = b]) = Finished(attempt[r])
<1>1. Ready(round[r].status, attempt[r])
  BY DEF QuizInv, Current, Result
<1>2. attempt[r][p].status = "complete"
  BY <1>1 DEF Ready
<1>3. attempt[r] \in [People -> Attempts]
  BY DEF QuizInv, TypeOK
<1> DEFINE new == [attempt[r] EXCEPT ![p] = b]
<1>4. \A x \in People : attempt[r][x].status = new[x].status
  BY <1>2, <1>3
<1> HIDE DEF new
<1>5. Ready(round[r].status, new) /\ Finished(new) = Finished(attempt[r])
  BY <1>1, <1>4, SameReady
<1> QED
  BY <1>1, <1>5 DEF new

(* What a grade changes. *)
LEMMA GradeIs ==
  ASSUME QuizInv, NEW s \in Slots, GradeFinishes(s)
  PROVE  LET r == request[s].round
             p == request[s].person IN
         /\ request[s].op = "grade" /\ r \in Rounds /\ p \in People
         /\ attempt[r][p].status \in {"submitted", "complete"}
         /\ Done(s) /\ UNCHANGED <<today, quiz, round, people>>
         /\ \E b \in Attempts :
              /\ b.status = "complete" /\ b.answer = attempt[r][p].answer
              /\ attempt' = [attempt EXCEPT ![r] = [attempt[r] EXCEPT ![p] = b]]
              /\ result' = [result EXCEPT ![r] =
                   Recorded(r, round[r].status, [attempt[r] EXCEPT ![p] = b])]
<1> DEFINE r == request[s].round
           p == request[s].person
           b(g) == [status |-> "complete", answer |-> attempt[r][p].answer, score |-> g]
<1>1. request[s].op = "grade" /\ Done(s) /\ UNCHANGED <<today, quiz, round, people>>
  BY DEF GradeFinishes
<1>2. r \in Rounds /\ p \in People
  BY <1>1, RequestOf DEF QuizInv
<1>3. attempt[r][p].status \in {"submitted", "complete"}
  BY <1>1 DEF QuizInv, Held
<1>4. attempt[r] \in [People -> Attempts] /\ attempt[r][p] \in Attempts
  BY <1>2 DEF QuizInv, TypeOK
<1>5. PICK g \in Marks :
        /\ attempt' = [attempt EXCEPT ![r] = [attempt[r] EXCEPT ![p] = b(g)]]
        /\ result' = [result EXCEPT ![r] =
             Recorded(r, round[r].status, [attempt[r] EXCEPT ![p] = b(g)])]
  BY DEF GradeFinishes
<1>6. b(g) \in Attempts
  BY <1>4 DEF Attempts, AttemptStates
<1>7. b(g).status = "complete" /\ b(g).answer = attempt[r][p].answer
  OBVIOUS
<1> QED
  BY <1>1, <1>2, <1>3, <1>5, <1>6, <1>7

LEMMA GradeFinishesStep ==
  ASSUME QuizInv, NEW s \in Slots, GradeFinishes(s)
  PROVE  QuizInv'
<1> DEFINE r == request[s].round
           p == request[s].person
<1>1. /\ request[s].op = "grade" /\ r \in Rounds /\ p \in People
      /\ attempt[r][p].status \in {"submitted", "complete"}
      /\ Done(s) /\ UNCHANGED <<today, quiz, round, people>>
  BY GradeIs
<1>2. PICK b \in Attempts :
        /\ b.status = "complete"
        /\ attempt' = [attempt EXCEPT ![r] = [attempt[r] EXCEPT ![p] = b]]
        /\ result' = [result EXCEPT ![r] =
             Recorded(r, round[r].status, [attempt[r] EXCEPT ![p] = b])]
  BY GradeIs
<1>3. request[s].op \in Sitting /\ request[s].round = r /\ request[s].person = p
  BY <1>1 DEF Sitting
<1> HIDE DEF r, p
<1> DEFINE new == [attempt[r] EXCEPT ![p] = b]
<1>4. Ready(round[r].status, new) \/ result[r] = NoResult
  BY <1>1, <1>2, GradedIsReady
<1> HIDE DEF new
<1>5. Recorded(r, round[r].status, new) =
        IF Ready(round[r].status, new) THEN Average(new) ELSE NoResult
  BY <1>4, RecordedIs
<1>6. /\ DOMAIN result' = Rounds
      /\ \A t \in Rounds \ {r} : result'[t] = result[t]
      /\ result'[r] = Recorded(r, round[r].status, new)
  BY <1>1, <1>2 DEF QuizInv, TypeOK, new
<1>7. attempt'[r] = new
  BY <1>1, <1>2 DEF QuizInv, TypeOK, new
<1>8. result'[r] = IF Ready(round[r].status, attempt'[r]) THEN Average(attempt'[r]) ELSE NoResult
  BY <1>5, <1>6, <1>7
<1>9. Done(s) /\ UNCHANGED <<today, quiz, round, people>> /\ r \in Rounds /\ p \in People
  BY <1>1
<1>10. attempt' = [attempt EXCEPT ![r] = [attempt[r] EXCEPT ![p] = b]]
  BY <1>2
<1>11. DOMAIN result' = Rounds /\ \A t \in Rounds \ {r} : result'[t] = result[t]
  BY <1>6
<1> QED
  BY <1>3, <1>8, <1>9, <1>10, <1>11, AttemptStep
-----------------------------------------------------------------------------
(* Every step. *)

LEMMA NextDayStep ==
  ASSUME QuizInv, NextDay
  PROVE  QuizInv'
<1>1. UNCHANGED <<quiz, round, people, attempt, result, request>>
  BY DEF NextDay
<1>2. today \in Days /\ today < LastDay /\ today' = today + 1
  BY DEF NextDay, QuizInv, TypeOK
<1>3. today' \in Days
  BY <1>2, DaysAssumption DEF Days
<1>4. TypeOK'
  BY <1>1, <1>3 DEF QuizInv, TypeOK
<1>5. OneHolder'
  BY <1>1 DEF QuizInv, OneHolder
<1> QED
  BY <1>1, <1>4, <1>5, RequestStep

(* The kinds of step. *)
Begins(s) ==
  \/ \E r \in Rounds, p \in People :
       StartFindsRound(s, r, p) \/ SitLocksAttempt(s, r, p) \/ GradeLocksAttempt(s, r, p)
  \/ ManagerLocksQuiz(s)

LEMMA Steps ==
  ASSUME Next
  PROVE  \/ \E s \in Slots : Begins(s) \/ Sit(s) \/ Manage(s) \/ Abort(s)
         \/ \E r \in Rounds : CloseDue(r)
         \/ NextDay
  BY DEF Next, Begins, BreakDeadlock

LEMMA NextInv ==
  ASSUME QuizInv, Next
  PROVE  QuizInv'
<1>1. ASSUME NEW s \in Slots, Begins(s) PROVE QuizInv'
  BY <1>1, BeginsStep DEF Begins
<1>2. ASSUME NEW s \in Slots, Sit(s) PROVE QuizInv'
  BY <1>2, StartTakesRoundStep, StartInsertsStep, SitFinishesStep, GradeFinishesStep DEF Sit
<1>3. ASSUME NEW s \in Slots, Manage(s) PROVE QuizInv'
  BY <1>3, OpenRoundStep, ChangeRoundStep, RemoveRoundStep, SetAudienceStep, SetStatusStep,
     ArchiveStep, DeleteQuizStep DEF Manage
<1>4. ASSUME NEW s \in Slots, Abort(s) PROVE QuizInv'
  BY <1>4, AbortStep
<1>5. ASSUME NEW r \in Rounds, CloseDue(r) PROVE QuizInv'
  BY <1>5, CloseDueStep
<1> QED
  BY <1>1, <1>2, <1>3, <1>4, <1>5, Steps, NextDayStep

LEMMA StutterInv ==
  ASSUME QuizInv, UNCHANGED vars
  PROVE  QuizInv'
<1>1. UNCHANGED <<today, quiz, round, people, attempt, result, request>>
  BY DEF vars
<1>2. TypeOK' /\ OneHolder'
  BY <1>1 DEF QuizInv, TypeOK, OneHolder
<1> QED
  BY <1>1, <1>2, RequestStep

(* The invariant holds in every state. *)
THEOREM Invariant == Spec => []QuizInv
<1>1. QuizInv /\ [Next]_vars => QuizInv'
  BY NextInv, StutterInv
<1> QED
  BY InitInv, <1>1, PTL DEF Spec

(* Every row has one of its statuses, days and places. *)
THEOREM TypeCorrect == Spec => []TypeOK
<1>1. QuizInv => TypeOK
  BY DEF QuizInv
<1> QED
  BY <1>1, Invariant, PTL

(* A round's result is the average of its responses as they are now. *)
THEOREM ResultsAreCurrent == Spec => []ResultIsCurrent
<1>1. QuizInv => ResultIsCurrent
  BY DEF QuizInv, Current, Result, ResultIsCurrent, Existing
<1> QED
  BY <1>1, Invariant, PTL
-----------------------------------------------------------------------------
(* What each step does to the rounds and to the attempts. *)

LEMMA BeginsKeep ==
  ASSUME NEW s \in Slots, Begins(s)
  PROVE  UNCHANGED <<today, quiz, round, people, attempt, result>>
  BY DEF Begins, StartFindsRound, SitLocksAttempt, GradeLocksAttempt, ManagerLocksQuiz, Begin

(* Attempts are started and sat while their round is open, and graded after. *)
LEMMA AttemptChanges ==
  ASSUME QuizInv, Next, NEW r \in Rounds, NEW p \in People
  PROVE  \/ attempt'[r][p] = attempt[r][p]
         \/ r \in Open /\ attempt[r][p].status \in {"none", "in_progress"}
         \/ /\ attempt[r][p].status \in {"submitted", "complete"}
            /\ attempt'[r][p].status = "complete"
            /\ attempt'[r][p].answer = attempt[r][p].answer
<1> DEFINE Goal ==
      \/ attempt'[r][p] = attempt[r][p]
      \/ r \in Open /\ attempt[r][p].status \in {"none", "in_progress"}
      \/ /\ attempt[r][p].status \in {"submitted", "complete"}
         /\ attempt'[r][p].status = "complete"
         /\ attempt'[r][p].answer = attempt[r][p].answer
<1>1. attempt \in [Rounds -> [People -> Attempts]]
  BY DEF QuizInv, TypeOK
<1>2. ASSUME NEW s \in Slots, NEW b, NEW t \in Rounds, NEW x \in People,
             attempt' = [attempt EXCEPT ![t] = [attempt[t] EXCEPT ![x] = b]],
             \/ t \in Open /\ attempt[t][x].status \in {"none", "in_progress"}
             \/ /\ attempt[t][x].status \in {"submitted", "complete"}
                /\ b.status = "complete" /\ b.answer = attempt[t][x].answer
      PROVE  Goal
  <2>1. CASE t = r /\ x = p
    <3>1. attempt'[r][p] = b
      BY <1>1, <1>2, <2>1
    <3> QED
      BY <1>2, <2>1, <3>1
  <2>2. CASE ~ (t = r /\ x = p)
    <3>1. attempt'[r][p] = attempt[r][p]
      BY <1>1, <1>2, <2>2
    <3> QED
      BY <3>1
  <2> QED
    BY <2>1, <2>2
<1>3. CASE UNCHANGED attempt
  BY <1>3
<1>4. ASSUME NEW s \in Slots, StartInserts(s) PROVE Goal
  <2> DEFINE t == request[s].round
             x == request[s].person
             b == [attempt[t][x] EXCEPT !.status = "in_progress"]
  <2>1. /\ request[s].op = "start"
        /\ \/ /\ attempt[t][x].status = "none"
              /\ attempt' = [attempt EXCEPT ![t][x].status = "in_progress"]
           \/ UNCHANGED attempt
    BY <1>4 DEF StartInserts
  <2>2. t \in Rounds /\ x \in People /\ t \in Open
    BY <2>1, RequestOf DEF QuizInv, Held
  <2>3. CASE /\ attempt[t][x].status = "none"
             /\ attempt' = [attempt EXCEPT ![t][x].status = "in_progress"]
    <3>1. attempt' = [attempt EXCEPT ![t] = [attempt[t] EXCEPT ![x] = b]]
      BY <2>3
    <3> HIDE DEF b, t, x, Goal
    <3> QED
      BY <1>2, <2>2, <2>3, <3>1
  <2> QED
    BY <2>1, <2>3, <1>3
<1>5. ASSUME NEW s \in Slots, SitFinishes(s) PROVE Goal
  <2> DEFINE t == request[s].round
             x == request[s].person
  <2>1. request[s].op = "sit" /\ t \in Open
    BY <1>5 DEF SitFinishes, Sittable
  <2>2. t \in Rounds /\ x \in People /\ attempt[t][x].status = "in_progress"
    BY <2>1, RequestOf DEF QuizInv, Held
  <2>3. \E b : attempt' = [attempt EXCEPT ![t][x] = b]
    <3>1. PICK a \in Answers : \E sat \in {[attempt[t][x] EXCEPT !.answer = a], HandedIn(a)} :
            attempt' = [attempt EXCEPT ![t][x] = sat]
      BY <1>5 DEF SitFinishes
    <3> QED
      BY <3>1
  <2>4. PICK b : attempt' = [attempt EXCEPT ![t] = [attempt[t] EXCEPT ![x] = b]]
    BY <2>3
  <2> HIDE DEF t, x, Goal
  <2> QED
    BY <1>2, <1>5, <2>1, <2>2, <2>4
<1>6. ASSUME NEW s \in Slots, GradeFinishes(s) PROVE Goal
  <2> DEFINE t == request[s].round
             x == request[s].person
  <2>1. t \in Rounds /\ x \in People /\ attempt[t][x].status \in {"submitted", "complete"}
    BY <1>6, GradeIs
  <2>2. PICK b \in Attempts :
          /\ b.status = "complete" /\ b.answer = attempt[t][x].answer
          /\ attempt' = [attempt EXCEPT ![t] = [attempt[t] EXCEPT ![x] = b]]
    BY <1>6, GradeIs
  <2> HIDE DEF t, x, Goal
  <2> QED
    BY <1>2, <1>6, <2>1, <2>2
<1>7. ASSUME NEW s \in Slots, Begins(s) \/ Manage(s) \/ Abort(s) PROVE UNCHANGED attempt
  BY <1>7, BeginsKeep DEF Manage, OpenRound, ChangeRound, RemoveRound, SetAudience, SetStatus,
     Archive, DeleteQuiz, Abort
<1>8. ASSUME NEW t \in Rounds, CloseDue(t) PROVE UNCHANGED attempt
  BY <1>8 DEF CloseDue
<1>9. NextDay => UNCHANGED attempt
  BY DEF NextDay
<1>10. ASSUME NEW s \in Slots, Sit(s) PROVE Goal
  <2>1. StartTakesRound(s) => UNCHANGED attempt
    BY DEF StartTakesRound
  <2> QED
    BY <1>3, <1>4, <1>5, <1>6, <1>10, <2>1 DEF Sit
<1> QED
  BY <1>3, <1>7, <1>8, <1>9, <1>10, Steps

(* Answers change, and attempts start, only while the round is open and the *)
(* attempt is not handed in.                                                *)
THEOREM AnswersEnd == Spec => AnswersEndWithTheRound
<1> DEFINE A ==
      \A r \in Rounds, p \in People :
        \/ attempt[r][p].answer # attempt[r][p].answer'
        \/ attempt[r][p].status = "none" /\ attempt[r][p].status' # "none"
        => r \in Open /\ attempt[r][p].status \in {"none", "in_progress"}
<1>1. ASSUME QuizInv, Next PROVE A
  BY <1>1, AttemptChanges
<1>2. ASSUME UNCHANGED vars PROVE A
  BY <1>2 DEF vars
<1>3. QuizInv /\ [Next]_vars => [A]_vars
  BY <1>1, <1>2
<1> HIDE DEF A
<1>4. Spec => [][A]_vars
  BY <1>3, Invariant, PTL DEF Spec
<1> QED
  BY <1>4 DEF A, AnswersEndWithTheRound

(* Nothing opens a round whose result is recorded, or takes it away. *)
LEMMA StaysClosed ==
  ASSUME QuizInv, Next, NEW r \in Rounds, result[r] # NoResult
  PROVE  round[r].status = "closed" /\ round'[r].status = "closed"
<1>1. Ready(round[r].status, attempt[r])
  BY DEF QuizInv, Current, Result
<1>2. round[r].status = "closed"
  BY <1>1 DEF Ready
<1>3. ~ \A p \in People : attempt[r][p].status = "none"
  BY <1>1, NotReady
<1>4. round \in [Rounds -> [status : RoundStates, opens : Days, due : Days]]
  BY DEF QuizInv, TypeOK
<1>5. CASE UNCHANGED round
  BY <1>2, <1>5
<1>6. ASSUME NEW t, t # r, NEW b, round' = [round EXCEPT ![t] = b]
      PROVE  round'[r].status = "closed"
  BY <1>2, <1>4, <1>6
<1>7. ASSUME NEW t \in Unused, NEW opens, NEW due, AddRound(t, opens, due)
      PROVE  round'[r].status = "closed"
  <2>1. t # r
    BY <1>2, <1>7 DEF Unused
  <2>2. PICK b : round' = [round EXCEPT ![t] = b]
    BY <1>7 DEF AddRound
  <2> QED
    BY <1>6, <2>1, <2>2
<1>8. ASSUME NEW rs \in SUBSET Rounds, round' = ClosedRounds(rs)
      PROVE  round'[r].status = "closed"
  BY <1>2, <1>8, ClosedRoundsAre
<1>9. ASSUME NEW s \in Slots, Manage(s) PROVE round'[r].status = "closed"
  <2>1. CASE OpenRound(s)
    <3>1. PICK t \in Unused, opens \in Days, due \in Days : AddRound(t, opens, due)
      BY <2>1 DEF OpenRound
    <3> QED
      BY <1>7, <3>1
  <2>2. CASE ChangeRound(s)
    <3> DEFINE t == request[s].round
    <3>1. PICK due \in Days, status \in {"open", "closed"} :
            /\ status = "open" /\ t \notin Open => result[t] = NoResult
            /\ round' = [round EXCEPT ![t] = [status |-> status, opens |-> @.opens, due |-> due]]
      BY <2>2 DEF ChangeRound
    <3>2. CASE t # r
      <4> HIDE DEF t
      <4> QED
        BY <1>6, <3>1, <3>2
    <3>3. CASE t = r
      <4>1. status = "closed"
        BY <1>2, <3>1, <3>3 DEF Open
      <4> DEFINE n == [status |-> status, opens |-> round[r].opens, due |-> due]
      <4>2. n.status = "closed"
        BY <4>1
      <4>3. round' = [round EXCEPT ![r] = n]
        BY <3>1, <3>3
      <4> HIDE DEF n
      <4> QED
        BY <1>4, <4>2, <4>3
    <3> QED
      BY <3>2, <3>3
  <2>3. CASE RemoveRound(s)
    <3> DEFINE t == request[s].round
    <3>1. /\ \A p \in People : attempt[t][p].status = "none"
          /\ round' = [round EXCEPT ![t] = [round[t] EXCEPT !.status = "deleted"]]
      BY <2>3 DEF RemoveRound, Responses
    <3> HIDE DEF t
    <3> QED
      BY <1>3, <1>6, <3>1
  <2>4. CASE SetAudience(s)
    BY <1>5, <2>4 DEF SetAudience
  <2>5. CASE SetStatus(s)
    <3>1. \/ \E t \in Unused, due \in Days : AddRound(t, today, due)
          \/ UNCHANGED round
      BY <2>5 DEF SetStatus
    <3> QED
      BY <1>5, <1>7, <3>1
  <2>6. CASE DeleteQuiz(s)
    BY <1>3, <2>6 DEF DeleteQuiz, Responses
  <2>7. CASE Archive(s)
    <3>1. Open \in SUBSET Rounds
      BY DEF Open
    <3> QED
      BY <1>8, <2>7, <3>1 DEF Archive
  <2> QED
    BY <1>9, <2>1, <2>2, <2>3, <2>4, <2>5, <2>6, <2>7 DEF Manage
<1>10. ASSUME NEW s \in Slots, Begins(s) \/ Sit(s) \/ Abort(s) PROVE UNCHANGED round
  BY <1>10, BeginsKeep DEF Sit, StartTakesRound, StartInserts, SitFinishes, GradeFinishes, Abort
<1>11. ASSUME NEW t \in Rounds, CloseDue(t) PROVE round'[r].status = "closed"
  BY <1>8, <1>11 DEF CloseDue
<1>12. NextDay => UNCHANGED round
  BY DEF NextDay
<1> QED
  BY <1>2, <1>5, <1>9, <1>10, <1>11, <1>12, Steps

(* A recorded result keeps its responses. *)
LEMMA KeepsResponses ==
  ASSUME QuizInv, Next, NEW r \in Rounds, result[r] # NoResult
  PROVE  result[r].of' = result[r].of
<1>1. Ready(round[r].status, attempt[r]) /\ result[r] = Average(attempt[r])
  BY DEF QuizInv, Current, Result
<1>2. round[r].status = "closed" /\ round'[r].status = "closed"
  BY StaysClosed
<1>3. \A p \in People : attempt[r][p].status # "submitted"
  BY <1>1 DEF Ready
<1>4. \A p \in People : attempt[r][p].status = attempt'[r][p].status
  BY <1>2, <1>3, AttemptChanges DEF Open
<1>5. Ready(round[r].status, attempt'[r]) /\ Finished(attempt'[r]) = Finished(attempt[r])
  BY <1>1, <1>4, SameReady
<1>6. QuizInv'
  BY NextInv
<1>7. result'[r] = IF Ready(round'[r].status, attempt'[r]) THEN Average(attempt'[r]) ELSE NoResult
  BY <1>6 DEF QuizInv, Current, Result
<1>8. result'[r] = Average(attempt'[r])
  BY <1>2, <1>5, <1>7
<1>9. /\ Average(attempt[r]).of = Cardinality(Finished(attempt[r]))
      /\ Average(attempt'[r]).of = Cardinality(Finished(attempt'[r]))
  BY AverageOf
<1> QED
  BY <1>1, <1>5, <1>8, <1>9

(* A round whose result is recorded stays closed, with its responses. *)
THEOREM RecordedStaysClosed == Spec => RecordedStays
<1> DEFINE A ==
      \A r \in Rounds : result[r] # NoResult =>
        /\ round[r].status = "closed" => round[r].status' = "closed"
        /\ result[r].of' = result[r].of
<1>1. ASSUME QuizInv, Next PROVE A
  BY <1>1, StaysClosed, KeepsResponses
<1>2. ASSUME UNCHANGED vars PROVE A
  BY <1>2 DEF vars
<1>3. QuizInv /\ [Next]_vars => [A]_vars
  BY <1>1, <1>2
<1> HIDE DEF A
<1>4. Spec => [][A]_vars
  BY <1>3, Invariant, PTL DEF Spec
<1> QED
  BY <1>4 DEF A, RecordedStays
-----------------------------------------------------------------------------
(* Deadlocks. *)

(* Nobody waits for an attempt, so only managers and starts are waited for. *)
LEMMA WaitedFor ==
  ASSUME TypeOK, NEW s \in Slots, NEW u \in Slots, WaitsFor(s, u)
  PROVE  request[u].op \in Managing \cup {"start"}
<1>1. PICK l \in Awaits(request[s]), h \in Takes(request[u]) : l.row = h.row
  BY DEF WaitsFor, Conflict
<1>2. request[s] \in Requests /\ request[u] \in Requests
  BY DEF TypeOK
<1>3. l.row \in {"quiz", "round"}
  BY <1>1, <1>2 DEF Requests, Free, Awaits, RoundLocks, RoundLock, QuizLock
<1>4. request[u].op \notin {"free", "join"}
  BY <1>1 DEF Takes, Managing
<1>5. request[u].op \notin {"sit", "grade"}
  <2> SUFFICES ASSUME request[u].op \in {"sit", "grade"} PROVE FALSE
    OBVIOUS
  <2>1. Takes(request[u]) = {AttemptLock(request[u].round, request[u].person)}
    BY DEF Takes, Managing
  <2>2. h.row = "attempt"
    BY <1>1, <2>1 DEF AttemptLock
  <2> QED
    BY <1>1, <1>3, <2>2
<1> QED
  BY <1>2, <1>4, <1>5 DEF Requests, Free, Managing

(* Two requests wait for each other only when one of them starts an attempt. *)
THEOREM OnlyStartsWait == Spec => []OnlyStartsDeadlock
<1>1. QuizInv => OnlyStartsDeadlock
  <2> SUFFICES ASSUME QuizInv, NEW s \in Slots, NEW u \in Slots,
                      WaitsFor(s, u), WaitsFor(u, s)
               PROVE  "start" \in {request[s].op, request[u].op}
    BY DEF OnlyStartsDeadlock
  <2>1. request[s].op \in Managing \cup {"start"} /\ request[u].op \in Managing \cup {"start"}
    BY WaitedFor DEF QuizInv
  <2>2. s # u
    BY DEF WaitsFor
  <2> QED
    BY <2>1, <2>2 DEF QuizInv, OneHolder
<1> QED
  BY <1>1, Invariant, PTL
=============================================================================
