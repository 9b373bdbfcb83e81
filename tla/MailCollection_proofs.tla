------------------------ MODULE MailCollection_proofs ------------------------
(***************************************************************************)
(* Proofs about MailCollection, for every number of messages, mailboxes of *)
(* a name, workers, tasks, and every window, batch, interval and backoff.  *)
(*                                                                         *)
(* The lock of the connection lets one poll at a time go on, so what a     *)
(* poll saw of the checkpoint before its fetch is still so when it commits *)
(* (Known); and its answer leaves out no message between the two           *)
(* positions, whatever the mail server has done since (Answered).          *)
(***************************************************************************)
EXTENDS MailCollection, TLAPS

(* The poll under way has seen the position as it is. *)
Known ==
  \A w \in Workers :
    Polling(w) => run[w].seen.at = cursor.at /\ ~ run[w].seen.reset /\ ~ cursor.reset

(* The age of the attempt is the time since then, and what is due is of    *)
(* age.                                                                    *)
Aged ==
  /\ cursor.age = since
  /\ \A w \in Workers : run[w].pc = "due" => cursor.age = Interval

(* A position of the mailbox lies below its UIDNEXT, and of no mailbox to  *)
(* come.                                                                   *)
Reached(p) ==
  /\ p.epoch <= mailbox.epoch
  /\ p.epoch = mailbox.epoch => p.last < mailbox.next

Positioned ==
  /\ Reached(cursor.at)
  /\ cursor.at = Nowhere => events = {}
  /\ cursor.at # Nowhere =>
       cursor.at.epoch # 0 /\ baseline.epoch = cursor.at.epoch /\ baseline.last <= cursor.at.last

(* An answer to a poll from p. *)
Follows(p, answer) ==
  /\ answer.at.epoch # 0 /\ Reached(answer.at)
  /\ p = Nowhere => answer.items = {} /\ answer.at = baseline
  /\ p # Nowhere =>
       /\ answer.at.epoch = p.epoch /\ p.last <= answer.at.last
       /\ \A u \in answer.items : p.last < u
       /\ p.epoch = mailbox.epoch =>
            \A u \in mailbox.present : p.last < u /\ u <= answer.at.last => u \in answer.items

Answered ==
  \A w \in Workers :
    run[w].pc = "fetched" /\ ~ run[w].answer.changed => Follows(run[w].seen.at, run[w].answer)

MailInv ==
  /\ TypeOK
  /\ Known
  /\ Aged
  /\ Positioned
  /\ Answered
  /\ OnlyNewMail
  /\ NoMailSkipped
-----------------------------------------------------------------------------
(* Operators. *)

(* The greatest member of a set. *)
LEMMA MaxOf ==
  ASSUME NEW T \in SUBSET Int, NEW v \in T, \A y \in T : y <= v
  PROVE  Max(T) = v
<1>1. \A x \in T : (\A y \in T : x >= y) => x = v
  OBVIOUS
<1>2. \E x \in T : \A y \in T : x >= y
  OBVIOUS
<1> QED BY <1>1, <1>2, Zenon DEF Max

(* The smaller of two numbers. *)
LEMMA LeastIs ==
  ASSUME NEW m \in Int, NEW n \in Int
  PROVE  Least(m, n) \in Int /\ Least(m, n) <= m /\ Least(m, n) <= n
           /\ (Least(m, n) = m \/ Least(m, n) = n)
  BY DEF Least

(* What is left of a backoff stays within the longest one. *)
LEMMA BackoffIs ==
  ASSUME NEW failures \in Nat \ {0}, NEW age \in Nat
  PROVE  LET backoff == Least(2^(failures - 1), MaxBackoff)
         IN  backoff - Least(age, backoff) \in 0..MaxBackoff
<1> DEFINE power == 2^(failures - 1)
           backoff == Least(power, MaxBackoff)
<1>1. power \in Int
  <2>1. \A k \in Nat : 2^k \in Int
    BY Z3
  <2> QED BY <2>1
<1>2. MaxBackoff \in Nat
  BY BackoffAssumption
<1> HIDE DEF power
<1>3. backoff \in Int /\ backoff <= MaxBackoff
  BY <1>1, <1>2, LeastIs
<1> HIDE DEF backoff
<1>4. backoff - Least(age, backoff) \in 0..MaxBackoff
  BY <1>2, <1>3 DEF Least
<1> QED BY <1>4 DEF backoff, power

(* What a worker is doing, by the point where it is. *)
LEMMA RunIs ==
  ASSUME TypeOK, NEW w \in Workers
  PROVE  /\ run[w] \in Runs
         /\ run[w].pc = "idle" => run[w] = Idle
         /\ run[w].pc \in {"due", "fetching"} =>
              run[w] = [pc |-> run[w].pc, seen |-> run[w].seen] /\ run[w].seen \in Cursors
         /\ run[w].pc = "fetched" =>
              /\ run[w] = [pc |-> "fetched", seen |-> run[w].seen, answer |-> run[w].answer]
              /\ run[w].seen \in Cursors
              /\ run[w].answer \in [at : Positions, items : SUBSET Uids, changed : BOOLEAN]
<1>1. run[w] \in Runs
  BY DEF TypeOK
<1>2. CASE run[w] = Idle
  BY <1>1, <1>2 DEF Idle
<1>3. CASE run[w] \in [pc : {"due", "fetching"}, seen : Cursors]
  BY <1>1, <1>3
<1>4. CASE run[w] \in [pc : {"fetched"}, seen : Cursors,
                       answer : [at : Positions, items : SUBSET Uids, changed : BOOLEAN]]
  BY <1>1, <1>4
<1> QED BY <1>1, <1>2, <1>3, <1>4 DEF Runs

(* The numbers of a mailbox and a checkpoint. *)
LEMMA Numbers ==
  ASSUME TypeOK
  PROVE  /\ mailbox.epoch \in Nat \ {0} /\ mailbox.next \in Nat \ {0} /\ mailbox.present \subseteq Nat
         /\ mailbox.epoch <= MaxEpoch /\ mailbox.next <= LastUid + 1
         /\ cursor.at \in Positions /\ cursor.at.epoch \in Nat /\ cursor.at.last \in Nat
         /\ baseline \in Positions /\ baseline.epoch \in Nat /\ baseline.last \in Nat
         /\ since \in Nat /\ cursor.age \in Nat
  BY LastUidAssumption, EpochAssumption, IntervalAssumption
     DEF TypeOK, Uids, Cursors, Positions
-----------------------------------------------------------------------------
(* What the collector answers follows the position it started from.        *)
LEMMA AnswersFollow ==
  ASSUME TypeOK, NEW p \in Positions, Reached(p), p # Nowhere, p.epoch # 0,
         NEW answer \in Answers(p), ~ answer.changed
  PROVE  /\ answer.at \in Positions /\ answer.items \subseteq Uids
         /\ answer.at.epoch = p.epoch /\ p.last <= answer.at.last
         /\ Reached(answer.at)
         /\ \A u \in answer.items : p.last < u
         /\ \A u \in mailbox.present : p.last < u /\ u <= answer.at.last => u \in answer.items
<1> DEFINE end == Least(p.last + Window, mailbox.next - 1)
           uids == {u \in mailbox.present : p.last < u /\ u <= end}
<1>1. p.epoch = mailbox.epoch
  BY DEF Answers
<1>2. /\ p = [epoch |-> p.epoch, last |-> p.last] /\ p.epoch \in 0..MaxEpoch /\ p.last \in 0..LastUid
  BY DEF Positions
<1>3. PICK taken \in Takes(uids) :
        answer = [at |-> [p EXCEPT !.last = Last(p, taken, uids, end)], items |-> taken, changed |-> FALSE]
  BY <1>1, Zenon DEF Answers
<1>4. /\ mailbox.next \in Nat \ {0} /\ mailbox.next <= LastUid + 1 /\ mailbox.present \subseteq Nat
      /\ mailbox.present \subseteq Uids
  BY Numbers DEF TypeOK
<1>5. end \in Nat /\ p.last <= end /\ end < mailbox.next /\ end <= LastUid
  <2>1. Window \in Nat /\ LastUid \in Nat
    BY BatchAssumption, LastUidAssumption
  <2>2. p.last < mailbox.next
    BY <1>1 DEF Reached
  <2> QED BY <2>1, <2>2, <1>2, <1>4 DEF Least
<1> HIDE DEF end
<1>6. uids \subseteq Uids /\ uids \subseteq Nat /\ \A u \in uids : p.last < u /\ u <= end
  BY <1>4
<1> DEFINE last == Last(p, taken, uids, end)
<1>7. /\ taken \subseteq uids
      /\ last \in Nat /\ p.last <= last /\ last <= end
      /\ \A u \in uids : u <= last => u \in taken
  <2>1. CASE taken = uids
    BY <2>1, <1>2, <1>5, <1>6 DEF Last
  <2>2. CASE taken # uids
    <3>1. PICK v \in uids : taken = {u \in uids : u <= v}
      BY <2>2, <1>3 DEF Takes
    <3>2. v \in taken /\ taken \subseteq Int /\ v \in Nat /\ \A y \in taken : y <= v
      BY <3>1, <1>6
    <3>3. Max(taken) = v
      BY <3>2, MaxOf
    <3>4. last = v
      BY <3>3, <2>2 DEF Last
    <3> QED BY <3>1, <3>2, <3>4, <1>2, <1>6
  <2> QED BY <2>1, <2>2
<1> HIDE DEF last
<1>8. answer.at = [epoch |-> p.epoch, last |-> last] /\ answer.items = taken
  BY <1>2, <1>3 DEF last
<1>9. answer.at \in Positions
  BY <1>2, <1>5, <1>7, <1>8, LastUidAssumption DEF Positions
<1>10. Reached(answer.at)
  BY <1>1, <1>2, <1>4, <1>5, <1>7, <1>8, Numbers DEF Reached
<1>11. \A u \in mailbox.present : p.last < u /\ u <= last => u \in taken
  BY <1>4, <1>5, <1>7
<1>12. answer.at.epoch = p.epoch /\ answer.at.last = last /\ answer.items = taken
  BY <1>8
<1>13. taken \subseteq Uids /\ \A u \in taken : p.last < u
  BY <1>6, <1>7
<1>14. p.last <= last
  BY <1>7
<1> HIDE DEF uids
<1> QED BY <1>9, <1>10, <1>11, <1>12, <1>13, <1>14, Zenon

(* Steps that touch nothing the invariant speaks of. *)
LEMMA Unmoved ==
  ASSUME MailInv, UNCHANGED <<mailbox, cursor, run, events, history>>
  PROVE  Known' /\ Aged' /\ Positioned' /\ Answered' /\ OnlyNewMail' /\ NoMailSkipped'
  BY DEF MailInv, Known, Aged, Positioned, Answered, OnlyNewMail, NoMailSkipped, history,
         Polling, Reached, Follows

(* A worker that stops: whatever it had not committed is gone. *)
LEMMA Stops ==
  ASSUME MailInv, NEW w \in Workers, run' = [run EXCEPT ![w] = Idle]
  PROVE  /\ run' \in [Workers -> Runs]
         /\ run'[w] = Idle /\ run'[w].pc = "idle" /\ \A v \in Workers \ {w} : run'[v] = run[v]
         /\ \A v \in Workers : Polling(v)' => v # w /\ Polling(v)
         /\ \A v, u \in Workers : Polling(v)' /\ Polling(u)' => v = u
<1>1. run \in [Workers -> Runs] /\ \A v, u \in Workers : Polling(v) /\ Polling(u) => v = u
  BY DEF MailInv, TypeOK
<1>2. run' \in [Workers -> Runs]
  BY <1>1 DEF Runs
<1>3. run'[w] = Idle /\ run'[w].pc = "idle" /\ \A v \in Workers \ {w} : run'[v] = run[v]
  BY <1>1 DEF Idle
<1>4. \A v \in Workers : Polling(v)' => v # w /\ Polling(v)
  BY <1>3 DEF Polling
<1>5. \A v, u \in Workers : Polling(v)' /\ Polling(u)' => v = u
  BY <1>1, <1>4
<1> QED BY <1>2, <1>3, <1>4, <1>5
-----------------------------------------------------------------------------
(* The invariant. *)

LEMMA Initially == Init => MailInv
<1> SUFFICES ASSUME Init
             PROVE  MailInv
  OBVIOUS
<1> USE DEF Init
<1>1. PICK n \in 0..Least(1, LastUid) : mailbox = [epoch |-> 1, next |-> n + 1, present |-> 1..n]
  OBVIOUS
<1>2. n \in Nat /\ n <= LastUid
  BY LastUidAssumption DEF Least
<1>3. \A w \in Workers : run[w] = Idle /\ run[w].pc = "idle" /\ ~ Polling(w)
  BY DEF Idle, Polling
<1>4. /\ mailbox \in [epoch : 1..MaxEpoch, next : 1..(LastUid + 1), present : SUBSET Uids]
      /\ \A u \in mailbox.present : u < mailbox.next
  BY <1>1, <1>2, LastUidAssumption, EpochAssumption DEF Uids
<1>5. Nowhere \in Positions /\ cursor \in Cursors /\ cursor.at = Nowhere /\ cursor.age = Interval
  BY LastUidAssumption, EpochAssumption, IntervalAssumption, BackoffAssumption
     DEF NoCursor, Nowhere, Positions, Cursors
<1>6. TypeOK
  <2>1. run \in [Workers -> Runs] /\ collecting \in BOOLEAN
    BY DEF Runs
  <2>2. queued \in 0..MaxTasks /\ since \in 0..Interval
    BY TasksAssumption, IntervalAssumption
  <2> QED BY <2>1, <2>2, <1>3, <1>4, <1>5 DEF TypeOK
<1>7. Known /\ Aged /\ Answered /\ OnlyNewMail
  BY <1>3, <1>5 DEF Known, Aged, Answered, OnlyNewMail
<1>8. Nowhere.epoch = 0 /\ Nowhere.last = 0 /\ mailbox.epoch = 1
  BY <1>1 DEF Nowhere
<1>9. Positioned
  BY <1>5, <1>8 DEF Positioned, Reached
<1>10. NoMailSkipped
  BY <1>5, <1>8 DEF NoMailSkipped
<1> QED BY <1>6, <1>7, <1>9, <1>10 DEF MailInv

(* A message that arrives has a UID no position has reached. *)
LEMMA ArriveKeeps == MailInv /\ Arrive => MailInv'
<1> SUFFICES ASSUME MailInv, Arrive
             PROVE  MailInv'
  OBVIOUS
<1> USE DEF Arrive, history
<1>1. TypeOK
  BY DEF MailInv
<1>2. /\ mailbox.next \in Nat \ {0} /\ mailbox.next <= LastUid /\ mailbox.present \subseteq Nat
      /\ LastUid \in Nat /\ cursor.at.last \in Nat
  BY <1>1, Numbers, LastUidAssumption
<1>3. /\ mailbox'.epoch = mailbox.epoch /\ mailbox'.next = mailbox.next + 1
      /\ mailbox'.present = mailbox.present \cup {mailbox.next}
      /\ mailbox' \in [epoch : 1..MaxEpoch, next : 1..(LastUid + 1), present : SUBSET Uids]
      /\ \A u \in mailbox.present : u < mailbox.next
  <2>1. mailbox \in [epoch : 1..MaxEpoch, next : 1..(LastUid + 1), present : SUBSET Uids]
    BY <1>1 DEF TypeOK
  <2>2. mailbox' = [epoch |-> mailbox.epoch, next |-> mailbox.next + 1,
                    present |-> mailbox.present \cup {mailbox.next}]
    BY <2>1
  <2>3. mailbox.next \in Uids /\ mailbox.next + 1 \in 1..(LastUid + 1)
    BY <1>2 DEF Uids
  <2> QED BY <1>1, <2>1, <2>2, <2>3 DEF TypeOK
<1>4. TypeOK'
  BY <1>1, <1>2, <1>3 DEF TypeOK, Polling
<1>5. ASSUME NEW p \in Positions, Reached(p)
      PROVE  Reached(p)' /\ (p.epoch = mailbox.epoch => p.last < mailbox.next)
  BY <1>2, <1>3, <1>5 DEF Reached, Positions
<1>6. Known' /\ Aged' /\ OnlyNewMail'
  BY DEF MailInv, Known, Aged, OnlyNewMail, Polling
<1>7. cursor.at \in Positions /\ Reached(cursor.at)
  BY <1>1, Numbers DEF MailInv, Positioned
<1>8. Positioned'
  <2>1. Reached(cursor.at)'
    BY <1>5, <1>7
  <2> QED BY <2>1 DEF MailInv, Positioned
<1>9. NoMailSkipped'
  <2>1. cursor.at.epoch = mailbox.epoch => cursor.at.last < mailbox.next
    BY <1>5, <1>7
  <2> QED BY <2>1, <1>2, <1>3 DEF MailInv, NoMailSkipped
<1>10. Answered'
  <2> SUFFICES ASSUME NEW w \in Workers, run[w].pc = "fetched", ~ run[w].answer.changed
               PROVE  Follows(run[w].seen.at, run[w].answer)'
    BY DEF Answered
  <2> DEFINE p == run[w].seen.at
             answer == run[w].answer
  <2>1. Follows(p, answer) /\ answer.at \in Positions
    BY <1>1, RunIs DEF MailInv, Answered
  <2> HIDE DEF p, answer
  <2>2. Reached(answer.at)' /\ (answer.at.epoch = mailbox.epoch => answer.at.last < mailbox.next)
    <3>1. Reached(answer.at)
      BY <2>1 DEF Follows
    <3>2. answer.at.epoch = mailbox.epoch => answer.at.last < mailbox.next
      BY <3>1 DEF Reached
    <3>3. answer.at.last \in Nat
      BY <2>1, LastUidAssumption DEF Positions
    <3>4. answer' = answer
      BY DEF answer
    <3> QED BY <3>1, <3>2, <3>3, <3>4, <1>2, <1>3 DEF Reached
  <2>3. answer.at.last \in Nat
    BY <2>1, LastUidAssumption DEF Positions
  <2>4. (p # Nowhere /\ p.epoch = mailbox.epoch) =>
          \A u \in mailbox'.present : p.last < u /\ u <= answer.at.last => u \in answer.items
    BY <2>1, <2>2, <2>3, <1>2, <1>3 DEF Follows
  <2>5. run'[w].seen.at = p /\ run'[w].answer = answer
    BY DEF p, answer
  <2> QED BY <2>1, <2>2, <2>4, <2>5, <1>3 DEF Follows, p, answer
<1> QED BY <1>4, <1>6, <1>8, <1>9, <1>10 DEF MailInv

(* A message that is expunged takes no demand with it but its own. *)
LEMMA ExpungeKeeps == ASSUME NEW u \in Uids PROVE MailInv /\ Expunge(u) => MailInv'
<1> SUFFICES ASSUME MailInv, Expunge(u)
             PROVE  MailInv'
  OBVIOUS
<1> USE DEF Expunge, history
<1>1. /\ mailbox'.epoch = mailbox.epoch /\ mailbox'.next = mailbox.next
      /\ mailbox'.present = mailbox.present \ {u}
      /\ mailbox' \in [epoch : 1..MaxEpoch, next : 1..(LastUid + 1), present : SUBSET Uids]
  BY DEF MailInv, TypeOK
<1>2. TypeOK'
  BY <1>1 DEF MailInv, TypeOK, Polling
<1>3. Known' /\ Aged' /\ OnlyNewMail'
  BY DEF MailInv, Known, Aged, OnlyNewMail, Polling
<1>4. Positioned' /\ NoMailSkipped'
  BY <1>1 DEF MailInv, Positioned, Reached, NoMailSkipped
<1>5. Answered'
  BY <1>1 DEF MailInv, Answered, Follows, Reached
<1> QED BY <1>2, <1>3, <1>4, <1>5 DEF MailInv

(* No position is of a mailbox to come. *)
LEMMA RecreateKeeps == MailInv /\ Recreate => MailInv'
<1> SUFFICES ASSUME MailInv, Recreate
             PROVE  MailInv'
  OBVIOUS
<1> USE DEF Recreate, history
<1>1. TypeOK /\ mailbox.epoch \in Nat /\ MaxEpoch \in Nat
  BY Numbers, EpochAssumption DEF MailInv
<1>2. /\ mailbox'.epoch = mailbox.epoch + 1 /\ mailbox'.next = 1 /\ mailbox'.present = {}
      /\ mailbox' \in [epoch : 1..MaxEpoch, next : 1..(LastUid + 1), present : SUBSET Uids]
  BY <1>1, LastUidAssumption, EpochAssumption DEF TypeOK
<1>3. TypeOK'
  BY <1>1, <1>2 DEF TypeOK, Polling
<1>4. Known' /\ Aged' /\ OnlyNewMail'
  BY DEF MailInv, Known, Aged, OnlyNewMail, Polling
<1>5. ASSUME NEW p \in Positions, Reached(p)
      PROVE  Reached(p)' /\ p.epoch # mailbox'.epoch
  BY <1>1, <1>2, <1>5, EpochAssumption DEF Reached, Positions
<1>6. cursor.at \in Positions /\ Reached(cursor.at)
  BY <1>1, Numbers DEF MailInv, Positioned
<1>7. Reached(cursor.at)' /\ cursor.at.epoch # mailbox'.epoch
  BY <1>5, <1>6
<1>8. Positioned' /\ NoMailSkipped'
  BY <1>7 DEF MailInv, Positioned, NoMailSkipped
<1>9. Answered'
  <2> SUFFICES ASSUME NEW w \in Workers, run[w].pc = "fetched", ~ run[w].answer.changed
               PROVE  Follows(run[w].seen.at, run[w].answer)'
    BY DEF Answered
  <2>1. Follows(run[w].seen.at, run[w].answer) /\ run[w].answer.at \in Positions
    BY <1>1, RunIs DEF MailInv, Answered
  <2>2. Reached(run[w].answer.at)'
    BY <2>1, <1>5 DEF Follows
  <2> QED BY <2>1, <2>2, <1>2 DEF Follows
<1> QED BY <1>3, <1>4, <1>8, <1>9 DEF MailInv

(* A worker takes a task while no other polls, and sees the checkpoint.    *)
LEMMA TakeKeeps == ASSUME NEW w \in Workers PROVE MailInv /\ Take(w) => MailInv'
<1> SUFFICES ASSUME MailInv, Take(w)
             PROVE  MailInv'
  OBVIOUS
<1> USE DEF Take, history
<1>1. TypeOK /\ cursor \in Cursors /\ run \in [Workers -> Runs]
  BY DEF MailInv, TypeOK
<1>2. queued' \in 0..MaxTasks
  BY TasksAssumption DEF MailInv, TypeOK
<1>3. OnlyNewMail' /\ NoMailSkipped' /\ Positioned'
  BY DEF MailInv, OnlyNewMail, NoMailSkipped, Positioned, Reached
<1>4. CASE ~ Polls
  <2>1. run' = run
    BY <1>4
  <2>2. TypeOK'
    BY <1>2, <2>1 DEF MailInv, TypeOK, Polling
  <2>3. Known' /\ Aged' /\ Answered'
    BY <2>1 DEF MailInv, Known, Aged, Answered, Follows, Reached, Polling
  <2> QED BY <1>3, <2>2, <2>3 DEF MailInv
<1>5. CASE Polls
  <2>1. /\ \A v \in Workers : ~ Polling(v)
        /\ ~ cursor.reset /\ cursor.age = Interval
    BY <1>5 DEF Polls, Due
  <2> DEFINE due == [pc |-> "due", seen |-> cursor]
  <2>2. run' = [run EXCEPT ![w] = due]
    BY <1>5
  <2>3. due \in Runs /\ due.pc = "due" /\ due.seen = cursor
    BY <1>1 DEF Runs
  <2> HIDE DEF due
  <2>4. run' \in [Workers -> Runs] /\ run'[w] = due /\ \A v \in Workers \ {w} : run'[v] = run[v]
    BY <1>1, <2>2, <2>3
  <2>5. \A v \in Workers : Polling(v)' => v = w
    BY <2>1, <2>4 DEF Polling
  <2>6. TypeOK'
    BY <1>2, <2>4, <2>5 DEF MailInv, TypeOK
  <2>7. Known'
    BY <2>1, <2>3, <2>4, <2>5 DEF Known
  <2>8. Aged'
    BY <2>1 DEF MailInv, Aged
  <2>9. Answered'
    <3>1. \A v \in Workers : run'[v].pc # "fetched"
      BY <2>3, <2>4, <2>5 DEF Polling
    <3> QED BY <3>1 DEF Answered
  <2> QED BY <1>3, <2>6, <2>7, <2>8, <2>9 DEF MailInv
<1> QED BY <1>4, <1>5

(* A worker that polls is the only one. *)
LEMMA Alone ==
  ASSUME MailInv, NEW w \in Workers, Polling(w), run' \in [Workers -> Runs],
         \A v \in Workers \ {w} : run'[v] = run[v]
  PROVE  /\ \A v \in Workers : Polling(v)' => v = w
         /\ \A v, u \in Workers : Polling(v)' /\ Polling(u)' => v = u
<1>1. \A v \in Workers \ {w} : ~ Polling(v)
  BY DEF MailInv, TypeOK
<1>2. \A v \in Workers : Polling(v)' => v = w
  BY <1>1 DEF Polling
<1> QED BY <1>2

(* The attempt is committed over the checkpoint that was seen. *)
LEMMA AdmitKeeps == ASSUME NEW w \in Workers PROVE MailInv /\ Admit(w) => MailInv'
<1> SUFFICES ASSUME MailInv, Admit(w)
             PROVE  MailInv'
  OBVIOUS
<1> USE DEF Admit, history
<1>1. TypeOK /\ run \in [Workers -> Runs]
  BY DEF MailInv, TypeOK
<1> DEFINE seen == run[w].seen
           fetching == [pc |-> "fetching", seen |-> seen]
<1>2. run[w] = [pc |-> "due", seen |-> seen] /\ seen \in Cursors
  BY <1>1, RunIs
<1>3. /\ Polling(w) /\ seen.at = cursor.at /\ ~ seen.reset /\ ~ cursor.reset
  BY DEF MailInv, Known, Polling
<1> HIDE DEF seen
<1>4. run' = [run EXCEPT ![w] = fetching]
  <2>1. [run[w] EXCEPT !.pc = "fetching"] = fetching
    BY <1>2
  <2>2. run' = [run EXCEPT ![w] = [run[w] EXCEPT !.pc = "fetching"]]
    BY <1>1
  <2> HIDE DEF fetching
  <2> QED BY <2>1, <2>2
<1>5. fetching \in Runs /\ fetching.pc = "fetching" /\ fetching.seen = seen
  BY <1>2 DEF Runs
<1>6. cursor' = [seen EXCEPT !.age = 0]
  BY DEF seen
<1>7. cursor' \in Cursors /\ cursor'.at = cursor.at /\ cursor'.reset = seen.reset /\ cursor'.age = 0
  BY <1>2, <1>3, <1>6, IntervalAssumption DEF Cursors
<1> HIDE DEF fetching
<1>8. run' \in [Workers -> Runs] /\ run'[w] = fetching /\ \A v \in Workers \ {w} : run'[v] = run[v]
  BY <1>1, <1>4, <1>5
<1>9. /\ \A v \in Workers : Polling(v)' => v = w
      /\ \A v, u \in Workers : Polling(v)' /\ Polling(u)' => v = u
  BY <1>3, <1>8, Alone
<1>10. since' \in 0..Interval
  BY IntervalAssumption
<1>11. TypeOK'
  BY <1>7, <1>8, <1>9, <1>10 DEF MailInv, TypeOK
<1>12. Known'
  BY <1>3, <1>5, <1>7, <1>8, <1>9 DEF Known
<1>13. \A v \in Workers : run'[v].pc # "due" /\ run'[v].pc # "fetched"
  BY <1>5, <1>8, <1>9 DEF Polling
<1>14. Aged' /\ Answered'
  BY <1>7, <1>13 DEF Aged, Answered
<1>15. OnlyNewMail' /\ NoMailSkipped' /\ Positioned'
  BY <1>7 DEF MailInv, OnlyNewMail, NoMailSkipped, Positioned, Reached
<1> QED BY <1>11, <1>12, <1>14, <1>15 DEF MailInv

(* A poll ends, with another backoff at most. *)
LEMMA FetchFailsKeeps == ASSUME NEW w \in Workers PROVE MailInv /\ FetchFails(w) => MailInv'
<1> SUFFICES ASSUME MailInv, FetchFails(w)
             PROVE  MailInv'
  OBVIOUS
<1> USE DEF FetchFails, history
<1>1. TypeOK /\ run \in [Workers -> Runs] /\ cursor \in Cursors
  BY DEF MailInv, TypeOK
<1> DEFINE seen == run[w].seen
           failures == Least(seen.failures + 1, MaxFailures)
           backoff == Least(2^(failures - 1), MaxBackoff)
           wait == backoff - Least(cursor.age, backoff)
<1>2. seen \in Cursors
  BY <1>1, RunIs
<1>3. /\ Polling(w) /\ seen.at = cursor.at /\ ~ seen.reset /\ ~ cursor.reset
  BY DEF MailInv, Known, Polling
<1>4. cursor' = [seen EXCEPT !.age = cursor.age, !.failures = failures, !.wait = wait]
  OBVIOUS
<1> HIDE DEF seen
<1>5. failures \in Nat \ {0} /\ failures \in 0..MaxFailures
  BY <1>2, BackoffAssumption DEF Least, Cursors
<1>6. cursor.age \in 0..Interval /\ cursor.age \in Nat
  BY <1>1, Numbers DEF Cursors
<1> HIDE DEF failures
<1>7. wait \in 0..MaxBackoff
  BY <1>5, <1>6, BackoffIs
<1> HIDE DEF backoff, wait
<1>8. cursor' \in Cursors /\ cursor'.at = cursor.at /\ cursor'.age = cursor.age
  BY <1>2, <1>3, <1>4, <1>5, <1>6, <1>7 DEF Cursors
<1>9. /\ run' \in [Workers -> Runs]
      /\ run'[w].pc = "idle" /\ \A v \in Workers \ {w} : run'[v] = run[v]
      /\ \A v \in Workers : Polling(v)' => v # w /\ Polling(v)
      /\ \A v, u \in Workers : Polling(v)' /\ Polling(u)' => v = u
  BY Stops
<1>10. \A v \in Workers : ~ Polling(v)'
  BY <1>1, <1>3, <1>9 DEF TypeOK
<1>11. TypeOK'
  BY <1>8, <1>9 DEF MailInv, TypeOK
<1>12. Known' /\ Answered'
  BY <1>10 DEF Known, Answered, Polling
<1>13. Aged'
  BY <1>8, <1>10 DEF MailInv, Aged, Polling
<1>14. OnlyNewMail' /\ NoMailSkipped' /\ Positioned'
  BY <1>8 DEF MailInv, OnlyNewMail, NoMailSkipped, Positioned, Reached
<1> QED BY <1>11, <1>12, <1>13, <1>14 DEF MailInv

(* The answer follows the position seen; the first one is the baseline.    *)
LEMMA FetchKeeps == ASSUME NEW w \in Workers PROVE MailInv /\ Fetch(w) => MailInv'
<1> SUFFICES ASSUME MailInv, Fetch(w)
             PROVE  MailInv'
  OBVIOUS
<1> USE DEF history
<1>1. TypeOK /\ run \in [Workers -> Runs] /\ run[w].pc = "fetching"
  BY DEF MailInv, TypeOK, Fetch
<1>2. PICK seen \in Cursors : seen = run[w].seen /\ seen.at \in Positions
  BY <1>1, RunIs DEF Cursors
<1>3. Polling(w) /\ seen.at = cursor.at /\ ~ seen.reset /\ ~ cursor.reset
  BY <1>1, <1>2 DEF MailInv, Known, Polling
<1>4. PICK answer \in Answers(seen.at) :
        run' = [run EXCEPT ![w] = [pc |-> "fetched", seen |-> seen, answer |-> answer]]
  BY <1>1, <1>2 DEF Fetch
<1>5. /\ baseline' = IF seen.at = Nowhere THEN First.at ELSE baseline
      /\ UNCHANGED <<mailbox, collecting, queued, cursor, events, since>>
  BY <1>2 DEF Fetch, First
<1> DEFINE fetched == [pc |-> "fetched", seen |-> seen, answer |-> answer]
<1>6. run' = [run EXCEPT ![w] = fetched]
  BY <1>4
<1>7. First.at \in Positions /\ First.at.epoch # 0 /\ Reached(First.at)
      /\ First.items = {} /\ First.changed = FALSE
  BY <1>1, Numbers, LastUidAssumption DEF First, Positions, Reached
<1>8. seen.at # Nowhere => seen.at.epoch # 0 /\ Reached(seen.at)
  BY <1>3 DEF MailInv, Positioned
<1>9. seen.at = Nowhere => answer = First
  BY <1>4 DEF Answers
<1> HIDE DEF First
<1>10. /\ answer \in [at : Positions, items : SUBSET Uids, changed : BOOLEAN]
       /\ ~ answer.changed => Follows(seen.at, answer)'
  <2>1. CASE seen.at = Nowhere
    <3>1. answer = First /\ baseline' = First.at
      BY <2>1, <1>5, <1>9
    <3>2. First \in [at : Positions, items : SUBSET Uids, changed : BOOLEAN]
      <4>1. First = [at |-> First.at, items |-> {}, changed |-> FALSE]
        BY DEF First
      <4> QED BY <4>1, <1>7
    <3>3. Reached(answer.at)'
      <4>1. Reached(answer.at)
        BY <3>1, <1>7
      <4> QED BY <4>1, <1>5 DEF Reached
    <3>4. /\ Reached(answer.at)' /\ answer.at.epoch # 0
          /\ answer.items = {} /\ answer.at = baseline'
      BY <3>1, <3>3, <1>7
    <3>5. Follows(seen.at, answer)'
      BY <2>1, <3>4 DEF Follows
    <3> QED BY <3>1, <3>2, <3>5
  <2>2. CASE seen.at # Nowhere /\ seen.at.epoch # mailbox.epoch
    <3>1. answer = [at |-> seen.at, items |-> {}, changed |-> TRUE]
      BY <2>2, <1>4 DEF Answers
    <3> QED BY <3>1, <1>2
  <2>3. CASE seen.at # Nowhere /\ seen.at.epoch = mailbox.epoch
    <3>1. answer = [at |-> answer.at, items |-> answer.items, changed |-> FALSE]
      <4>1. PICK at, items : answer = [at |-> at, items |-> items, changed |-> FALSE]
        BY <2>3, <1>4 DEF Answers
      <4> QED BY <4>1
    <3>2. /\ answer.at \in Positions /\ answer.items \subseteq Uids
          /\ answer.at.epoch = seen.at.epoch /\ seen.at.last <= answer.at.last
          /\ Reached(answer.at)
          /\ \A u \in answer.items : seen.at.last < u
          /\ \A u \in mailbox.present :
               seen.at.last < u /\ u <= answer.at.last => u \in answer.items
      <4>1. ~ answer.changed
        BY <3>1
      <4> QED BY <4>1, <2>3, <1>1, <1>2, <1>4, <1>8, AnswersFollow
    <3>3. Reached(answer.at)'
      BY <3>2, <1>5 DEF Reached
    <3>4. Follows(seen.at, answer)'
      BY <2>3, <3>2, <3>3, <1>5, <1>8 DEF Follows
    <3>5. answer \in [at : Positions, items : SUBSET Uids, changed : BOOLEAN]
      <4>1. answer.at \in Positions /\ answer.items \in SUBSET Uids
        BY <3>2
      <4>2. [at |-> answer.at, items |-> answer.items, changed |-> FALSE]
              \in [at : Positions, items : SUBSET Uids, changed : BOOLEAN]
        BY <4>1
      <4> QED BY <3>1, <4>2, Zenon
    <3> QED BY <3>4, <3>5
  <2> QED BY <2>1, <2>2, <2>3
<1> HIDE DEF fetched
<1>11. fetched \in Runs /\ fetched.pc = "fetched" /\ fetched.seen = seen /\ fetched.answer = answer
  BY <1>2, <1>10 DEF Runs, fetched
<1>12. run' \in [Workers -> Runs] /\ run'[w] = fetched /\ \A v \in Workers \ {w} : run'[v] = run[v]
  BY <1>1, <1>6, <1>11
<1>13. /\ \A v \in Workers : Polling(v)' => v = w
       /\ \A v, u \in Workers : Polling(v)' /\ Polling(u)' => v = u
  BY <1>3, <1>12, Alone
<1>14. baseline' \in Positions
  BY <1>1, <1>5, <1>7, Numbers
<1>15. TypeOK'
  BY <1>5, <1>12, <1>13, <1>14 DEF MailInv, TypeOK
<1>16. Known'
  BY <1>3, <1>5, <1>11, <1>12, <1>13 DEF Known
<1>17. \A v \in Workers : run'[v].pc # "due"
  BY <1>11, <1>12, <1>13 DEF Polling
<1>18. Aged'
  BY <1>5, <1>17 DEF MailInv, Aged
<1>19. Answered'
  <2> SUFFICES ASSUME NEW v \in Workers, run'[v].pc = "fetched", ~ run'[v].answer.changed
               PROVE  Follows(run[v].seen.at, run[v].answer)'
    BY DEF Answered
  <2>1. v = w
    BY <1>13 DEF Polling
  <2>2. run'[v].seen.at = seen.at /\ run'[v].answer = answer /\ ~ answer.changed
    BY <2>1, <1>11, <1>12
  <2> QED BY <2>2, <1>10 DEF Follows
<1>20. Positioned' /\ OnlyNewMail' /\ NoMailSkipped'
  <2>1. CASE seen.at = Nowhere
    <3>1. cursor'.at = Nowhere /\ events' = {} /\ Nowhere.epoch = 0 /\ mailbox'.epoch # 0
      BY <2>1, <1>1, <1>3, <1>5, Numbers DEF MailInv, Positioned, Nowhere
    <3>2. Reached(cursor.at)'
      BY <1>5 DEF MailInv, Positioned, Reached
    <3> QED BY <3>1, <3>2 DEF Positioned, OnlyNewMail, NoMailSkipped
  <2>2. CASE seen.at # Nowhere
    BY <2>2, <1>5 DEF MailInv, Positioned, OnlyNewMail, NoMailSkipped, Reached
  <2> QED BY <2>1, <2>2
<1> QED BY <1>15, <1>16, <1>18, <1>19, <1>20 DEF MailInv

(* Events and checkpoint are committed together.                           *)
LEMMA SaveKeeps == ASSUME NEW w \in Workers PROVE MailInv /\ Save(w) => MailInv'
<1> SUFFICES ASSUME MailInv, Save(w)
             PROVE  MailInv'
  OBVIOUS
<1> USE DEF history
<1>1. /\ TypeOK /\ cursor \in Cursors /\ run[w].pc = "fetched"
      /\ run' = [run EXCEPT ![w] = Idle]
      /\ UNCHANGED <<mailbox, collecting, queued, since, baseline>>
  BY DEF MailInv, TypeOK, Save
<1>2. PICK seen \in Cursors, answer \in [at : Positions, items : SUBSET Uids, changed : BOOLEAN] :
        seen = run[w].seen /\ answer = run[w].answer
  BY <1>1, RunIs
<1>3. Polling(w) /\ seen.at = cursor.at /\ ~ seen.reset /\ ~ cursor.reset
  BY <1>1, <1>2 DEF MailInv, Known, Polling
<1>4. ~ answer.changed => Follows(cursor.at, answer)
  BY <1>1, <1>2, <1>3 DEF MailInv, Answered
<1>5. /\ run' \in [Workers -> Runs]
      /\ run'[w].pc = "idle" /\ \A v \in Workers \ {w} : run'[v] = run[v]
      /\ \A v \in Workers : Polling(v)' => v # w /\ Polling(v)
      /\ \A v, u \in Workers : Polling(v)' /\ Polling(u)' => v = u
  BY <1>1, Stops
<1>6. \A v \in Workers : ~ Polling(v)'
  BY <1>1, <1>3, <1>5 DEF TypeOK
<1>7. Known' /\ Answered' /\ \A v \in Workers : run'[v].pc # "due"
  BY <1>6 DEF Known, Answered, Polling
<1>8. cursor.age \in 0..Interval
  BY <1>1 DEF Cursors
<1>9. CASE answer.changed
  <2>1. cursor' = [seen EXCEPT !.age = cursor.age, !.reset = TRUE] /\ events' = events
    BY <1>2, <1>9 DEF Save
  <2>2. cursor' \in Cursors /\ cursor'.at = cursor.at /\ cursor'.age = cursor.age
    BY <2>1, <1>3, <1>8 DEF Cursors
  <2>3. TypeOK'
    BY <2>1, <2>2, <1>1, <1>5 DEF TypeOK
  <2>4. Aged'
    BY <2>2, <1>1, <1>7 DEF MailInv, Aged
  <2>5. Positioned' /\ OnlyNewMail' /\ NoMailSkipped'
    BY <2>1, <2>2, <1>1 DEF MailInv, Positioned, Reached, OnlyNewMail, NoMailSkipped
  <2> QED BY <2>3, <2>4, <2>5, <1>7 DEF MailInv
<1>10. CASE ~ answer.changed
  <2>1. /\ cursor' = [NoCursor EXCEPT !.at = answer.at, !.age = cursor.age]
        /\ events' = events \cup {<<answer.at.epoch, u>> : u \in answer.items}
    BY <1>2, <1>10 DEF Save
  <2>2. cursor' \in Cursors /\ cursor'.at = answer.at /\ cursor'.age = cursor.age
    <3>1. answer.at \in Positions
      BY <1>2
    <3>2. NoCursor.wait \in 0..MaxBackoff /\ NoCursor.failures \in 0..MaxFailures /\ ~ NoCursor.reset
      BY BackoffAssumption DEF NoCursor
    <3>3. cursor' = [at |-> answer.at, reset |-> NoCursor.reset, age |-> cursor.age,
                     wait |-> NoCursor.wait, failures |-> NoCursor.failures]
      BY <2>1 DEF NoCursor
    <3>4. NoCursor.reset \in BOOLEAN
      BY DEF NoCursor
    <3> QED BY <3>1, <3>2, <3>3, <3>4, <1>8 DEF Cursors
  <2>3. Follows(cursor.at, answer)
    BY <1>4, <1>10
  <2>4. /\ answer.at.epoch \in 1..MaxEpoch /\ answer.at.last \in Nat
        /\ answer.items \subseteq Uids
    <3>1. answer.at.epoch \in 0..MaxEpoch /\ answer.at.last \in 0..LastUid
      BY <1>2 DEF Positions
    <3>2. answer.at.epoch # 0
      BY <2>3 DEF Follows
    <3> QED BY <3>1, <3>2, <1>2, LastUidAssumption, EpochAssumption
  <2>5. events' \subseteq (1..MaxEpoch) \X Uids
    BY <2>1, <2>4, <1>1 DEF TypeOK
  <2>6. TypeOK'
    BY <2>2, <2>5, <1>1, <1>5 DEF TypeOK
  <2>7. Aged'
    BY <2>2, <1>1, <1>7 DEF MailInv, Aged
  <2>8. /\ answer.at # Nowhere /\ baseline.epoch = answer.at.epoch
        /\ baseline.last <= answer.at.last
    <3>1. answer.at # Nowhere
      BY <2>4 DEF Nowhere
    <3>2. CASE cursor.at = Nowhere
      BY <3>1, <3>2, <2>3, <2>4 DEF Follows
    <3>3. CASE cursor.at # Nowhere
      <4>1. baseline.epoch = cursor.at.epoch /\ baseline.last <= cursor.at.last
        BY <3>3 DEF MailInv, Positioned
      <4>2. answer.at.epoch = cursor.at.epoch /\ cursor.at.last <= answer.at.last
        BY <3>3, <2>3 DEF Follows
      <4> QED BY <3>1, <4>1, <4>2, <2>4, <1>1, Numbers
    <3> QED BY <3>2, <3>3
  <2>9. Positioned'
    <3>1. Reached(answer.at)
      BY <2>3 DEF Follows
    <3>2. Reached(cursor.at)'
      BY <3>1, <2>2, <1>1 DEF Reached
    <3> QED BY <3>2, <2>2, <2>4, <2>8, <1>1 DEF Positioned
  <2>10. OnlyNewMail'
    <3>1. \A u \in answer.items : baseline.last < u
      <4>1. CASE cursor.at = Nowhere
        BY <4>1, <2>3 DEF Follows
      <4>2. CASE cursor.at # Nowhere
        <5>1. baseline.last <= cursor.at.last
          BY <4>2 DEF MailInv, Positioned
        <5>2. \A u \in answer.items : cursor.at.last < u /\ u \in Int
          BY <4>2, <2>3, <2>4 DEF Follows, Uids
        <5> QED BY <5>1, <5>2, <1>1, Numbers
      <4> QED BY <4>1, <4>2
    <3>2. \A e \in events' : e \in events \/ \E u \in answer.items : e = <<answer.at.epoch, u>>
      BY <2>1
    <3>3. \A u \in answer.items : u \in Int
      BY <2>4 DEF Uids
    <3>4. \A u \in answer.items : baseline.epoch = answer.at.epoch /\ u > baseline.last
      BY <3>1, <3>3, <2>8, <1>1, Numbers
    <3> QED BY <3>2, <3>4, <1>1 DEF MailInv, OnlyNewMail
  <2>11. NoMailSkipped'
    <3> SUFFICES ASSUME answer.at.epoch = mailbox.epoch, NEW u \in mailbox.present,
                        baseline.last < u, u <= answer.at.last
                 PROVE  <<mailbox.epoch, u>> \in events'
      BY <2>2, <1>1 DEF NoMailSkipped
    <3>1. u \in Nat
      BY <1>1, Numbers
    <3>2. cursor.at # Nowhere
      <4>1. CASE cursor.at = Nowhere
        <5>1. answer.at = baseline
          BY <4>1, <2>3 DEF Follows
        <5> QED BY <5>1, <3>1, <1>1, Numbers
      <4> QED BY <4>1
    <3>3. cursor.at.epoch = mailbox.epoch
      BY <3>2, <2>3 DEF Follows
    <3>4. CASE u <= cursor.at.last
      BY <3>3, <3>4, <2>1 DEF MailInv, NoMailSkipped
    <3>5. CASE cursor.at.last < u
      <4>1. u \in answer.items
        BY <3>2, <3>3, <3>5, <2>3 DEF Follows
      <4> QED BY <4>1, <2>1
    <3>6. u <= cursor.at.last \/ cursor.at.last < u
      BY <3>1, <1>1, Numbers
    <3> QED BY <3>4, <3>5, <3>6
  <2> QED BY <2>6, <2>7, <2>9, <2>10, <2>11, <1>7 DEF MailInv
<1> QED BY <1>9, <1>10

(* A poll that is given up, or fails to store, leaves what it found.       *)
LEMMA AbandonKeeps == ASSUME NEW w \in Workers PROVE MailInv /\ Abandon(w) => MailInv'
<1> SUFFICES ASSUME MailInv, Abandon(w)
             PROVE  MailInv'
  OBVIOUS
<1> USE DEF Abandon, history
<1>1. /\ run' \in [Workers -> Runs]
      /\ run'[w].pc = "idle" /\ \A v \in Workers \ {w} : run'[v] = run[v]
      /\ \A v \in Workers : Polling(v)' => v # w /\ Polling(v)
      /\ \A v, u \in Workers : Polling(v)' /\ Polling(u)' => v = u
  BY Stops
<1>2. TypeOK'
  BY <1>1 DEF MailInv, TypeOK
<1>3. Known'
  BY <1>1 DEF MailInv, Known
<1>4. \A v \in Workers : run'[v].pc \in {"due", "fetched"} => v # w
  BY <1>1
<1>5. Aged' /\ Answered'
  BY <1>1, <1>4 DEF MailInv, Aged, Answered, Follows, Reached
<1>6. OnlyNewMail' /\ NoMailSkipped' /\ Positioned'
  BY DEF MailInv, OnlyNewMail, NoMailSkipped, Positioned, Reached
<1> QED BY <1>2, <1>3, <1>5, <1>6 DEF MailInv

(* What is due stays due as time passes.                                   *)
LEMMA TickKeeps == MailInv /\ Tick => MailInv'
<1> SUFFICES ASSUME MailInv, Tick
             PROVE  MailInv'
  OBVIOUS
<1> USE DEF Tick, history
<1>1. TypeOK /\ cursor \in Cursors /\ since \in 0..Interval /\ cursor.age = since
  BY DEF MailInv, TypeOK, Aged
<1>2. cursor.age \in 0..Interval /\ cursor.wait \in 0..MaxBackoff
  BY <1>1 DEF Cursors
<1> DEFINE age == Least(cursor.age + 1, Interval)
           wait == IF cursor.wait = 0 THEN 0 ELSE cursor.wait - 1
<1>3. age \in 0..Interval /\ (cursor.age = Interval => age = Interval)
  BY <1>2, IntervalAssumption DEF Least
<1>4. wait \in 0..MaxBackoff
  BY <1>2, BackoffAssumption
<1>5. cursor' = [cursor EXCEPT !.age = age, !.wait = wait] /\ since' = age
  BY <1>1
<1> HIDE DEF age, wait
<1>6. cursor' \in Cursors /\ cursor'.at = cursor.at /\ cursor'.reset = cursor.reset /\ cursor'.age = age
  BY <1>1, <1>3, <1>4, <1>5 DEF Cursors
<1>7. TypeOK'
  BY <1>1, <1>3, <1>5, <1>6 DEF TypeOK, Polling
<1>8. Known' /\ Aged'
  BY <1>1, <1>3, <1>5, <1>6 DEF MailInv, Known, Aged, Polling
<1>9. Answered' /\ OnlyNewMail' /\ NoMailSkipped' /\ Positioned'
  BY <1>6 DEF MailInv, Answered, Follows, OnlyNewMail, NoMailSkipped, Positioned, Reached
<1> QED BY <1>7, <1>8, <1>9 DEF MailInv

(* Administrators and tasks touch neither mailbox nor checkpoint.          *)
LEMMA SwitchKeeps == MailInv /\ (Switch \/ Queue \/ Expire \/ UNCHANGED vars) => MailInv'
<1> SUFFICES ASSUME MailInv, Switch \/ Queue \/ Expire \/ UNCHANGED vars
             PROVE  MailInv'
  OBVIOUS
<1>1. UNCHANGED <<mailbox, cursor, run, events, history>>
  BY DEF Switch, Queue, Expire, vars, history
<1>2. queued \in 0..MaxTasks /\ collecting \in BOOLEAN
  BY DEF MailInv, TypeOK
<1>3. queued' \in 0..MaxTasks
  BY <1>2, TasksAssumption DEF Switch, Queue, Expire, vars
<1>4. collecting' \in BOOLEAN
  BY <1>2 DEF Switch, Queue, Expire, vars
<1>5. TypeOK'
  BY <1>1, <1>3, <1>4 DEF MailInv, TypeOK, Polling, history
<1> QED BY <1>1, <1>5, Unmoved DEF MailInv

LEMMA Inductive == MailInv /\ [Next]_vars => MailInv'
<1> SUFFICES ASSUME MailInv, [Next]_vars
             PROVE  MailInv'
  OBVIOUS
<1>1. CASE Arrive
  BY <1>1, ArriveKeeps
<1>2. CASE Recreate
  BY <1>2, RecreateKeeps
<1>3. CASE Switch \/ Queue \/ Expire \/ UNCHANGED vars
  BY <1>3, SwitchKeeps
<1>4. CASE Tick
  BY <1>4, TickKeeps
<1>5. CASE \E u \in Uids : Expunge(u)
  BY <1>5, ExpungeKeeps
<1>6. CASE \E w \in Workers : Take(w)
  BY <1>6, TakeKeeps
<1>7. CASE \E w \in Workers : Admit(w)
  BY <1>7, AdmitKeeps
<1>8. CASE \E w \in Workers : Fetch(w)
  BY <1>8, FetchKeeps
<1>9. CASE \E w \in Workers : FetchFails(w)
  BY <1>9, FetchFailsKeeps
<1>10. CASE \E w \in Workers : Save(w)
  BY <1>10, SaveKeeps
<1>11. CASE \E w \in Workers : Abandon(w)
  BY <1>11, AbandonKeeps
<1> QED BY <1>1, <1>2, <1>3, <1>4, <1>5, <1>6, <1>7, <1>8, <1>9, <1>10, <1>11 DEF Next
-----------------------------------------------------------------------------
(***************************************************************************)
(* Theorems.                                                               *)
(***************************************************************************)

(* The invariant of the specification, for any servers, tasks and deaths.  *)
THEOREM Invariant == Spec => []MailInv
<1>1. Init => MailInv
  BY Initially
<1>2. MailInv /\ [Next]_vars => MailInv'
  BY Inductive
<1> QED BY <1>1, <1>2, PTL DEF Spec

(* One poll at a time, and every variable has its type.                    *)
THEOREM TypeCorrect == Spec => []TypeOK
<1>1. MailInv => TypeOK
  BY DEF MailInv
<1> QED BY <1>1, Invariant, PTL

(* Every message that stays in the mailbox is stored before the checkpoint *)
(* passes it, whatever window, batch, failures and deaths.                 *)
THEOREM NoMailIsSkipped == Spec => []NoMailSkipped
<1>1. MailInv => NoMailSkipped
  BY DEF MailInv
<1> QED BY <1>1, Invariant, PTL

(* Mail of before the first collection, or of a folder created anew, is    *)
(* never imported.                                                         *)
THEOREM OnlyNewMailIsStored == Spec => []OnlyNewMail
<1>1. MailInv => OnlyNewMail
  BY DEF MailInv
<1> QED BY <1>1, Invariant, PTL

(* No attempt comes earlier than the interval after the last one, failed   *)
(* ones and lost ones included.                                            *)
THEOREM IntervalIsKept == Spec => IntervalKept
<1>1. MailInv => \A w \in Workers : run[w].pc = "due" => since = Interval
  BY DEF MailInv, Aged
<1>2. MailInv /\ [Next]_vars =>
        [\A w \in Workers : run[w].pc = "due" /\ run'[w].pc = "fetching" => since = Interval]_vars
  BY <1>1
<1> QED BY <1>2, Invariant, PTL DEF Spec, IntervalKept

(* No poll, however late, loses the checkpoint or sets it back.            *)
THEOREM CheckpointOnlyMovesOn == Spec => CheckpointMovesOn
<1> DEFINE MovesOn == cursor.at # Nowhere =>
                        /\ cursor'.at.epoch = cursor.at.epoch
                        /\ cursor'.at.last >= cursor.at.last
                        /\ cursor.reset => cursor'.reset
<1>1. ASSUME MailInv, [Next]_vars
      PROVE  MovesOn
  <2>1. TypeOK /\ cursor \in Cursors /\ cursor.at.last \in Nat
    BY <1>1, Numbers DEF MailInv, TypeOK
  <2>2. CASE cursor' = cursor
    BY <2>1, <2>2
  <2>3. ASSUME NEW w \in Workers, Admit(w) \/ FetchFails(w)
        PROVE  MovesOn
    <3>1. Polling(w) /\ run[w].seen \in Cursors
      BY <2>1, <2>3, RunIs DEF Admit, FetchFails, Polling
    <3>2. run[w].seen.at = cursor.at /\ ~ cursor.reset
      BY <1>1, <3>1 DEF MailInv, Known
    <3>3. cursor'.at = run[w].seen.at
      BY <2>3, <3>1 DEF Admit, FetchFails, Cursors
    <3> QED BY <2>1, <3>2, <3>3
  <2>4. ASSUME NEW w \in Workers, Save(w)
        PROVE  MovesOn
    <3>1. Polling(w) /\ run[w].seen \in Cursors /\ run[w].pc = "fetched"
      BY <2>1, <2>4, RunIs DEF Save, Polling
    <3>2. run[w].seen.at = cursor.at /\ ~ cursor.reset
      BY <1>1, <3>1 DEF MailInv, Known
    <3>3. CASE run[w].answer.changed
      <4>1. cursor'.at = run[w].seen.at
        BY <2>4, <3>1, <3>3 DEF Save, Cursors
      <4> QED BY <2>1, <3>2, <4>1
    <3>4. CASE ~ run[w].answer.changed
      <4>1. cursor'.at = run[w].answer.at
        BY <2>4, <3>4 DEF Save, NoCursor
      <4>2. Follows(cursor.at, run[w].answer)
        BY <1>1, <3>1, <3>2, <3>4 DEF MailInv, Answered
      <4>3. run[w].answer.at.last \in Nat
        <5>1. run[w].answer \in [at : Positions, items : SUBSET Uids, changed : BOOLEAN]
          BY <2>1, <3>1, RunIs
        <5>2. run[w].answer.at \in Positions
          BY <5>1
        <5> QED BY <5>2, LastUidAssumption DEF Positions
      <4> QED BY <2>1, <3>2, <4>1, <4>2, <4>3 DEF Follows
    <3> QED BY <3>3, <3>4
  <2>5. CASE Tick
    <3>1. cursor'.at = cursor.at /\ cursor'.reset = cursor.reset
      BY <2>1, <2>5 DEF Tick, Cursors
    <3> QED BY <2>1, <3>1
  <2> HIDE DEF MovesOn
  <2>6. \/ cursor' = cursor \/ Tick
        \/ \E w \in Workers : Admit(w) \/ FetchFails(w) \/ Save(w)
    BY <1>1 DEF Next, vars, Arrive, Recreate, Switch, Queue, Expire, Expunge, Take, Fetch, Abandon
  <2> QED BY <2>2, <2>3, <2>4, <2>5, <2>6
<1>2. MailInv /\ [Next]_vars => [MovesOn]_vars
  BY <1>1
<1>3. Spec => [][MovesOn]_vars
  BY <1>2, Invariant, PTL DEF Spec
<1> QED BY <1>3 DEF CheckpointMovesOn
=============================================================================
