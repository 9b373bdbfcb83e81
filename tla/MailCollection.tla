---------------------------- MODULE MailCollection ----------------------------
(***************************************************************************)
(* IMAP collection of the mailbox a connection names: the workers that     *)
(* poll it (app/ingest/imap.py with the process it starts,                 *)
(* app/ingest/imap_support/worker.py), the lock of the connection          *)
(* (app/ingest/connections.py) and the tasks (app/worker/tasks.py).        *)
(*                                                                         *)
(* A poll reads the checkpoint of the mailbox, commits the attempt,        *)
(* fetches without a database transaction, and commits the events together *)
(* with the new checkpoint.  Polls of a connection exclude each other by a *)
(* session lock, which a dead worker gives up.  A checkpoint is named by   *)
(* server, account and folder: while the connection is edited to name      *)
(* another mailbox, this one is as good as switched off.                   *)
(*                                                                         *)
(* Times are relative: a checkpoint carries the time since the last        *)
(* attempt and what is left of its backoff, in ticks of two minutes.       *)
(***************************************************************************)
EXTENDS Integers, FiniteSets, FiniteSetsExt

CONSTANTS
  LastUid,     \* bound on the UIDs of the mailbox
  MaxEpoch,    \* bound on its UIDVALIDITYs
  Unreadable,  \* UIDs whose headers exceed the limits of the collector
  Workers,     \* IMAP workers
  MaxTasks,    \* bound on the tasks in the queue
  Interval,    \* ticks between polls; at least five minutes in the code
  MaxBackoff,  \* the longest backoff; an hour in the code
  MaxFailures, \* failures are counted up to this; 8 in the code
  Window,      \* UIDs one poll looks at; 100 in the code
  Batch        \* messages one poll takes; 10 in the code

Uids == 1..LastUid

ASSUME LastUidAssumption == LastUid \in Nat
ASSUME EpochAssumption == MaxEpoch \in Nat \ {0}
ASSUME UnreadableAssumption == Unreadable \subseteq Uids
ASSUME TasksAssumption == MaxTasks \in Nat \ {0}
ASSUME IntervalAssumption == Interval \in Nat \ {0, 1}
ASSUME BackoffAssumption == MaxBackoff \in Nat \ {0} /\ MaxFailures \in Nat \ {0}
ASSUME BatchAssumption == Window \in Nat /\ Batch \in 1..Window

VARIABLES
  mailbox,     \* the mailbox as the server has it
  collecting,  \* the connection names the mailbox, is enabled and not paused
  queued,      \* keen.ingest_imap_connection tasks in the queue
  cursor,      \* the row of ingestion_cursors
  run,         \* what each worker is doing
  events,      \* stored messages: <<epoch, uid>>
  since,       \* history: ticks since the last attempt
  baseline     \* history: the position of the mailbox at the first collection

history == <<since, baseline>>
vars == <<mailbox, collecting, queued, cursor, run, events, history>>

Least(m, n) == IF m < n THEN m ELSE n

Nowhere == [epoch |-> 0, last |-> 0]
NoCursor == [at |-> Nowhere, reset |-> FALSE, age |-> Interval, wait |-> 0, failures |-> 0]
Idle == [pc |-> "idle"]

Init ==
  /\ mailbox \in {[epoch |-> 1, next |-> n + 1, present |-> 1..n] : n \in 0..Least(1, LastUid)}
  /\ collecting = FALSE
  /\ queued = 0
  /\ cursor = NoCursor
  /\ run = [w \in Workers |-> Idle]
  /\ events = {}
  /\ since = Interval
  /\ baseline = Nowhere
-----------------------------------------------------------------------------
(***************************************************************************)
(* The mail server, administrators and tasks.                              *)
(***************************************************************************)

Arrive ==
  /\ mailbox.next <= LastUid
  /\ mailbox' = [mailbox EXCEPT !.present = @ \cup {mailbox.next}, !.next = @ + 1]
  /\ UNCHANGED <<collecting, queued, cursor, run, events, history>>

Expunge(u) ==
  /\ u \in mailbox.present
  /\ mailbox' = [mailbox EXCEPT !.present = @ \ {u}]
  /\ UNCHANGED <<collecting, queued, cursor, run, events, history>>

\* The folder is created anew: another UIDVALIDITY, and UIDs from 1.
Recreate ==
  /\ mailbox.epoch < MaxEpoch
  /\ mailbox' = [epoch |-> mailbox.epoch + 1, next |-> 1, present |-> {}]
  /\ UNCHANGED <<collecting, queued, cursor, run, events, history>>

\* Enabling and disabling, pausing and resuming, naming another mailbox.
Switch ==
  /\ collecting' = ~ collecting
  /\ UNCHANGED <<mailbox, queued, cursor, run, events, history>>

\* dispatch_imap_task every five minutes, and "Collect now".
Queue ==
  /\ collecting /\ queued < MaxTasks
  /\ queued' = queued + 1
  /\ UNCHANGED <<mailbox, collecting, cursor, run, events, history>>

\* expires=240
Expire ==
  /\ queued > 0 /\ queued' = queued - 1
  /\ UNCHANGED <<mailbox, collecting, cursor, run, events, history>>
-----------------------------------------------------------------------------
(***************************************************************************)
(* A poll.                                                                 *)
(***************************************************************************)

Polling(w) == run[w].pc \in {"due", "fetching", "fetched"}
Due == ~ cursor.reset /\ cursor.wait = 0 /\ cursor.age = Interval

\* A poll goes on when the connection is enabled and not paused, its lock is
\* free (run_lock, "Connection is already running"), the mailbox has not
\* changed, and backoff and interval are over.
Polls == collecting /\ (\A w \in Workers : ~ Polling(w)) /\ Due

\* A worker takes a task and reads the checkpoint.
Take(w) ==
  /\ run[w] = Idle /\ queued > 0
  /\ queued' = queued - 1
  /\ run' = IF Polls THEN [run EXCEPT ![w] = [pc |-> "due", seen |-> cursor]] ELSE run
  /\ UNCHANGED <<mailbox, collecting, cursor, events, history>>

\* The attempt is committed before any network work.
Admit(w) ==
  /\ run[w].pc = "due"
  /\ cursor' = [run[w].seen EXCEPT !.age = 0]
  /\ run' = [run EXCEPT ![w].pc = "fetching"]
  /\ since' = 0
  /\ UNCHANGED <<mailbox, collecting, queued, events, baseline>>

\* Mistakes in the operators below: old mail is imported, a poll that found
\* nothing stays where it was, the end of the window is taken for granted.
FirstFromOne == [at |-> [epoch |-> mailbox.epoch, last |-> 0], items |-> {}, changed |-> FALSE]
LastTaken(p, taken, uids, end) == IF taken = {} THEN p.last ELSE Max(taken)
LastSeen(p, taken, uids, end) == end

\* The first collection: the current position of the mailbox.
First ==
  [at |-> [epoch |-> mailbox.epoch, last |-> mailbox.next - 1], items |-> {}, changed |-> FALSE]

\* The new position: the last message taken, or the end of the window when
\* no message is left in it.
Last(p, taken, uids, end) == IF taken = uids THEN end ELSE Max(taken)

\* The oldest messages of the window, at least one, at most a batch, and
\* fewer when the answer or what was received for it would grow too large:
\* then the messages after these are not looked at, readable or not.
Takes(uids) ==
  IF uids = {} THEN {{}}
  ELSE {t \in {{u \in uids : u <= v} : v \in uids} : Cardinality(t) <= Batch}

\* collect, from the position p.
Answers(p) ==
  LET end == Least(p.last + Window, mailbox.next - 1)
      uids == {u \in mailbox.present : p.last < u /\ u <= end}
  IN  IF p = Nowhere THEN {First}
      ELSE IF p.epoch # mailbox.epoch THEN {[at |-> p, items |-> {}, changed |-> TRUE]}
      ELSE {[at |-> [p EXCEPT !.last = Last(p, taken, uids, end)], items |-> taken, changed |-> FALSE] :
              taken \in Takes(uids)}

\* The collector process answers, unless the headers of a message exceed the
\* limits: then it refuses the whole answer.
Fetch(w) ==
  /\ run[w].pc = "fetching"
  /\ \E answer \in Answers(run[w].seen.at) :
       /\ answer.items \cap Unreadable = {}
       /\ run' = [run EXCEPT ![w] = [pc |-> "fetched", seen |-> @.seen, answer |-> answer]]
  /\ baseline' = IF run[w].seen.at = Nowhere
                 THEN [epoch |-> mailbox.epoch, last |-> mailbox.next - 1] ELSE baseline
  /\ UNCHANGED <<mailbox, collecting, queued, cursor, events, since>>

\* A connection, protocol or resource check fails: the position is kept, and
\* the backoff doubles from two minutes, one tick, after the attempt.
FetchFails(w) ==
  /\ run[w].pc = "fetching"
  /\ LET failures == Least(run[w].seen.failures + 1, MaxFailures)
         backoff == Least(2^(failures - 1), MaxBackoff)
     IN  cursor' = [run[w].seen EXCEPT !.age = cursor.age, !.failures = failures,
                                       !.wait = backoff - Least(cursor.age, backoff)]
  /\ run' = [run EXCEPT ![w] = Idle]
  /\ UNCHANGED <<mailbox, collecting, queued, events, history>>

\* Events, which are unique by UIDVALIDITY and UID, and the checkpoint are
\* committed together; a changed mailbox ends its collection for good.
Save(w) ==
  /\ run[w].pc = "fetched"
  /\ LET answer == run[w].answer
     IN  IF answer.changed
         THEN /\ cursor' = [run[w].seen EXCEPT !.age = cursor.age, !.reset = TRUE]
              /\ UNCHANGED events
         ELSE /\ cursor' = [NoCursor EXCEPT !.at = answer.at, !.age = cursor.age]
              /\ events' = events \cup {<<answer.at.epoch, u>> : u \in answer.items}
  /\ run' = [run EXCEPT ![w] = Idle]
  /\ UNCHANGED <<mailbox, collecting, queued, history>>

\* Storing an event fails, the time limit ends the task, or its worker dies:
\* what is not committed is undone and the lock is given up.
Abandon(w) ==
  /\ run[w] # Idle
  /\ run' = [run EXCEPT ![w] = Idle]
  /\ UNCHANGED <<mailbox, collecting, queued, cursor, events, history>>

\* Two minutes pass.  The time limit of a task, 75 seconds, ends a poll before
\* the next one is due.
Tick ==
  /\ \A w \in Workers : run[w].pc \in {"fetching", "fetched"} => since + 1 < Interval
  /\ cursor' = [cursor EXCEPT !.age = Least(@ + 1, Interval), !.wait = IF @ = 0 THEN 0 ELSE @ - 1]
  /\ since' = Least(since + 1, Interval)
  /\ UNCHANGED <<mailbox, collecting, queued, run, events, baseline>>
-----------------------------------------------------------------------------
Next ==
  \/ Arrive \/ Recreate \/ Switch \/ Queue \/ Expire \/ Tick
  \/ \E u \in Uids : Expunge(u)
  \/ \E w \in Workers :
       Take(w) \/ Admit(w) \/ Fetch(w) \/ FetchFails(w) \/ Save(w) \/ Abandon(w)

Spec == Init /\ [][Next]_vars

\* Time passes and beat queues tasks.  Each step of a poll comes to its end
\* now and then although tasks expire, the server fails and workers die.  No
\* fairness for the mail server nor for administrators.
Fairness ==
  /\ WF_vars(Tick) /\ WF_vars(Queue)
  /\ SF_vars(\E w \in Workers : Polls /\ Take(w))
  /\ SF_vars(\E w \in Workers : Admit(w))
  /\ SF_vars(\E w \in Workers : Fetch(w))
  /\ SF_vars(\E w \in Workers : Save(w))

FairSpec == Spec /\ Fairness
-----------------------------------------------------------------------------
(***************************************************************************)
(* Requirements.                                                           *)
(***************************************************************************)

Positions == [epoch : 0..MaxEpoch, last : 0..LastUid]
Cursors == [at : Positions, reset : BOOLEAN, age : 0..Interval, wait : 0..MaxBackoff,
            failures : 0..MaxFailures]
Runs ==
  {Idle}
    \cup [pc : {"due", "fetching"}, seen : Cursors]
    \cup [pc : {"fetched"}, seen : Cursors,
          answer : [at : Positions, items : SUBSET Uids, changed : BOOLEAN]]

\* Each variable has its type, the mailbox holds messages below UIDNEXT, and
\* one poll at most is under way.
TypeOK ==
  /\ mailbox \in [epoch : 1..MaxEpoch, next : 1..(LastUid + 1), present : SUBSET Uids]
  /\ \A u \in mailbox.present : u < mailbox.next
  /\ collecting \in BOOLEAN
  /\ queued \in 0..MaxTasks
  /\ cursor \in Cursors
  /\ run \in [Workers -> Runs]
  /\ \A v, w \in Workers : Polling(v) /\ Polling(w) => v = w
  /\ events \subseteq (1..MaxEpoch) \X Uids
  /\ since \in 0..Interval
  /\ baseline \in Positions

\* What is in the mailbox between the first position and the checkpoint is
\* stored: no failure, short answer or death of a worker skips a message.
NoMailSkipped ==
  cursor.at.epoch = mailbox.epoch =>
    \A u \in mailbox.present :
      baseline.last < u /\ u <= cursor.at.last => <<mailbox.epoch, u>> \in events

\* "Existing mail is never imported" (administrator-imap.html:3), nor is mail
\* of another UIDVALIDITY.
OnlyNewMail ==
  \A e \in events : e[1] = baseline.epoch /\ e[2] > baseline.last

\* "Manual actions and scheduled runs both respect the interval from the last
\* attempt, including failed attempts" (administrator-imap.html:8).
IntervalKept ==
  [][\A w \in Workers :
       run[w].pc = "due" /\ run'[w].pc = "fetching" => since = Interval]_vars

\* The checkpoint is never lost nor set back, whichever poll commits last.
CheckpointMovesOn ==
  [][cursor.at # Nowhere =>
       /\ cursor'.at.epoch = cursor.at.epoch
       /\ cursor'.at.last >= cursor.at.last
       /\ cursor.reset => cursor'.reset]_vars

\* A message is waiting to be collected, with no message about that stands in
\* the way of a poll.
Waiting(u) ==
  /\ collecting
  /\ u \in mailbox.present /\ u > cursor.at.last
  /\ cursor.at.epoch = mailbox.epoch
  /\ {v \in mailbox.present \cap Unreadable : v > cursor.at.last} = {}

\* It is collected in the end, although polls fail, messages before it are
\* expunged, and a poll only gets through a batch of a window.
MailIsCollected == \A u \in Uids : Waiting(u) ~> ~ Waiting(u)
=============================================================================
