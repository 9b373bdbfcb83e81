------------------------------- MODULE Schedules -------------------------------
(***************************************************************************)
(* A scheduled audit and its reminders (app/services/schedules.py,         *)
(* audit_schedules.py and audits/scheduling.py).  Daily tasks create the   *)
(* audits that are due and remind the one attendee each has; the schedule  *)
(* is edited and deleted meanwhile.                                        *)
(*                                                                         *)
(* The task that creates audits reads which schedules are due and then     *)
(* reads each again under its row lock, so two of them overlap there; a    *)
(* commit is one step.  A reminder is claimed, sent and released in        *)
(* transactions of their own; a send that fails may have reached the       *)
(* attendee.  A task ends, or dies, on the day it started.                 *)
(***************************************************************************)
EXTENDS ScheduleDates, Sequences, FiniteSets

CONSTANTS
  Tasks,        \* overlapping tasks that create audits
  Mailers,      \* overlapping tasks that send reminders
  Payloads,     \* the schedules people enter
  Changes,      \* the sets of fields an edit changes
  EditDays,     \* bound on when people edit
  DaysAhead,    \* scheduled_audit_create_days_ahead
  ReminderDays, \* reminder_days_before
  MaxSteps,     \* max_steps of advance_past_missed_runs
  LastDay,      \* bound on the days that pass
  MaxEdits, MaxOutages, MaxFailures, MaxDeaths  \* bounds on what goes wrong

ASSUME SettingsAssumption ==
  /\ DaysAhead \in Nat /\ ReminderDays \in Nat \ {0} /\ MaxSteps \in Nat
  /\ EditDays \subseteq Days /\ LastDay \in Days /\ Payloads \subseteq Entries

VARIABLES
  today,
  schedule,  \* the row of the template, NoRow when it is deleted
  audits,    \* the audits created, with the claim of their attendee's reminder,
             \* the reminders the attendee got and the sends that failed
  task,      \* the tasks that create audits
  mailer,    \* the tasks that send reminders
  daily,     \* whether the worker is up and has run its daily task today
  plan,      \* what was promised when the dates were last entered
  count      \* edits, outages, failed sends and dead mailers so far

scheduleVars == <<today, schedule, audits, task, mailer, daily, plan, count>>

NoRow == [deleted |-> TRUE]
Exists == schedule # NoRow
Idle == [pc |-> "idle"]
Quiet == /\ \A t \in Tasks : task[t] = Idle
         /\ \A w \in Mailers : mailer[w] = Idle
Later(d, e) == IF d = NoDate \/ d < e THEN e ELSE d

\* The fields of a schedule as apply_schedule_fields stores them.
Stored(start, p, next, last) ==
  [start |-> start, recurrence |-> p.recurrence, interval |-> p.interval, rule |-> p.rule,
   anchor |-> IF p.rule = "exact" THEN NoDate ELSE p.anchor, until |-> p.until,
   next |-> next, last |-> last]

Accepted(p, next) == ~Before(p.until, next) /\ ~(p.rule # "exact" /\ p.recurrence = "weekly")

Created(p) ==
  LET start == ScheduleStartForRule(p.start, p.rule, p.anchor)
  IN  Stored(start, p, start, NoDate)

ScheduleInit ==
  /\ today = 0
  /\ schedule \in {Created(p) : p \in {q \in Payloads : Accepted(q, Created(q).start)}}
  /\ audits = <<>>
  /\ task = [t \in Tasks |-> Idle]
  /\ mailer = [w \in Mailers |-> Idle]
  /\ daily = [up |-> TRUE, done |-> FALSE, missed |-> FALSE]
  /\ plan = [since |-> 0, base |-> schedule.start]
  /\ count = [edits |-> 0, outages |-> 0, failures |-> 0, deaths |-> 0]
-----------------------------------------------------------------------------
(* People. *)

\* The payload of an edit over the fields it leaves alone.
Merged(p, fields) ==
  [recurrence |-> IF "recurrence" \in fields THEN p.recurrence ELSE schedule.recurrence,
   interval |-> IF "recurrence" \in fields THEN p.interval ELSE schedule.interval,
   rule |-> IF "rule" \in fields THEN p.rule ELSE schedule.rule,
   anchor |-> IF "rule" \in fields THEN p.anchor ELSE schedule.anchor,
   until |-> IF "until" \in fields THEN p.until ELSE schedule.until]

\* Where an edit leaves the next run.
RevisedNext(fields, start) ==
  IF fields \cap {"start", "rule"} # {} \/ schedule.next = NoDate THEN start ELSE schedule.next

\* What an edit promises: new dates from the date entered, another recurrence
\* from the run that is next, and other fields nothing new.
NewDates(fields) == fields \cap {"start", "rule"} # {} \/ schedule.next = NoDate
NewPlan(fields) == NewDates(fields) \/ "recurrence" \in fields
Promised(fields, start) ==
  IF NewPlan(fields)
  THEN [since |-> Later(schedule.last, today) + 1,
        base |-> IF NewDates(fields) THEN start ELSE schedule.next]
  ELSE plan

\* update_scheduled_audit, under the row lock.
Edit(p, fields) ==
  LET merged == Merged(p, fields)
      start == ScheduleStartForRule(IF "start" \in fields THEN p.start ELSE schedule.start,
                                    merged.rule, merged.anchor)
      next == RevisedNext(fields, start)
  IN  /\ Exists /\ today \in EditDays /\ count.edits < MaxEdits
      /\ Accepted(merged, next)
      /\ schedule' = Stored(start, merged, next, schedule.last)
      /\ plan' = Promised(fields, start)
      /\ daily' = IF NewPlan(fields) THEN [daily EXCEPT !.missed = FALSE] ELSE daily
      /\ count' = [count EXCEPT !.edits = @ + 1]
      /\ UNCHANGED <<today, audits, task, mailer>>

Delete ==
  /\ Exists /\ today \in EditDays /\ count.edits < MaxEdits
  /\ schedule' = NoRow
  /\ count' = [count EXCEPT !.edits = @ + 1]
  /\ UNCHANGED <<today, audits, task, mailer, daily, plan>>
-----------------------------------------------------------------------------
(* The task that creates audits. *)

Latest == today + DaysAhead
\* A run date that is set, in the window.
InWindow(run) == run \in Int /\ run <= Latest
Due == Exists /\ InWindow(schedule.next)

\* materialise_due reads which schedules are due.
ReadDue(t) ==
  /\ daily.up /\ task[t] = Idle
  /\ IF Due THEN task' = [task EXCEPT ![t] = [pc |-> "due"]] /\ UNCHANGED daily
     ELSE daily' = [daily EXCEPT !.done = TRUE] /\ UNCHANGED task
  /\ UNCHANGED <<today, schedule, audits, mailer, plan, count>>

\* The run materialise_one turns to: the next one, or the first after those missed.
RunDate ==
  IF schedule.next < today THEN AfterMissedRuns(schedule, today, MaxSteps) ELSE schedule.next

NeverRun(run) == FALSE
AlreadyRun(run) == schedule.last # NoDate /\ schedule.last >= run

\* materialise_one, on the row read again under its lock, and the commit.
Materialise(t) ==
  /\ task[t].pc = "due"
  /\ task' = [task EXCEPT ![t] = Idle]
  /\ daily' = [daily EXCEPT !.done = TRUE]
  /\ \/ /\ ~Due
        /\ UNCHANGED <<schedule, audits>>
     \/ /\ Due /\ ~InWindow(RunDate)
        /\ schedule' = [schedule EXCEPT !.next = RunDate]
        /\ UNCHANGED audits
     \/ /\ Due /\ InWindow(RunDate) /\ AlreadyRun(RunDate)
        /\ schedule' = [schedule EXCEPT !.next = NextOccurrence(schedule, RunDate)]
        /\ UNCHANGED audits
     \/ /\ Due /\ InWindow(RunDate) /\ ~AlreadyRun(RunDate)
        /\ schedule' = [schedule EXCEPT !.last = RunDate,
                                        !.next = NextOccurrence(schedule, RunDate)]
        /\ audits' = Append(audits, [date |-> RunDate, claimed |-> FALSE, sent |-> 0, failed |-> 0])
  /\ UNCHANGED <<today, mailer, plan, count>>

\* A task dies before its commit; the rollback leaves nothing.
TaskDies(t) ==
  /\ task[t].pc = "due"
  /\ task' = [task EXCEPT ![t] = Idle]
  /\ UNCHANGED <<today, schedule, audits, mailer, daily, plan, count>>
-----------------------------------------------------------------------------
(* The task that sends reminders. *)

\* send_audit_reminders reads whose reminders are due.
ReadRows(w) ==
  LET rows == {i \in DOMAIN audits :
                 ~audits[i].claimed /\ audits[i].date \in today..today + ReminderDays}
  IN  /\ daily.up /\ mailer[w] = Idle /\ rows # {}
      /\ mailer' = [mailer EXCEPT ![w] = [pc |-> "rows", rows |-> rows]]
      /\ UNCHANGED <<today, schedule, audits, task, daily, plan, count>>

NextRow(w) == Min(mailer[w].rows)
\* The row is done; the task goes on to the next.
Go(w, pc, rows) ==
  mailer' = [mailer EXCEPT ![w] = IF rows = {} THEN Idle ELSE [pc |-> pc, rows |-> rows]]

Claimable(i) == ~audits[i].claimed
TakenAtOnce(w) == mailer[w].rows
Taken(w) == {NextRow(w)}

\* The claim of deliver_once: only one task updates the marker.
ClaimReminder(w) ==
  /\ mailer[w].pc = "rows"
  /\ \/ /\ Claimable(NextRow(w))
        /\ audits' = [i \in DOMAIN audits |->
                        IF i \in Taken(w) THEN [audits[i] EXCEPT !.claimed = TRUE] ELSE audits[i]]
        /\ Go(w, "mail", mailer[w].rows)
     \/ /\ ~Claimable(NextRow(w))
        /\ Go(w, "rows", mailer[w].rows \ {NextRow(w)})
        /\ UNCHANGED audits
  /\ UNCHANGED <<today, schedule, task, daily, plan, count>>

Send(w) ==
  /\ mailer[w].pc = "mail"
  /\ audits' = [audits EXCEPT ![NextRow(w)].sent = @ + 1]
  /\ Go(w, "rows", mailer[w].rows \ {NextRow(w)})
  /\ UNCHANGED <<today, schedule, task, daily, plan, count>>

(* A row whose send failed, and whether the mail server has taken the mail. *)
Tried(row, taken) == [row EXCEPT !.sent = @ + taken, !.failed = @ + 1]

\* No address, or the mail call raises.  The mail server may have taken the
\* message all the same, when its answer, or that to QUIT, is late or lost.
SendFails(w) ==
  /\ mailer[w].pc = "mail" /\ count.failures < MaxFailures
  /\ \E taken \in {0, 1} :
       audits' = [audits EXCEPT ![NextRow(w)] = Tried(@, taken)]
  /\ Go(w, "release", mailer[w].rows)
  /\ count' = [count EXCEPT !.failures = @ + 1]
  /\ UNCHANGED <<today, schedule, task, daily, plan>>

Release(w) ==
  /\ mailer[w].pc = "release"
  /\ audits' = [audits EXCEPT ![NextRow(w)].claimed = FALSE]
  /\ Go(w, "rows", mailer[w].rows \ {NextRow(w)})
  /\ UNCHANGED <<today, schedule, task, daily, plan, count>>

MailerDies(w) ==
  /\ mailer[w] # Idle /\ count.deaths < MaxDeaths
  /\ mailer' = [mailer EXCEPT ![w] = Idle]
  /\ count' = [count EXCEPT !.deaths = @ + 1]
  /\ UNCHANGED <<today, schedule, audits, task, daily, plan>>
-----------------------------------------------------------------------------
(* The calendar and the worker. *)

NextDay ==
  /\ Quiet /\ today < LastDay
  /\ daily.up => daily.done
  /\ today' = today + 1
  /\ daily' = [daily EXCEPT !.done = FALSE,
                            !.missed = @ \/ (~daily.done /\ today >= plan.since)]
  /\ UNCHANGED <<schedule, audits, task, mailer, plan, count>>

WorkerStops ==
  /\ Quiet /\ daily.up /\ count.outages < MaxOutages
  /\ daily' = [daily EXCEPT !.up = FALSE]
  /\ count' = [count EXCEPT !.outages = @ + 1]
  /\ UNCHANGED <<today, schedule, audits, task, mailer, plan>>

WorkerStarts ==
  /\ ~daily.up
  /\ daily' = [daily EXCEPT !.up = TRUE]
  /\ UNCHANGED <<today, schedule, audits, task, mailer, plan, count>>

ScheduleNext ==
  \/ \E p \in Payloads, fields \in Changes : Edit(p, fields)
  \/ Delete
  \/ \E t \in Tasks : ReadDue(t) \/ Materialise(t) \/ TaskDies(t)
  \/ \E w \in Mailers :
       ReadRows(w) \/ ClaimReminder(w) \/ Send(w) \/ SendFails(w) \/ Release(w) \/ MailerDies(w)
  \/ NextDay \/ WorkerStops \/ WorkerStarts

ScheduleSpec == ScheduleInit /\ [][ScheduleNext]_scheduleVars
-----------------------------------------------------------------------------
(***************************************************************************)
(* Properties.                                                             *)
(***************************************************************************)

\* However tasks overlap and edits move the next run back, each audit is for a
\* later date than all before it: no run date has two audits.
RunsMoveForward ==
  \A i, k \in DOMAIN audits : i < k => audits[i].date < audits[k].date

\* Skipped runs, weekends, short months and edits of other fields do not move
\* a schedule: its next run is always one of those planned when its dates were
\* last entered, and an edit of the recurrence goes on from the run that was
\* next.
KeepsThePlan ==
  Exists /\ schedule.next # NoDate => Planned(schedule, plan.base, schedule.next)

\* While the daily task runs every day, every run planned has its audit.
NoRunIsMissed ==
  Exists /\ ~daily.missed =>
    \A d \in plan.since..today - 1 :
      d >= plan.base /\ Planned(schedule, plan.base, d) =>
        \E i \in DOMAIN audits : audits[i].date = d

\* However the tasks that send reminders overlap, an attendee gets another
\* reminder of an audit only for a send that failed, and goes without only by
\* a task that died: a row that is claimed and of which nothing was sent is in
\* the hands of a task, but for one row for each task that died.
RemindersBounded ==
  /\ \A i \in DOMAIN audits : audits[i].sent <= 1 + audits[i].failed
  /\ Cardinality({i \in DOMAIN audits :
       /\ audits[i].claimed /\ audits[i].sent = 0
       /\ ~\E w \in Mailers : mailer[w].pc \in {"mail", "release"} /\ NextRow(w) = i})
       <= count.deaths
=============================================================================
