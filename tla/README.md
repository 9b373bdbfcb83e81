# A formal model of KEEN

KEEN collects compliance evidence from the systems of an organisation, attaches
it to the controls of frameworks, and keeps it for auditors. This directory holds
TLA+ modules of the parts of KEEN in which several processes touch the same rows
and files, the TLC configurations that check them, and proofs that TLAPS checks.
Paths below are under `src/services/api/app/` unless they begin with `src/`.

## How the system runs

KEEN is a PostgreSQL database with four kinds of process around it:

* API workers (FastAPI) handle the requests of people, agents and webhooks. A
  request has a session, and a session a transaction.
* Celery workers run tasks: collections, rule backfills, retention, reminders.
* Celery beat posts those tasks by a timetable (`worker/celery_app.py`), most of
  them every minute, whether or not the previous one has ended.
* The object store (S3, or a directory) keeps the evidence files. It takes no
  part in transactions.

The tables, advisory locks and unique indexes of PostgreSQL, at READ COMMITTED,
are the only coordination. So an action of a module is one transaction, or one
statement of a transaction where others can come between, or one call to the
broker or the store made outside every transaction.

## Inventory

| Component | State | Operations | Talks to | Hard behaviour | What makes it correct |
|---|---|---|---|---|---|
| API ingester runs (`integrations/runtime.py`, `services/integrations.py`) | collector, revisions, runs, cursor | save, publish, roll back, pause, resume, run, reset cursor; claim, collect, finish, fail; tick | broker, upstream API, common intake | overlapping ticks, lost messages, dead workers, stale runs | one run at a time; a failure is charged once; the budget stops collection; the cursor passes nothing unstored; every run ends |
| Mapping rules and backfill (`worker/rule_backfill.py`, `ingest/common.py`) | rules document, version, jobs, mappings | evaluate at intake, save, queue, cancel, batch, recover | intake, workers | a rule saved during a job, several tasks for one job, manual mappings | jobs apply what is saved; manual mappings stay; nothing is examined twice; jobs end |
| Evidence objects and outbox (`db/session.py`, `storage/s3.py`, `services/evidence_retention.py`) | stored files, `storage_uri` of records, outbox rows | store, commit, roll back, replace, remove, clean up, retry | store, all writers | commits in doubt, lost answers, dead cleaners | kept records have their file; no file outside retention; queued files go |
| Retention and purge (`services/evidence_retention.py`, `services/retention_management.py`, `services/ingestion_pause.py`) | policy, purge job, cool-down, holds | save policy, purge, cancel, settle, batch | all transactions, by the ingestion lease | open transactions at a purge, lease queues, policy changed under a job | a purge removes what it promised; the pause holds; allowances are kept; a saved policy takes effect |
| Agent keys (`services/agent_enrollment.py`, `services/agents.py`, `agents/`) | agents, keys, codes, profiles, KEEN's identity | register, enrol, renew, rotate, revoke, reset | agents | requests repeated after a lost answer, requests that outlive a revocation or a reset | one active key, which the machine holds; a lost answer costs nothing; nothing usable after a revocation |
| Agent evidence (`services/ueu_evidence.py`, `persist_batch`) | head of the chain, stored envelopes | submit batch | intake | repeated, delayed and overlapping batches, handlers that fail half way | an envelope is stored once; "continuous" is true; the queue of the agent drains |
| Schedules and reminders (`services/schedules.py`, `services/audit_schedules.py`, `services/audits/scheduling.py`) | next run, audits, reminder markers | create, edit, delete; create due audits, remind | mail, inbox | overlapping tasks, outages, death between claim and mail, a failed send that arrived, month ends | each planned run has one audit; the plan never drifts; a second reminder only after a failed send |
| Quizzes (`services/quizzes/`) | rounds, participants, attempts, results | open, change, close, delete, assign, sit, grade | people | an answer or a grade racing the end of a round | the result is that of the responses; a recorded round stays closed |
| IMAP collection (`ingest/imap.py`, `ingest/imap_support/`) | checkpoint of each mailbox, events | queue, attempt, fetch, save | mail server, intake | UIDVALIDITY, expunged and unreadable messages, tasks that expire or die | no message is skipped; none is older than the first collection |
| Security mail (`services/security_notifications.py`) | outbox | deliver, retry | mail | attempts that end | delivered, or reported as failed |
| Source adapters (`ingest/`, `ingest/cloud/`) | cursor of each source | poll, page, store | upstream, intake | partial pages, repeats | the cursor passes nothing unstored |
| Webhooks in and out (`ingest/webhooks.py`, `outbound/`) | events, deliveries | receive, post | other systems | lost and repeated calls | an event once per delivery |
| Audits, ISMS, risks, controls (`services/audits/`, `services/isms/`, ...) | records, links, revisions | edit, link, sample | holds, objects | concurrent edits | row locks and versions; samples hold their evidence |
| Security (`security/`) | sessions, limits, factors | sign in, refuse, limit | Valkey, OIDC, LDAP | caches behind revocation | a revoked session ends |
| Interface, help, catalogues, tools (`src/services/ui`, `src/frameworks`, ...) | none that is shared | | API | | |

`PROJECT.json` lists the components file by file with what is and is not
modelled, and the hazards of the code line by line with the properties that
would catch each.

## Modules

| Module | Models | Instance |
|---|---|---|
| `CollectorRuns` (`ScheduledRuns_proofs`) | the runs of one API ingester | `MCCollectorRuns` |
| `RuleBackfill` (`_proofs`) | rules, mappings and backfill jobs of one control | `MCRuleBackfill` |
| `EvidenceStorage` (`_proofs`) | objects, records and the outbox | `MCEvidenceStorage` |
| `EvidencePurge` (`_proofs`) | policy, purge jobs, ingestion lease | `MCEvidencePurge` |
| `AgentChain` (`_proofs`) | an agent's queue, its requests and its chain in KEEN | `MCAgentChain` |
| `EvidenceLog` | what that delivery promises: `AgentChain` implements it | through `AgentChain` |
| `AgentKeys` (`_proofs`) | enrolment, renewal, revocation, reset of KEEN's identity | `MCAgentKeys` |
| `QuizRounds` (`_proofs`) | the rounds of one quiz | `MCQuizRounds` |
| `MailCollection` (`_proofs`) | the polls of one mailbox | `MCMailCollection` |
| `ScheduleDates` | run dates: the arithmetic of recurrences and date rules | through `Schedules` |
| `Schedules` (`ScheduledRuns_proofs`) | one scheduled audit and its reminders | `MCSchedules` |

Each module has the same layout: constants with their assumptions, the state,
the operations in the order of the code, the specification with its fairness,
the properties. Operators commented as mutants stand before the operation they
distort: none is used by a specification; each shows that the property named in
`PROJECT.json` fails when the code has that bug.

### CollectorRuns

`run` holds the `IntegrationRun` rows, `worker` the local state of the worker of
each run, `posting`, `refused` and `message` what has become of a run's message,
`tick` the list of stale runs an execution of `tick` read. A tick reads the list
(`TickStart`), fails each listed run in a transaction of its own (`TickFail`),
queues what is due (`TickQueue`) and posts it (`Dispatch`, `DispatchRaises`,
`PosterDies`). A worker claims a run, checks for the pause, collects, stores and
finishes. Paging and transformation are abstracted to records numbered by time,
some of them unusable.

### RuleBackfill

`rules` is the saved document, `intake` and `pending` the transactions that take
events in, `mapping` the committed mapping of each event, `request` an
administrator's request between its statements, `job` and `message` the jobs and
their tasks. A rule is the set of events it attaches to the control. One request
is under way at a time; intake is concurrent with it. A batch is three steps: it
locks its job and reads the rules (`BeginBatch`), reads its events and their
mappings, whose rows it locks (`ReadBatch`), and commits what it makes of them with
the cursor (`CommitBatch`). Between the last two a person or a batch of another job
may map an event that had no mapping; the insert then does nothing (`Reconciled`).
Events and mappings are read by two statements of the code and one step here: what
comes between them is a mapping of an event already read, which the batch then finds.
A read that waits for rows another batch has locked finds all mappings as they are
after the wait; PostgreSQL's statement, which keeps its snapshot, misses those
inserted during it, and the batch then leaves them as it does later ones. `examined`
counts how often a job has looked at an event, and `calm` whether nothing was under
way when the job was queued; both are history variables.

### EvidenceStorage

`object` is the state of each storage attempt, `uri` the file each record names,
`outbox` the row of each object (waiting for its time, or due), `writer` the
transaction of each session, `cleaner` the outbox row each worker has locked. The
client of a lost commit ends its session as after a failure (`LoseConnection`)
while PostgreSQL decides later (`Resolve`). Deleting the object and deleting its
row are two steps with a possible death between them. `forgotten` is a history
variable: the objects that no session could queue.

### EvidencePurge

`job` is the active purge job (a unique index allows one), `checked` whether an
automatic job has completed under the present policy within the hour, `cooling`
the five minutes after a manual job. A cutoff is the set of events created by
then. `Settle` is the first transaction of `database_batch`, `RunBatch` the
second, which needs every other transaction to have ended; `TimeOut` is its
five-second limit. `purged`, `drained` and `unapplied` are history variables.

### AgentChain and EvidenceLog

The agent's side (`epoch`, `next`, `queue`) is a program outside the repository
and is modelled from what the API and its help expect of it: it writes an
envelope before it sends it, sends the oldest ones until they are acknowledged,
and may discard or lose its state. `request` holds the requests on their way, the
agent's own and those it has stopped waiting for; `holder` is the lock on the
agent's row, `head` and `rows` what KEEN has committed. A handler locks (`Lock`,
`Busy`), places one envelope at a time (`PlaceEnvelope`, with the verdict of
`advance`), and commits (`Commit`) or fails (`Abort`). Whole log lines above
the agent's limit leave no row: `withheld` remembers them.

`EvidenceLog` has neither requests nor retries nor locks: envelopes wait, are
given up or are kept, a batch as a whole and each once, and nothing waits for
ever. `AgentChain` instantiates it with `pending <- queue`, `dropped <-` what was
discarded and `kept <-` what was received. `ImplementsLog` checks the step
simulation and TLAPS proves it; `QueueDrains` is the log's liveness.

### AgentKeys

`agent` and `profile` are the rows, `keys` the keys of each machine with the
credential that bound them, `device` what a machine has saved, `request` the
requests under way and `reset` the one long transaction of an identity reset. A
request is admitted on what it reads without locks (`Admit`), decides again under
its row locks (`Decide`, `Refuse`) and binds (`Commit`); it can be lost at every
point, and an answer that was lost is asked for again with the same key and
nonce. Row locks are derived from the requests that are open (`AgentHeld`,
`ProfileHeld`). Signatures, proofs and rate limits are refusals, which look like
lost requests.

### QuizRounds

A request is the locks it takes first (`Takes`) and those it has at its end
(`Awaits`). Both are functions of the request, so a deadlock is a cycle of
`WaitsFor`, and PostgreSQL's answer to it an abort. Starting an attempt has a step
more, because its query reads the participants before it waits for the round. An
attempt has one written answer, which scores 0 or 1. Making a quiz active or a draft
(`SetStatus`) needs no lock of a round, archiving one (`Archive`) those of its open
rounds. Activation may open a round for today or none: whether the quiz has a
schedule, which decides it (`open_due_round`), is not modelled.

### MailCollection

`mailbox` is what the server has: a UIDVALIDITY (`epoch`), UIDNEXT and messages.
`cursor` is the committed checkpoint with its age and backoff, `run` the poll of
each worker with the row it locked (`seen`) and the server's answer. A poll locks
and marks its attempt (`Admit`), fetches for up to 55 seconds outside the row lock
(`Fetch`, `FetchFails`), and stores events and checkpoint in one transaction
(`Save`). A checkpoint is named by server, account and folder: an edit that names
another mailbox is `Switch`. `since` is the time that passed between attempts.

### ScheduleDates and Schedules

`ScheduleDates` is the arithmetic of `services/schedules.py`: adding months with
their short ends, moving a date to a first weekday or to the first Monday to Friday
of a month, the next run after a date, the stepping over runs that were missed. It
stands on the Gregorian calendar, which the code has from Python's `date`; dates
have no end here (Python's end with the year 9999). `Entries` is what the schema
lets people enter. `Planned` is what a schedule promises, said without stepping:
which days its runs fall on. A rule that names a weekday makes a yearly schedule
name its month too; when an edit makes a monthly schedule yearly, its next run
stays where it was and those after it are in the named month.

`Schedules` keeps one schedule, the audits made for it and their reminders
while tasks overlap (`ReadDue` and `Materialise` are two statements), people edit
and delete it, workers are down, and mailers die between claim and mail. `plan` is a
history variable, what people were promised when they last entered dates or a
recurrence: an edit of other fields renews nothing, so that `KeepsThePlan` and
`NoRunIsMissed` also say that such an edit leaves the runs alone. Of each audit
`sent` counts the reminders its attendee got and `failed` the sends that raised; a
send that raises may have reached the attendee (`SendFails`).

## Runs

| Run | Properties | Instance |
|---|---|---|
| `collector_safety` | `OneActiveRun`, `BudgetStopsCollection`, `RunsTheLiveRevision`, `NoGapBelowCursor` | 2 runs, 2 overlapping ticks, 2 versions, 2 records, one unusable |
| `collector_ends` | `ChargedOnce`, `RunsEnd` | 2 runs, 1 tick, a broker whose error may have delivered |
| `backfill_jobs` | `ExaminedOnce`, `ReconciledWhenCalm`, `ManualMappingsKept`, `JobsEnd` | 2 rules, one edit, 1 job, 2 workers, 2 events in batches of 1 |
| `storage_objects` | `KeptUntilRetried`, `NothingIsLeftBehind`, `QueuedObjectsGo` | 2 objects, an event and a document, 2 sessions, 2 cleaners, clean-up made due once |
| `storage_doubt` | violates `RecordsHaveTheirObject` | 1 session, 1 cleaner |
| `purge` | `PurgedIsGone`, `PauseHolds`, `AllowanceKept`, `PolicyTakesEffect`, `RequestsEnd` | 3 events, the newest a diary entry, limits 1 and 2, 1 session, 2 tasks, batches of 1, 3 requests |
| `agent_delivery` | `StoredOnce`, `ContinuousFollows`, `UndisturbedChainIsWhole`, `ImplementsLog`, `QueueDrains` | 2 epochs of 2 envelopes, one a whole line, batches of 2, 2 requests at once, 1 abandoned |
| `agent_keys` | `BoundOnce`, `RevokedForGood`, `ActiveKeyIsTheMachines`, `AnswerNotLostForGood`, `ResetEndsKeys`, `NameNotTaken` | a registered and an enrolled machine of one name, 2 requests at once, 2 bootstrap keys, 1 reset |
| `quiz_rounds` | `ResultIsCurrent`, `OnlyStartsDeadlock`, `RecordedStays`, `AnswersEndWithTheRound` | 2 people, 1 round, 2 requests at once, 3 days |
| `quiz_place` | violates `StartedHaveAPlace` | the same, 2 days |
| `mail` | `NoMailSkipped`, `OnlyNewMail`, `MailIsCollected` | 3 UIDs, the second unreadable, 2 UIDVALIDITYs, 2 workers, windows of 2 UIDs, batches of 1 |
| `schedules` | `RunsMoveForward`, `KeepsThePlan`, `NoRunIsMissed`, `RemindersBounded` | 60 days of 2026, 7 schedules, 2 tasks and 2 mailers, one edit, outage, failure and death |

`PROJECT.json` says of each run in a sentence what it shows.

### Bounds

Two of everything that competes is enough for the races here: they are between a
pair (two ticks, two replacements of a file, two requests of one agent, a batch
and an open transaction). The other bounds are chosen for the cases they let
happen:

* Three events in `purge` let an allowance of one or two be exceeded, and a batch
  of one stop half way. One session suffices: a batch waits for every session
  alike, and two that overlap for ever would leave no moment for a purge.
* Two envelopes in an epoch and batches of two give batches that overlap by one, a
  batch with a line that is withheld before and after a kept envelope, and an
  envelope of an old epoch that arrives after the first of a new one.
* One machine of each kind, with the same name, covers the contest for the name
  and both ways to enrol; two bootstrap keys and one reset cover a credential that
  became old while a request was on its way.
* One round and two people: the results of rounds are independent of each other,
  and two people make the difference between all and some. With two rounds the
  state space passes 13 million states without an end in reasonable time.
* Days 0 to 60 of 2026 hold 31 January, a February of 28 days, weekends on 1 and
  28 February, and the first Mondays; the schedules are monthly from the 1st and the
  31st, two-weekly with an end, monthly on a first Monday, quarterly on a first
  Friday, yearly on a first weekday with an end, and once; an edit replaces one by
  another, whole or in part. Edits on two days replace edits on all: one on the day
  the lead of seven days of a run begins, one between runs.
* Three UIDs with a window of two and a batch of one need two windows and two
  batches; the unreadable message is in the middle. A tick is two minutes, a task
  ends after 75 seconds, hence within the interval. A larger instance (4 UIDs,
  window 3, batch 2) passes too, in about five minutes, and is not kept as a run.
* `collector_safety` has the overlapping ticks and the records, and a broker error
  there means that nothing was delivered; `collector_ends` has the error that
  delivered after all.

`MaxVersion`, `MaxRecord`, `MaxRetries`, `MaxRequests`, `MaxAbandoned`, `KeysOf`,
`CodesOf` and the like count the edits, records and requests of the outside world;
no guard of the program depends on them. Deadlock checking is off where an
instance really stops because its identities and bounds are used up. Symmetry is
used in safety runs only. Deadlocks that the code can reach between row locks are
a property of `QuizRounds`, not TLC's.

### Fairness

Steps of the program are fair, steps of the world are not: requests, edits,
failures and deaths never are.

* `CollectorRuns`: beat starts a tick every minute; a worker proceeds or meets its
  time limit; runs age. `RunsEnd` assumes that a paused source is resumed for long
  enough.
* `RuleBackfill`: beat recovers jobs for ever, and of the tasks and batches of one
  job not all are killed: fairness is on "some worker does this for job j".
* `EvidenceStorage`: sessions end, PostgreSQL resolves a commit in doubt, cleaners
  take rows in turn, and the store does not refuse for ever.
* `EvidencePurge`: sessions that wait for the lease are served before the next
  batch because PostgreSQL queues lock requests, and a task sometimes starts when
  no transaction is open. An installation with a transaction always open for
  longer than five seconds would never purge; the code reports that as the job's
  last error. `PolicyTakesEffect` does *not* assume that the hour between checks
  passes.
* `AgentChain`: the agent sends again for ever, and the steps of a request each
  succeed now and then (strong fairness, because the request can be lost before
  each). The agent stops waiting finitely often (`MaxAbandoned`): a client whose
  timeout is always too short for the handler would never be acknowledged.
* `MailCollection`: time passes and beat queues tasks (weak); a task reaches a
  worker, and each step of a poll succeeds, now and then (strong). Nothing is
  assumed of the mail server beyond that.
* `AgentKeys`, `QuizRounds` and `Schedules` have safety properties only. Whether
  people answer, grade and edit is up to them, and `NoRunIsMissed` is stated about
  days on which the daily task ran.

## Divergences

Two are findings with a run of their own.

* `storage_doubt`: a comment in `db/session.py` says that objects of unfinished
  transactions wait an hour because their commit may still become visible. Making
  clean-up due (`retry_storage`) ends the wait for them too, and the record can
  appear after its object has been deleted.
* `quiz_place`: `services/quizzes/audience.py` says that nobody who has started a
  round is taken out of it. A start that waits for the round's lock while the
  audience changes joined the participants of its own snapshot; PostgreSQL reads
  the round again but not the join, as the round's row has not changed. The attempt
  is started for somebody who is no longer a participant and cannot open it.

Others were met while modelling. The models contain those that concern their
state, and the properties say by their premises where they stop:

* The help says one collection at a time. A tick can fail a queued run that a
  worker claimed after the tick listed it as stale, and queue another, while the
  first worker goes on. `OneActiveRun` is about rows.
* Starting a backfill reads the rule and its version by two statements; an edit
  between them gives the job the old document under the new version. An event
  evaluated before a save and committed after the backfill passed it gets neither
  treatment. Both are outside `ReconciledWhenCalm`.
* A withheld whole line at the start of a chain leaves no row: its retry is taken
  for a restart and the envelope after it is marked as a gap although everything
  arrived. `UndisturbedChainIsWhole` excludes withheld lines.
* An identity reset revokes the agents it found when it locked; one registered
  while it runs keeps its code, which pins the old identity. `ResetEndsKeys` is
  about the former.
* A new code makes an expired agent active again without the lock on its name
  (`services/agents.py:201`), which a profile's machine may have taken since.
  `NameNotTaken` is about agents that wait with their first code.
* `revise_schedule` says that an edit moves the next run "even after earlier
  runs"; the guard against dates that already have an audit comes first.
  `NoRunIsMissed` promises only dates after the last audit.
* `deliver_once` is to "send each recipient row's email once"
  (`services/schedules.py:623`). Any error of the send releases the claim (lines
  653 to 663), also one that comes after the mail server took the message: a
  timeout of its answer, or an error at the end of the connection
  (`services/mailer.py:107`). The next task sends that reminder again.
  `RemindersBounded` allows one more reminder for each send that failed.
* A quiz round whose due date moves while its reminder is out has its marker reset,
  and the first task's release frees another task's claim by row id
  (`services/schedules.py:660`): that reminder can go out twice. An exception while
  one schedule's audit is created ends the task for the schedules after it
  (`services/schedules.py:581`). Neither is modelled: the model has one schedule,
  with audits.
* `worker/tasks.py:593` reads a status and writes "failed" in a later statement,
  over a cancellation that came between. The job has ended either way.
* The removal of a connection locks the collector and then its runs
  (`services/managed_configurations.py:2158`), and a failing run locks them the
  other way round: PostgreSQL ends one of the two with an error.
* An object whose answer the store lost, or whose transaction failed when the
  database was unavailable, is unknown to the outbox for good; the code logs it.
  `NothingIsLeftBehind` excepts exactly these (`forgotten`).
* An unreadable message fails the messages of its batch at every poll until
  somebody removes it, as the help says. `MailIsCollected` says what waits for it.

## Proofs

TLAPS checks these for every value of the constants, from the named assumptions
of the modules only. Each proof has an inductive invariant, with one lemma
for each action, and from it the properties. Types are part of it (`TypeCorrect`, or
`ScheduleInv` for the audits), so `TypeOK` is not among the runs' properties.

`ScheduledRuns_proofs` is about what the worker runs when it falls due:
`CollectorRuns` and, after it, `Schedules`, whose names are apart for that.

For the runs of an ingester, neither the budget nor the failure count's type is
inductive alone: failures stay within `FailureLimit` because the run that fails is
the one active run and an active collecting run implies that budget is left.
`BudgetInv` is the three together, from which `OneActiveRunAlways` and
`BudgetAlwaysStopsCollection` follow. `ChargedOnceAlways` needs that a charged run is
finished and stays so (`ChargeInv`), `NoGapAlways` what a worker has stored between
the cursor it started from and its watermark (`CursorInv`), and
`RunsTheLiveRevisionAlways` that the live revision changes only while no run is
active.

`RuleBackfill_proofs`. `ExaminedOnce` needs that one worker at a time has a batch
of a job, that nothing beyond a job's cursor has been examined by it, and that the
events a worker has read begin there. The end of a batch is the greatest of a finite
set of events; `HasGreatest` gets it from the well-foundedness of the naturals.
`ManualMappingsStay` needs that events that are not stored have no mapping
(`Unmapped`), and that the mappings a batch has read are locked by it alone and
stay as they were read (`ReadsInv`): what it changes is its own rule's.
`CalmBackfillsReconcile` is what a backfill is for: a job queued with nothing
under way leaves every event it covers as the saved rules have it. `CalmInv` says
that a batch has read the rules of its version (`Dates`), that such a job's events
are stored and no batch of an older version is left to undo its work
(`Undisturbed`), that everything up to its cursor is as its rule would have it
(`Progressed`), that its batch has read all that the query should find (`Whole`), and
that a mapping its rule is given after that read, by a batch of another job, is one
the rule makes (`Unseen`). The lemmas `FirstIsPrefix` and `FirstAreAll` say of the ordered,
limited query that it leaves nothing behind its last event, and nothing at all
when it returns less than its limit: the test by which the code ends a job.

`EvidenceStorage_proofs`. `Inv` is the types and the locked rows (`TypeOK`), what
a session knows of the record it has locked (`SessionsKnow`: the file it will
queue is the one the record names), that open transactions write different
records (`LocksApart`), that a row goes after its object (`RowsAfterObjects`) and
that an object in doubt has been queued or forgotten (`DoubtfulAreQueued`).
`NothingIsLeftBehind` needs all of them: a commit queues the file it replaces,
and that is the right file only because of the lock. `RecordsKeepTheirObject` has
the premise `MaxRetries = 0`, which is exactly what `storage_doubt` violates, and
adds `Grace`: an object that may yet be published is stored, is not due, and is
nobody else's; a cleaner holds a due row whose object no record names.

`EvidencePurge_proofs`. `PurgedIsGone` and `PauseHolds` rest on the lease: once a
purge is drained, ingestion is paused and no session is between its lease and its
commit, so what a batch deletes cannot be joined by what was in flight.
`AllowanceIsKept` is about counting: the newest `keep` candidates are never in a
batch (`NewestStay`), so as many newer events stay when the batch deletes many at
once. `LastIsSuffix` and `LastAreAll` are the facts about the ordered, limited
query that it needs.

`AgentChain_proofs`. The lock on the agent's row makes the open request's copy of
the head the head itself, and its rows disjoint from those that are stored.
`EvidenceIsNotLost`, `EvidenceIsStoredOnce`, `NoHoleInContinuousEvidence` and
`ReplaysChangeNothing` follow, and `DeliveryImplementsLog` shows that each step is
a step of `EvidenceLog` or a stutter. The log's liveness is TLC's (`QueueDrains`).
`UndisturbedChainsAreWhole` says that "continuous" is also complete: the chain of an
agent that gives nothing up is "started" and then "continuous" to its head. Its
invariant `ChainInv` needs that what is stored is exactly the envelopes up to the
head (`WholeStored`), that the open request's copy is so too (`WholeOpen`), and of
every request, however old, that the envelopes before those in its batch are in the
batch or stored already (`WholeBatch`).

`MailCollection_proofs`. A poll computes from the row it read before a fetch of up
to 55 seconds. The invariant says that this row is still as it was (one poll of a
connection at a time, by the attempt's mark and its interval), that an answer
leaves out no message between two positions, and that no position is ahead of the
mailbox. `NoMailIsSkipped`, `OnlyNewMailIsStored`, `IntervalIsKept` and
`CheckpointOnlyMovesOn` follow.

`AgentKeys_proofs`. `KeysInv` says that an agent's row is locked by one request or
by the reset (`OneLock`), that what a request found under its locks is so until it
commits (`Decided`), that each agent has each key and credential once and one
active key, and that a profile's count is that of its machines. A reset locks the
agents in one statement, finds their keys in the next and shows the change when it
commits: `ResetCovers` says that it has found every key that may still be used. A code
that can be used holds its name (`CodesHoldNames`), from which follows that no
other machine takes it. `EachIsBoundOnce`, `RevocationIsForGood`, `ResetsEndKeys`
and `NamesAreNotTaken` follow. A second invariant, `AttemptsInv`, relates what
KEEN has bound to what the machine has saved. A request stays on its way after its
machine has given it up; one that may still have a key bound asks for the key the
machine has saved now, or the machine waits with a code that was not used
(`Heeded`). A key stands for one attempt in every copy of it (`OneAttempt`), so that
a repeated request is given the first answer; and once the saved key is bound no
other is active (`SavedIsActive`). `ActiveKeysAreHeld` and
`LostAnswersAreGivenAgain` follow.

`QuizRounds_proofs`. `Current` says of every round that its result is that of its
attempts, and is not inductive: a start, a sitting or a grade that checked the
round before it was closed would break it. `Held` says that what a request found
under its first locks is so when it has the others (a round that is being started
is open, an attempt that is being sat is in progress), and `OneHolder` that nobody
else has those locks to change the row. Whoever changes a round has it from no
start (`Locked`), by the conflicts of `Takes` and `Awaits`. The same facts give
`AnswersEnd` and `RecordedStaysClosed`; `OnlyStartsWait` needs `OneHolder` and that
nobody waits for an attempt (`WaitedFor`). `People` is assumed finite, so that
their responses can be counted.

`ScheduledRuns_proofs`, the audits of a schedule. `RunsMoveForward` does
not depend on the arithmetic of run dates: `LastIsLatest` says that the
schedule's row remembers a date not before any of its audits, which an edit of the
next run leaves alone and the task reads again under its lock (`AuditsMoveForward`).
For `RemindersAreBounded`, `Held` says that a reminder that is under way is claimed,
in the hands of one task, and owed: its attendee has had no more reminders than failed
sends. So is one that nobody has claimed. The rows that are claimed, of which nothing
was sent and which are in nobody's hands are no more than the tasks that died
(`DeathsCounted`).
`WeekendsMoveToWorkdays` and `RunsDoNotDrift` are about the arithmetic itself: a
weekend moves at most two days, back only within its month, and the next run of a
monthly, quarterly or yearly schedule does not depend on the day the last one had
been moved to.

`SchedulesKeepThePlan` and `NoPlannedRunIsMissed` say that the code, which knows one
date and steps from it, has the runs that `Planned` describes, for any schedules
people enter and any edits of them. They are proved from the calendar up:

* Months have 28 to 31 days, and each day lies in one month (`MonthOf`), for every
  year. Such facts are inductions over the months; as the library's induction
  theorems cannot be instantiated, they are done by hand, with a least
  counterexample. A month has one day that a schedule keeps.
* `StepsFollowThePlan`: from a planned run, `next_occurrence` comes to a planned run,
  and no planned run lies between them. `MissedRunsAreSkipped`: stepping until a
  given day finds the first planned run on or after it, if the steps suffice. The
  table of `FirstRun` is a recursive function, so its existence is proved too.
* `PlanInv` is inductive for the plan: the types of the schedule's dates and
  `KeepsThePlan`, that the next run is a planned one of the schedule as it is now
  and of the run it was planned from.
* `RunsInv` adds for the second that after a day's daily task nothing is due on that
  day or before (`OnTime`), and that the planned dates since the last edit and before
  the next run have their audits (`AuditsMade`).

`NoPlannedRunIsMissed` has the hypothesis `LastDay < 7 * MaxSteps`: the code gives up
after `max_steps` (1000) steps and disables the schedule. A step is at least a week,
so this takes a first run entered, or a worker down for, more than nineteen years;
such a schedule does stop.

Only model-checked is liveness: `RunsEnd`, `JobsEnd`, `QueuedObjectsGo`,
`PolicyTakesEffect`, `RequestsEnd`, `QueueDrains` and `MailIsCollected`. TLAPS does
not reason about fairness with ENABLED. The other properties of the passing runs are
each stated by a theorem.

## What is not modelled

* Contents: which conditions a rule has and which of several rules is more
  confident, how an upstream record is paged and transformed, object versions
  and buckets, redaction, MIME parts, signatures and proofs, wording.
* Retention by age and the overrides for sources and rules: they change which
  events a batch names, not how it runs. Lineage references between events.
* PostgreSQL itself: its locks, unique indexes and commit are assumed to work.
  Deadlocks between row locks end in an error and a rollback, which is an action
  everywhere.
* Record keeping (`audits`, `isms`, `risks`, `controls`, `questions`, pages): single
  transactions under a row lock, most of it validation and queries. A state model
  of one would repeat the code's assignments. Together with data, migrations and
  scripts they are most of the lines of the repository.
* Editing and removing connections, and the previews.
* The components marked `not_modelled` in `PROJECT.json`, with the reason there.

## Plan

In this order; what is above is done.

1. `SecurityOutbox`: mail with bounded attempts, and an abstract outbox that this
   and `EvidenceStorage` implement.
2. `SourceCursor`: the cursor of the polling adapters as a refinement of an
   abstract collector, which `CollectorRuns` and `MailCollection` implement too.
3. `RetentionRanking`: overrides as operators checked against the rules in the
   help; `Intake`, which composes the lease, the store and rule evaluation of one
   event, and shows that an event is visible with its object and its mappings or
   not at all.
4. `Sessions`: sign-in sessions with their cache behind revocation, and the rate
   limiter.
