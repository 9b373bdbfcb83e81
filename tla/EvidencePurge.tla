---------------------------- MODULE EvidencePurge ----------------------------
(***************************************************************************)
(* Retention of collected events: the policy, the one purge job that may   *)
(* be active, and the batches in which a worker deletes events             *)
(* (app/services/evidence_retention.py), while sessions take events in.    *)
(*                                                                         *)
(* Every database transaction shares the ingestion lease and a batch takes *)
(* it exclusively (app/db/session.py).  PostgreSQL queues new requests for *)
(* the lease behind a batch that waits.  Requests of administrators and    *)
(* the first transaction of a batch are short transactions under one       *)
(* advisory lock, hence single actions; so is a batch, which is alone.     *)
(*                                                                         *)
(* An event is a row, numbered by the time of the evidence: greater is     *)
(* newer, in whatever order rows arrive.  A cutoff is the set of events    *)
(* created by then.  The policy modelled is a number of newest events to   *)
(* keep; an age differs only in which events candidates() names, and the   *)
(* overrides for sources and rules are not modelled.                       *)
(***************************************************************************)
EXTENDS Integers, FiniteSets

CONSTANTS
  LastEvent,   \* events are 1..LastEvent
  Diary,       \* the events that are diary entries
  Limits,      \* the limits administrators save
  Sessions,    \* database sessions of requests and collectors
  Runners,     \* Celery workers running evidence_retention_task
  BatchSize,   \* events per batch; 200 in the code
  Disabled,    \* the policy that keeps everything
  MaxRequests  \* bound on the requests of administrators

Events == 1..LastEvent

ASSUME LastEventAssumption == LastEvent \in Nat
ASSUME DiaryAssumption == Diary \subseteq Events
ASSUME LimitsAssumption == Limits \subseteq Nat /\ Disabled \notin Nat
ASSUME BatchSizeAssumption == BatchSize \in Nat \ {0}
ASSUME MaxRequestsAssumption == MaxRequests \in Nat

VARIABLES
  policy,    \* the saved policy: a limit, or Disabled
  job,       \* the queued or running row of evidence_purge_jobs
  checked,   \* an automatic job completed under this policy in the last hour
  cooling,   \* a manual job ended in the last five minutes
  created,   \* events whose created_at has been taken
  stored,    \* committed events
  held,      \* events an audit holds
  session,   \* the transaction each session has open
  runner,    \* what each runner is doing
  requests,  \* requests of administrators so far
  purged,    \* history: events that a completed purge of all promised to remove
  drained,   \* history: a batch ran since ingestion was paused
  unapplied  \* history: no automatic job has completed for the saved limit

stores == <<created, stored, held, session>>
history == <<purged, drained, unapplied>>
vars == <<policy, job, checked, cooling, stores, runner, requests, history>>

NoJob == [status |-> "none"]
ActiveJob == job.status # "none"
Manual(j) == j.status # "none" /\ ~ j.automatic

Idle == [pc |-> "idle", event |-> 0]
Quiet == \A s \in Sessions : session[s] = Idle
BatchWaits == \E k \in Runners : runner[k] = "waiting"

\* purge_pause_status
Paused == Manual(job) \/ cooling

Init ==
  /\ policy = Disabled /\ job = NoJob /\ checked = FALSE /\ cooling = FALSE
  /\ created = {} /\ stored = {} /\ held = {}
  /\ session = [s \in Sessions |-> Idle]
  /\ runner = [k \in Runners |-> "idle"]
  /\ requests = 0
  /\ purged = {} /\ drained = FALSE /\ unapplied = FALSE
-----------------------------------------------------------------------------
(***************************************************************************)
(* What a job may delete.                                                  *)
(***************************************************************************)

\* Mistakes in the operators below, which the properties must tell apart.
NewestOfAll(n, j) ==
  {e \in stored \cap j.covers : Cardinality({f \in stored \cap j.covers : f > e}) < n}

\* The newest n events of the cutoff that no audit holds: held events are
\* additional to the allowance, diary entries are part of it.
Newest(n, j) ==
  LET free == (stored \cap j.covers) \ held
  IN  {e \in free : Cardinality({f \in free : f > e}) < n}

\* candidates(): UNPROTECTED events created by the cutoff and, for a limit,
\* beyond the newest.
Candidates(j) ==
  LET free == (stored \cap j.covers) \ (held \cup Diary)
  IN  IF j.mode = "all" THEN free ELSE free \ Newest(j.keep, j)

\* ORDER BY timestamp, id LIMIT batch
Batch(j) ==
  {e \in Candidates(j) : Cardinality({f \in Candidates(j) : f < e}) < BatchSize}

\* enqueue(): the cutoff is now.
NewJob(mode, keep, automatic) ==
  [status |-> "queued", mode |-> mode, keep |-> keep, automatic |-> automatic, covers |-> created]

\* _active_job: the active job, or the automatic one that is due, or none.
CurrentJob ==
  IF ActiveJob THEN job
  ELSE IF policy = Disabled \/ checked THEN NoJob
  ELSE NewJob("limit", policy, TRUE)
-----------------------------------------------------------------------------
(***************************************************************************)
(* Sessions.                                                               *)
(***************************************************************************)

\* _coordinate_evidence_purge: a transaction begins under the shared lease.
Begin(s) ==
  /\ session[s] = Idle /\ ~ BatchWaits
  /\ session' = [session EXCEPT ![s].pc = "open"]
  /\ UNCHANGED <<policy, job, checked, cooling, created, stored, held, runner, requests, history>>

\* A second session opened inside a transaction (get_source_meta reads the
\* documents in one of its own) asks for the lease as well ...
Nest(s) ==
  /\ session[s].pc = "open"
  /\ session' = [session EXCEPT ![s].pc = "nesting"]
  /\ UNCHANGED <<policy, job, checked, cooling, created, stored, held, runner, requests, history>>

\* ... and is granted it, reads and is closed.
Nested(s) ==
  /\ session[s].pc = "nesting" /\ ~ BatchWaits
  /\ session' = [session EXCEPT ![s].pc = "open"]
  /\ UNCHANGED <<policy, job, checked, cooling, created, stored, held, runner, requests, history>>

\* Mistake: the pause is not asked for before the event is inserted.
ReceiveUnchecked(s) ==
  /\ session[s].pc = "open"
  /\ session' = [session EXCEPT ![s].pc = "receiving"]
  /\ UNCHANGED <<policy, job, checked, cooling, created, stored, held, runner, requests, history>>

\* require_purge_receiving, before the intake and again in before_flush.
Receive(s) ==
  /\ session[s].pc = "open" /\ ~ Paused
  /\ session' = [session EXCEPT ![s].pc = "receiving"]
  /\ UNCHANGED <<policy, job, checked, cooling, created, stored, held, runner, requests, history>>

\* The flush takes created_at and inserts the event.
Insert(s, e) ==
  /\ session[s].pc = "receiving" /\ e \notin created
  /\ created' = created \cup {e}
  /\ session' = [session EXCEPT ![s] = [pc |-> "inserted", event |-> e]]
  /\ UNCHANGED <<policy, job, checked, cooling, stored, held, runner, requests, history>>

Commit(s) ==
  /\ session[s].pc = "inserted"
  /\ stored' = stored \cup {session[s].event}
  /\ session' = [session EXCEPT ![s] = Idle]
  /\ UNCHANGED <<policy, job, checked, cooling, created, held, runner, requests, history>>

\* A request that only read ends, a paused one is refused with 503, and a
\* failed one is rolled back.
Close(s) ==
  /\ session[s].pc \in {"open", "receiving", "inserted"}
  /\ session' = [session EXCEPT ![s] = Idle]
  /\ UNCHANGED <<policy, job, checked, cooling, created, stored, held, runner, requests, history>>

\* keen_hold_sampled_events, and the deletion of the audit.
Hold(e) ==
  /\ e \in stored \ held /\ ~ BatchWaits
  /\ held' = held \cup {e}
  /\ UNCHANGED <<policy, job, checked, cooling, created, stored, session, runner, requests, history>>

Release(e) ==
  /\ e \in held /\ ~ BatchWaits
  /\ held' = held \ {e}
  /\ UNCHANGED <<policy, job, checked, cooling, created, stored, session, runner, requests, history>>
-----------------------------------------------------------------------------
(***************************************************************************)
(* Administrators.                                                         *)
(***************************************************************************)

Request ==
  /\ requests < MaxRequests /\ ~ BatchWaits
  /\ requests' = requests + 1

\* The active job ends; a manual one starts the cool-down.
Cancelled ==
  /\ job' = NoJob
  /\ cooling' = (cooling \/ Manual(job))

\* Mistake: the job of the previous policy goes on.
SetPolicyOnly(p) ==
  /\ Request
  /\ policy' = p /\ checked' = FALSE /\ unapplied' = (p # Disabled)
  /\ UNCHANGED <<job, cooling, stores, runner, purged, drained>>

\* set_policy: a job of the previous policy is cancelled, a purge of all goes on.
SetPolicy(p) ==
  /\ Request
  /\ policy' = p /\ checked' = FALSE /\ unapplied' = (p # Disabled)
  /\ IF ActiveJob /\ job.mode # "all" THEN Cancelled ELSE UNCHANGED <<job, cooling>>
  /\ UNCHANGED <<stores, runner, purged, drained>>

\* purge: everything, or what the policy allows.
Purge(mode) ==
  /\ Request /\ ~ ActiveJob
  /\ mode = "limit" => policy # Disabled
  /\ job' = NewJob(mode, IF mode = "all" THEN 0 ELSE policy, FALSE)
  /\ UNCHANGED <<policy, checked, cooling, stores, runner, history>>

Cancel ==
  /\ Request /\ ActiveJob
  /\ Cancelled
  /\ UNCHANGED <<policy, checked, stores, runner, history>>

\* Five minutes after the last manual job, an hour after the last automatic one.
CooldownEnds ==
  /\ cooling /\ cooling' = FALSE
  /\ drained' = (drained /\ Manual(job))
  /\ UNCHANGED <<policy, job, checked, stores, runner, requests, purged, unapplied>>

HourPasses ==
  /\ checked /\ checked' = FALSE
  /\ UNCHANGED <<policy, job, cooling, stores, runner, requests, history>>
-----------------------------------------------------------------------------
(***************************************************************************)
(* database_batch.                                                         *)
(***************************************************************************)

\* A job has nothing left to delete.
Completed(j) ==
  /\ job' = NoJob
  /\ checked' = (checked \/ j.automatic)
  /\ cooling' = (cooling \/ ~ j.automatic)
  /\ unapplied' = (unapplied /\ ~ (j.automatic /\ j.keep = policy))
  /\ purged' = purged \cup (IF j.mode = "all" THEN j.covers \ (held \cup Diary) ELSE {})

\* _settled_without_purge, under the ordinary lease: no job is due, or the
\* automatic job has nothing to delete, or a batch must run.
Settle(k) ==
  /\ runner[k] = "idle" /\ ~ BatchWaits
  /\ LET j == CurrentJob
         empty == j.automatic /\ j.status = "queued" /\ Candidates(j) = {}
     IN  \/ j = NoJob /\ UNCHANGED <<job, checked, cooling, runner, purged, unapplied>>
         \/ j # NoJob /\ empty /\ Completed(j) /\ UNCHANGED runner
         \/ /\ j # NoJob /\ ~ empty
            /\ job' = j /\ runner' = [runner EXCEPT ![k] = "waiting"]
            /\ UNCHANGED <<checked, cooling, purged, unapplied>>
  /\ UNCHANGED <<policy, stores, requests, drained>>

\* A batch that has the lease looks again for the job that is due, selects and
\* deletes, and completes the job when it selected nothing.
Delete(k) ==
  /\ runner[k] = "waiting"
  /\ runner' = [runner EXCEPT ![k] = "idle"]
  /\ LET j == CurrentJob
         ids == Batch(j)
     IN  \/ j = NoJob /\ UNCHANGED <<job, checked, cooling, stored, purged, drained, unapplied>>
         \/ /\ j # NoJob /\ ids # {}
            /\ stored' = stored \ ids
            /\ job' = [j EXCEPT !.status = "running"]
            /\ drained' = (drained \/ Manual(j))
            /\ UNCHANGED <<checked, cooling, purged, unapplied>>
         \/ /\ j # NoJob /\ ids = {} /\ Completed(j)
            /\ drained' = (drained \/ Manual(j))
            /\ UNCHANGED stored
  /\ UNCHANGED <<policy, created, held, session, requests>>

\* Mistake: a batch does not wait for the open transactions.
RunBatchUndrained(k) == Delete(k)

\* pg_advisory_xact_lock: the lease is free once every transaction has ended.
RunBatch(k) == Quiet /\ Delete(k)

\* Mistake: a batch waits for as long as it takes.
NeverTimeOut(k) == FALSE /\ UNCHANGED vars

\* SET LOCAL lock_timeout = '5s': the attempt fails and beat starts another.
TimeOut(k) ==
  /\ runner[k] = "waiting" /\ ~ Quiet
  /\ runner' = [runner EXCEPT ![k] = "idle"]
  /\ UNCHANGED <<policy, job, checked, cooling, stores, requests, history>>
-----------------------------------------------------------------------------
Next ==
  \/ \E s \in Sessions :
       \/ Begin(s) \/ Nest(s) \/ Nested(s) \/ Receive(s) \/ Commit(s) \/ Close(s)
       \/ \E e \in Events : Insert(s, e)
  \/ \E e \in Events : Hold(e) \/ Release(e)
  \/ \E p \in Limits \cup {Disabled} : SetPolicy(p)
  \/ \E mode \in {"all", "limit"} : Purge(mode)
  \/ Cancel \/ CooldownEnds \/ HourPasses
  \/ \E k \in Runners : Settle(k) \/ RunBatch(k) \/ TimeOut(k)

Spec == Init /\ [][Next]_vars

\* Transactions end; the queue of the lease serves a nested session before the
\* next batch; beat starts a task every minute, now and then at a moment when
\* no transaction is open.  No fairness for the requests of administrators,
\* for audits, nor for the passing of the hour.
Fairness ==
  /\ \A s \in Sessions : SF_vars(Nested(s)) /\ SF_vars(Close(s))
  /\ \A k \in Runners :
       WF_vars(RunBatch(k)) /\ WF_vars(TimeOut(k)) /\ SF_vars(Quiet /\ Settle(k))

FairSpec == Spec /\ Fairness
-----------------------------------------------------------------------------
(***************************************************************************)
(* Requirements.                                                           *)
(***************************************************************************)

Jobs == {NoJob} \cup [status : {"queued", "running"}, mode : {"all", "limit"}, keep : Nat,
                      automatic : BOOLEAN, covers : SUBSET Events]

\* Each variable has its type, an open transaction's event is not committed,
\* and what an audit holds is there (ON DELETE RESTRICT).
TypeOK ==
  /\ policy \in Limits \cup {Disabled}
  /\ job \in Jobs
  /\ checked \in BOOLEAN /\ cooling \in BOOLEAN
  /\ stored \subseteq created /\ created \subseteq Events
  /\ held \subseteq stored
  /\ session \in [Sessions -> [pc : {"idle", "open", "nesting", "receiving", "inserted"},
                               event : Events \cup {0}]]
  /\ runner \in [Runners -> {"idle", "waiting"}]
  /\ requests \in 0..MaxRequests
  /\ \A s \in Sessions : session[s].pc = "inserted" => session[s].event \in created \ stored
  /\ purged \subseteq created /\ drained \in BOOLEAN /\ unapplied \in BOOLEAN

InFlight == {session[s].event : s \in {t \in Sessions : session[t].pc = "inserted"}}

\* A purge of all collected evidence "removes eligible events ... up to the
\* purge start time" (administrator-retention.html:46): once it has completed,
\* none of them is left, nor can one still be committed by a transaction that
\* was open when the purge began.
PurgedIsGone == purged \cap (stored \cup InFlight) = {}

\* "All ingesters, agents and webhooks pause while a manual purge is queued or
\* running and for five minutes after" (administrator-retention.html:48): from
\* its first batch until ingestion resumes, no event is added.
PauseHolds == [][drained => stored' \subseteq stored]_vars

\* A limit deletes an event only while as many newer ones stay that no audit
\* holds: held events are additional to the allowance.
AllowanceKept ==
  [][\A e \in stored \ stored' :
       CurrentJob.mode = "limit" =>
         Cardinality({f \in stored' \ held : f > e}) >= CurrentJob.keep]_vars

\* A saved limit is applied without waiting for the hourly check, whatever job
\* was under way when it was saved.
PolicyTakesEffect == unapplied ~> ~ unapplied

\* A batch that waits for open transactions does not stop the requests that
\* those transactions wait for.
RequestsEnd == \A s \in Sessions : session[s] # Idle ~> session[s] = Idle
=============================================================================
