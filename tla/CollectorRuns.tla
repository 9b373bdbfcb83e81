--------------------------- MODULE CollectorRuns ---------------------------
(***************************************************************************)
(* The background runs of one API ingester (an "integration collector"):   *)
(* app/integrations/runtime.py and the collector actions of                *)
(* app/services/integrations.py.                                           *)
(*                                                                         *)
(* Three kinds of process share the collector row, its run rows and the    *)
(* task broker: API requests, overlapping scheduler ticks, and one worker  *)
(* for each claimed run.  An action is one database transaction, or one    *)
(* call made between two of them.  The row locks make each transaction     *)
(* atomic; what is read in one and used in a later one is kept in the      *)
(* state of the process that read it.                                      *)
(*                                                                         *)
(* Upstream records are numbered by timestamp, 1..upstream; the cursor is  *)
(* the timestamp up to which records have been collected, 0 for none.      *)
(***************************************************************************)
EXTENDS Integers, FiniteSets

CONSTANTS
  Runs,          \* identities of run rows
  Ticks,         \* scheduler tick executions that may overlap
  FailureLimit,  \* failed runs that pause collection; the code's literal 3
  MaxVersion,    \* bound on the draft versions of the collector
  MaxRecord,     \* bound on the records the upstream API ever returns
  Unusable,      \* records whose values the definition cannot use
  RaisedDelivers \* whether a broker call that raises may have delivered

ASSUME FailureLimitAssumption == FailureLimit \in Nat \ {0}
ASSUME MaxVersionAssumption == MaxVersion \in Nat \ {0}
ASSUME MaxRecordAssumption == MaxRecord \in Nat
ASSUME UnusableAssumption == Unusable \subseteq Nat
ASSUME RaisedDeliversAssumption == RaisedDelivers \subseteq BOOLEAN

VARIABLES
  enabled,   \* IntegrationCollector.enabled
  failures,  \* IntegrationCollector.failures
  due,       \* IntegrationCollector.next_run has passed
  version,   \* IntegrationCollector.version
  live,      \* IntegrationCollector.live_revision, 0 for none
  published, \* the IntegrationRevision rows
  cursor,    \* IntegrationCollector.cursor
  paused,    \* the source is paused, by an operator or for a purge
  run,       \* the IntegrationRun rows
  posting,   \* committed runs whose poster has still to call dispatch
  refused,   \* runs whose dispatch raised, not yet failed
  message,   \* runs with a task message in the broker
  worker,    \* the worker executing each claimed run
  tick,      \* the tick executions, each with the stale runs it listed
  upstream,  \* records the API can return
  stored,    \* records stored as evidence
  charges    \* history: how often each run has consumed failure budget

collector == <<enabled, failures, due, version, live, published, cursor>>
broker == <<posting, refused, message>>
vars == <<collector, paused, run, broker, worker, tick, upstream, stored, charges>>

Active == {"queued", "running"}
Finished == {"succeeded", "failed", "cancelled"}
NoRun == [status |-> "none", preview |-> FALSE, revision |-> 0, aged |-> FALSE]
Resting == [pc |-> "idle", from |-> 0, next |-> 1, upto |-> 0, seen |-> 0]
AtRest == [pc |-> "idle", stale |-> {}]

RunType == [status : {"none"} \cup Active \cup Finished, preview : BOOLEAN,
            revision : 0..MaxVersion, aged : BOOLEAN]
WorkerType == [pc : {"idle", "claimed", "checked", "storing"}, from : 0..MaxRecord,
               next : 1..(MaxRecord + 1), upto : 0..MaxRecord, seen : 0..FailureLimit]
TickType == [pc : {"idle", "listed"}, stale : SUBSET Runs]

ActiveRuns == {r \in Runs : run[r].status \in Active}
Collectable(lo, hi) == {n \in lo..hi : n \notin Unusable}

Init ==
  /\ enabled = FALSE /\ failures = 0 /\ due = FALSE /\ cursor = 0
  /\ version = 1 /\ live = 0 /\ published = {}
  /\ paused = FALSE
  /\ run = [r \in Runs |-> NoRun]
  /\ posting = {} /\ refused = {} /\ message = {}
  /\ worker = [r \in Runs |-> Resting]
  /\ tick = [t \in Ticks |-> AtRest]
  /\ upstream = 0 /\ stored = {}
  /\ charges = [r \in Runs |-> 0]
-----------------------------------------------------------------------------
(***************************************************************************)
(* Helpers shared by the processes.                                        *)
(***************************************************************************)

\* Mutant of QueueRun: the check for an active run is missing.
QueueRunUnchecked(r, preview) ==
  /\ ~paused /\ (preview \/ live \in published) /\ run[r].status = "none"
  /\ run' = [run EXCEPT ![r] =
       [status |-> "queued", preview |-> preview, aged |-> FALSE,
        revision |-> IF preview THEN version ELSE live]]
  /\ posting' = posting \cup {r}

\* queue_run: insert a run row for the draft or for the live revision.  The
\* caller holds the collector row and commits.
QueueRun(r, preview) ==
  /\ ~paused
  /\ ActiveRuns = {}
  /\ preview \/ live \in published
  /\ run[r].status = "none"
  /\ run' = [run EXCEPT ![r] =
       [status |-> "queued", preview |-> preview, aged |-> FALSE,
        revision |-> IF preview THEN version ELSE live]]
  /\ posting' = posting \cup {r}

\* Mutant of Fail: every call consumes budget.
FailAgain(r) ==
  /\ run' = [run EXCEPT ![r].status = "failed"]
  /\ failures' = IF failures < FailureLimit THEN failures + 1 ELSE failures
  /\ enabled' = (enabled /\ failures + 1 < FailureLimit)
  /\ charges' = [charges EXCEPT ![r] = @ + 1]
  /\ UNCHANGED <<due, version, live, published, cursor>>

\* fail: only the transition out of an active status consumes budget; the
\* FailureLimit-th failed run pauses collection.
Fail(r) ==
  LET first == run[r].status \in Active
      charged == first /\ ~run[r].preview
  IN /\ run' = IF first THEN [run EXCEPT ![r].status = "failed"] ELSE run
     /\ failures' = IF charged THEN failures + 1 ELSE failures
     /\ enabled' = (enabled /\ ~(charged /\ failures + 1 >= FailureLimit))
     /\ charges' = IF charged THEN [charges EXCEPT ![r] = @ + 1] ELSE charges
     /\ UNCHANGED <<due, version, live, published, cursor>>
-----------------------------------------------------------------------------
(***************************************************************************)
(* API requests: action_collector and save_collector, each one transaction *)
(* under the collector's row lock.                                         *)
(***************************************************************************)

SaveCollector ==
  /\ version < MaxVersion
  /\ version' = version + 1
  /\ UNCHANGED <<enabled, failures, due, live, published, cursor, paused, run,
                 broker, worker, tick, upstream, stored, charges>>

\* Mutant of Publish: publishing resets the schedule whatever the budget.
PublishEnables ==
  /\ ActiveRuns = {}
  /\ published' = published \cup {version} /\ live' = version
  /\ enabled' = TRUE /\ due' = TRUE
  /\ UNCHANGED <<failures, version, cursor, paused, run, broker, worker, tick,
                 upstream, stored, charges>>

\* Mutant of Publish: allowed during a run.
PublishAnytime ==
  /\ published' = published \cup {version} /\ live' = version
  /\ enabled' = (failures < FailureLimit) /\ due' = TRUE
  /\ UNCHANGED <<failures, version, cursor, paused, run, broker, worker, tick,
                 upstream, stored, charges>>

Publish ==
  /\ ActiveRuns = {}
  /\ published' = published \cup {version}
  /\ live' = version
  /\ enabled' = (failures < FailureLimit)
  /\ due' = TRUE
  /\ UNCHANGED <<failures, version, cursor, paused, run, broker, worker, tick,
                 upstream, stored, charges>>

Rollback(revision) ==
  /\ ActiveRuns = {}
  /\ revision \in published
  /\ version < MaxVersion
  /\ version' = version + 1
  /\ live' = revision
  /\ UNCHANGED <<enabled, failures, due, published, cursor, paused, run, broker,
                 worker, tick, upstream, stored, charges>>

Pause ==
  /\ enabled' = FALSE
  /\ UNCHANGED <<failures, due, version, live, published, cursor, paused, run,
                 broker, worker, tick, upstream, stored, charges>>

Resume ==
  /\ live # 0
  /\ enabled' = TRUE /\ failures' = 0 /\ due' = TRUE
  /\ UNCHANGED <<version, live, published, cursor, paused, run, broker, worker,
                 tick, upstream, stored, charges>>

ResetCursor ==
  /\ ActiveRuns = {}
  /\ cursor' = 0
  /\ UNCHANGED <<enabled, failures, due, version, live, published, paused, run,
                 broker, worker, tick, upstream, stored, charges>>

RequestRun(r, preview) ==
  /\ preview \/ failures < FailureLimit
  /\ QueueRun(r, preview)
  /\ UNCHANGED <<collector, paused, refused, message, worker, tick, upstream,
                 stored, charges>>
-----------------------------------------------------------------------------
(***************************************************************************)
(* dispatch, called by the request or the tick that queued the run once    *)
(* its transaction has committed.  A broker call that raises may still     *)
(* have delivered the message; the poster then fails the run.              *)
(***************************************************************************)

Dispatch(r) ==
  /\ r \in posting
  /\ posting' = posting \ {r}
  /\ message' = message \cup {r}
  /\ UNCHANGED <<collector, paused, run, refused, worker, tick, upstream, stored,
                 charges>>

DispatchRaises(r) ==
  /\ r \in posting
  /\ posting' = posting \ {r}
  /\ refused' = refused \cup {r}
  /\ \E delivered \in RaisedDelivers :
       message' = IF delivered THEN message \cup {r} ELSE message
  /\ UNCHANGED <<collector, paused, run, worker, tick, upstream, stored, charges>>

FailRefused(r) ==
  /\ r \in refused
  /\ refused' = refused \ {r}
  /\ Fail(r)
  /\ UNCHANGED <<paused, posting, message, worker, tick, upstream, stored>>

\* The posting process dies before it dispatches, or before it records that
\* the dispatch failed.
PosterDies(r) ==
  /\ r \in posting \cup refused
  /\ posting' = posting \ {r}
  /\ refused' = refused \ {r}
  /\ UNCHANGED <<collector, paused, run, message, worker, tick, upstream, stored,
                 charges>>

\* Tasks are acknowledged before they run, so a worker that dies on receipt,
\* or a broker restart, loses the message.
LoseMessage(r) ==
  /\ r \in message
  /\ message' = message \ {r}
  /\ UNCHANGED <<collector, paused, run, posting, refused, worker, tick, upstream,
                 stored, charges>>
-----------------------------------------------------------------------------
(***************************************************************************)
(* run_job, in the worker that receives the message of run r.              *)
(***************************************************************************)

Claim(r) ==
  /\ r \in message
  /\ message' = message \ {r}
  /\ IF run[r].status = "queued"
     THEN /\ run' = [run EXCEPT ![r].status = "running", ![r].aged = FALSE]
          /\ worker' = [worker EXCEPT ![r] = [Resting EXCEPT !.pc = "claimed"]]
     ELSE UNCHANGED <<run, worker>>
  /\ UNCHANGED <<collector, paused, posting, refused, tick, upstream, stored, charges>>

\* The pause is read once, before collection begins.  The assignment to
\* status is unconditional, whatever another process has made of the row.
CheckPaused(r) ==
  /\ worker[r].pc = "claimed"
  /\ IF paused
     THEN /\ run' = [run EXCEPT ![r].status = "cancelled"]
          /\ worker' = [worker EXCEPT ![r] = Resting]
     ELSE /\ worker' = [worker EXCEPT ![r].pc = "checked"]
          /\ UNCHANGED run
  /\ UNCHANGED <<collector, paused, broker, tick, upstream, stored, charges>>

\* Mutant of Collect: the new cursor is saved before its records are stored.
CollectSavesCursor(r) ==
  /\ worker[r].pc = "checked"
  /\ worker' = [worker EXCEPT ![r] = [pc |-> "storing", from |-> cursor, seen |-> failures,
                                     next |-> cursor + 1, upto |-> upstream]]
  /\ cursor' = IF run[r].preview THEN cursor ELSE upstream
  /\ UNCHANGED <<enabled, failures, due, version, live, published, paused, run,
                 broker, tick, upstream, stored, charges>>

\* collect, from the cursor read now; the watermark is the newest record that
\* could be used.
Collect(r) ==
  /\ worker[r].pc = "checked"
  /\ LET found == Collectable(cursor + 1, upstream)
     IN \E newest \in 0..upstream :
          /\ IF found = {} THEN newest = cursor
             ELSE newest \in found /\ \A n \in found : n <= newest
          /\ worker' = [worker EXCEPT ![r] =
               [pc |-> "storing", from |-> cursor, next |-> cursor + 1,
                upto |-> newest, seen |-> failures]]
  /\ UNCHANGED <<collector, paused, run, broker, tick, upstream, stored, charges>>

\* One record is stored and committed; a preview stores nothing.
Store(r) ==
  /\ worker[r].pc = "storing"
  /\ ~run[r].preview
  /\ worker[r].next <= worker[r].upto
  /\ stored' = stored \cup Collectable(worker[r].next, worker[r].next)
  /\ worker' = [worker EXCEPT ![r].next = @ + 1]
  /\ UNCHANGED <<collector, paused, run, broker, tick, upstream, charges>>

\* The last commit.  After a record commit every attribute is expired, so all
\* assignments are written.  A run without records is still in the transaction
\* that loaded the collector: an unchanged cursor and a failure count loaded
\* as 0 are not written.
Finish(r) ==
  LET w == worker[r]
      rewritten == w.upto > w.from
  IN /\ w.pc = "storing"
     /\ run[r].preview \/ w.next > w.upto
     /\ run' = [run EXCEPT ![r].status = "succeeded"]
     /\ cursor' = IF ~run[r].preview /\ rewritten THEN w.upto ELSE cursor
     /\ failures' = IF ~run[r].preview /\ (rewritten \/ w.seen # 0) THEN 0 ELSE failures
     /\ worker' = [worker EXCEPT ![r] = Resting]
     /\ UNCHANGED <<enabled, due, version, live, published, paused, broker, tick,
                    upstream, stored, charges>>

\* Any exception: an upstream failure, the soft time limit, a write refused
\* because an evidence purge began.
Raise(r) ==
  /\ worker[r].pc # "idle"
  /\ worker' = [worker EXCEPT ![r] = Resting]
  /\ Fail(r)
  /\ UNCHANGED <<paused, broker, tick, upstream, stored>>

\* The hard time limit, or the loss of the worker.
Kill(r) ==
  /\ worker[r].pc # "idle"
  /\ worker' = [worker EXCEPT ![r] = Resting]
  /\ UNCHANGED <<collector, paused, run, broker, tick, upstream, stored, charges>>
-----------------------------------------------------------------------------
(***************************************************************************)
(* tick, run every minute; two executions may overlap.                     *)
(***************************************************************************)

\* Mutant of TickStart: only queued runs are looked for, not abandoned ones.
TickStartQueued(t) ==
  /\ tick[t].pc = "idle" /\ ~paused
  /\ tick' = [tick EXCEPT ![t] = [pc |-> "listed",
       stale |-> {r \in Runs : run[r].status = "queued" /\ run[r].aged}]]
  /\ UNCHANGED <<collector, paused, run, broker, worker, upstream, stored, charges>>

\* The pause check and the list of runs older than ten minutes.
TickStart(t) ==
  /\ tick[t].pc = "idle"
  /\ IF paused
     THEN /\ run' = [r \in Runs |-> IF run[r].status = "queued"
                                    THEN [run[r] EXCEPT !.status = "cancelled"]
                                    ELSE run[r]]
          /\ UNCHANGED tick
     ELSE /\ tick' = [tick EXCEPT ![t] =
                        [pc |-> "listed", stale |-> {r \in ActiveRuns : run[r].aged}]]
          /\ UNCHANGED run
  /\ UNCHANGED <<collector, paused, broker, worker, upstream, stored, charges>>

\* fail re-checks that the run is active, not that it is still old.
TickFail(t, r) ==
  /\ r \in tick[t].stale
  /\ tick' = [tick EXCEPT ![t].stale = @ \ {r}]
  /\ Fail(r)
  /\ UNCHANGED <<paused, broker, worker, upstream, stored>>

\* The collector is scheduled again, and a run queued unless queue_run refuses.
TickQueue(t) ==
  /\ tick[t].pc = "listed" /\ tick[t].stale = {}
  /\ enabled /\ due /\ live \in published
  /\ due' = FALSE
  /\ \/ \E r \in Runs : QueueRun(r, FALSE)
     \/ /\ paused \/ ActiveRuns # {}
        /\ UNCHANGED <<run, posting>>
  /\ tick' = [tick EXCEPT ![t] = AtRest]
  /\ UNCHANGED <<enabled, failures, version, live, published, cursor, paused,
                 refused, message, worker, upstream, stored, charges>>

\* The collector is not due, is locked by another transaction, or the tick dies.
TickEnd(t) ==
  /\ tick[t].pc = "listed"
  /\ tick' = [tick EXCEPT ![t] = AtRest]
  /\ UNCHANGED <<collector, paused, run, broker, worker, upstream, stored, charges>>
-----------------------------------------------------------------------------
(***************************************************************************)
(* The environment.                                                        *)
(***************************************************************************)

\* Ten minutes pass since the run was created, or since it was claimed.  A
\* worker is gone by then: its hard limit is 160 seconds.
Age(r) ==
  /\ run[r].status \in Active /\ ~run[r].aged
  /\ worker[r].pc = "idle"
  /\ run' = [run EXCEPT ![r].aged = TRUE]
  /\ UNCHANGED <<collector, paused, broker, worker, tick, upstream, stored, charges>>

ComeDue ==
  /\ ~due /\ due' = TRUE
  /\ UNCHANGED <<enabled, failures, version, live, published, cursor, paused, run,
                 broker, worker, tick, upstream, stored, charges>>

SetPaused ==
  /\ paused' = ~paused
  /\ UNCHANGED <<collector, run, broker, worker, tick, upstream, stored, charges>>

NewRecord ==
  /\ upstream < MaxRecord
  /\ upstream' = upstream + 1
  /\ UNCHANGED <<collector, paused, run, broker, worker, tick, stored, charges>>

ApiNext ==
  \/ SaveCollector \/ Publish \/ Pause \/ Resume \/ ResetCursor
  \/ \E revision \in 1..MaxVersion : Rollback(revision)
  \/ \E r \in Runs, preview \in BOOLEAN : RequestRun(r, preview)
PosterNext ==
  \E r \in Runs : Dispatch(r) \/ DispatchRaises(r) \/ FailRefused(r) \/ PosterDies(r)
WorkerStep(r) ==
  CheckPaused(r) \/ Collect(r) \/ Store(r) \/ Finish(r) \/ Raise(r) \/ Kill(r)
WorkerNext == \E r \in Runs : Claim(r) \/ LoseMessage(r) \/ WorkerStep(r)
TickNext ==
  \E t \in Ticks : \/ TickStart(t) \/ TickQueue(t) \/ TickEnd(t)
                   \/ \E r \in Runs : TickFail(t, r)
EnvNext == ComeDue \/ SetPaused \/ NewRecord \/ \E r \in Runs : Age(r)

Next == ApiNext \/ PosterNext \/ WorkerNext \/ TickNext \/ EnvNext

Spec == Init /\ [][Next]_vars

(***************************************************************************)
(* Fairness: beat starts a tick every minute and a listed stale run is     *)
(* failed; a worker proceeds or meets its time limit; time passes.         *)
(***************************************************************************)
Fairness ==
  /\ \A t \in Ticks : SF_vars(TickStart(t) /\ ~paused) /\ WF_vars(TickEnd(t))
  /\ \A t \in Ticks, r \in Runs : SF_vars(TickFail(t, r))
  /\ \A r \in Runs : WF_vars(WorkerStep(r)) /\ WF_vars(Age(r))

FairSpec == Spec /\ Fairness
-----------------------------------------------------------------------------
(***************************************************************************)
(* Properties.                                                             *)
(***************************************************************************)

\* Every variable keeps its type.
TypeOK ==
  /\ enabled \in BOOLEAN /\ failures \in 0..FailureLimit /\ due \in BOOLEAN
  /\ version \in 1..MaxVersion /\ live \in 0..MaxVersion
  /\ published \subseteq 1..MaxVersion
  /\ cursor \in 0..MaxRecord /\ paused \in BOOLEAN
  /\ run \in [Runs -> RunType]
  /\ posting \subseteq Runs /\ refused \subseteq Runs /\ message \subseteq Runs
  /\ worker \in [Runs -> WorkerType]
  /\ tick \in [Ticks -> TickType]
  /\ upstream \in 0..MaxRecord /\ stored \subseteq 1..MaxRecord
  /\ charges \in [Runs -> Nat]

\* However requests, ticks and workers interleave, queue_run never lets a
\* collector have two queued or running runs.
OneActiveRun == \A r, s \in ActiveRuns : r = s

\* After FailureLimit failed runs collection stays paused: no schedule, and no
\* collecting run queued or running, until an operator resumes it.
BudgetStopsCollection ==
  failures >= FailureLimit => ~enabled /\ \A r \in ActiveRuns : run[r].preview

\* "Only the first failure transition consumes budget, including overlapping
\* ticks": worker, poster and both ticks may all try to fail the same run.
ChargedOnce == \A r \in Runs : charges[r] <= 1

\* Publish and rollback never change the live revision under a run: a queued
\* or running collection is the collection of the live revision.
RunsTheLiveRevision ==
  \A r \in ActiveRuns : ~run[r].preview => run[r].revision = live /\ live \in published

\* The cursor never passes a usable record that is not stored, whichever runs
\* failed half-way, were replayed after a reset, or finished late.
NoGapBelowCursor == Collectable(1, cursor) \subseteq stored

\* A run whose task was never sent, was lost, or whose worker died does not
\* hold the collector for ever, as long as ingestion is not paused for good.
RunsEnd ==
  ([]<>~paused) => \A r \in Runs : (run[r].status \in Active) ~> (run[r].status \notin Active)
=============================================================================
