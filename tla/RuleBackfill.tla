---------------------------- MODULE RuleBackfill ----------------------------
(***************************************************************************)
(* Mapping rules applied to evidence: to each event as it is taken in      *)
(* (apply_rules in app/ingest/common.py) and to earlier events by backfill *)
(* jobs (app/worker/rule_backfill.py), while administrators save rules and *)
(* queue, restart and cancel jobs (app/services/managed_configurations.py).*)
(*                                                                         *)
(* One control is modelled, so a mapping is named by its event and records *)
(* only who made it: a rule, or a person.  A rule's document is the set of *)
(* events it attaches to the control.  Events are numbered in the order    *)
(* backfills examine them, by timestamp and id, which is not the order in  *)
(* which they arrive.  Which of several matching rules a mapping names     *)
(* depends on their confidences, which are not modelled: any may be named. *)
(***************************************************************************)
EXTENDS Integers, FiniteSets

CONSTANTS
  LastEvent,    \* events are 1..LastEvent
  RuleIds,      \* identities of mapping rules
  Documents,    \* the documents administrators save for a rule
  InitialRules, \* the rules before any edit
  Jobs,         \* identities of RuleBackfillJob rows
  Workers,      \* Celery workers that execute backfill_rule_task
  BatchSize,    \* events per batch; 200 in the code
  MaxVersion,   \* bound on saved versions of the rules
  Nobody,       \* the maker of a mapping that does not exist
  Person        \* the maker of a manual mapping

Events == 1..LastEvent
Makers == RuleIds \cup {Nobody, Person}
Absent == {0}  \* the document of a rule that is not saved, or is disabled

ASSUME LastEventAssumption == LastEvent \in Nat
ASSUME DocumentsAssumption == Documents \subseteq SUBSET Events
ASSUME InitialRulesAssumption == InitialRules \in [RuleIds -> Documents \cup {Absent}]
ASSUME BatchSizeAssumption == BatchSize \in Nat \ {0}
ASSUME MaxVersionAssumption == MaxVersion \in Nat \ {0}
ASSUME MakersAssumption == Nobody \notin RuleIds /\ Person \notin RuleIds /\ Nobody # Person

VARIABLES
  rules,    \* the saved rules document
  version,  \* its ManagedConfiguration.version
  intake,   \* each event: not arrived, evaluated but uncommitted, or stored
  pending,  \* the mapping an uncommitted intake will commit with its event
  mapping,  \* the committed Mapping rows: who made the mapping of each event
  request,  \* the request that is about to queue a backfill
  job,      \* the RuleBackfillJob rows
  message,  \* jobs with a task in the broker
  worker    \* what each worker is doing

vars == <<rules, version, intake, pending, mapping, request, job, message, worker>>

Active == {"queued", "running"}
Ended == {"completed", "cancelled", "failed", "superseded"}
NoRequest == [pc |-> "none"]
Idle == [pc |-> "idle"]

\* A batch as it begins: it has read the rules, and neither events nor mappings.
NewBatch(j) ==
  [pc |-> "batch", job |-> j, rules |-> rules, version |-> version,
   read |-> FALSE, events |-> {}, seen |-> [e \in Events |-> Nobody]]

\* The events a document matches, and the rules that match an event.
Matches(document) == document \cap Events
Supporters(document, e) == {r \in RuleIds : e \in Matches(document[r])}
Stored == {e \in Events : intake[e] = "stored"}

\* A worker holds the lock of its job's row from the check to the commit.
Locked(j) == \E w \in Workers : worker[w].pc = "batch" /\ worker[w].job = j

NoJob == [status |-> "none"]
Exists(j) == job[j].status # "none"
ActiveJob(j) == job[j].status \in Active

Init ==
  /\ rules = InitialRules /\ version = 1
  /\ intake = [e \in Events |-> "none"]
  /\ pending = [e \in Events |-> Nobody]
  /\ mapping = [e \in Events |-> Nobody]
  /\ request = NoRequest
  /\ job = [j \in Jobs |-> NoJob]
  /\ message = {}
  /\ worker = [w \in Workers |-> Idle]
-----------------------------------------------------------------------------
(***************************************************************************)
(* Plausible mistakes in operations below, which the properties must tell  *)
(* from the code.                                                          *)
(***************************************************************************)

\* The job's row is read without its lock.
BeginBatchUnlocked(w) ==
  LET j == worker[w].job
      changed == job[j].version # version /\ rules[job[j].rule] # job[j].document
  IN /\ worker[w].pc = "task"
     /\ worker' = [worker EXCEPT ![w] =
          IF job[j].status \in Ended \/ changed THEN Idle
          ELSE NewBatch(j)]
     /\ job' = IF job[j].status \notin Ended /\ changed
               THEN [job EXCEPT ![j].status = "superseded"] ELSE job
     /\ UNCHANGED <<rules, version, intake, pending, mapping, request, message>>

\* A mapping that was not there when the batch read the mappings is replaced.
ReconciledOverwriting(w, e) ==
  LET rule == job[worker[w].job].rule
      seen == worker[w].seen[e]
      supporters == Supporters(worker[w].rules, e)
  IN IF seen = rule THEN IF supporters = {} THEN {Nobody} ELSE supporters
     ELSE IF seen = Nobody /\ e \in Matches(job[worker[w].job].document) THEN {rule}
     ELSE {mapping[e]}

\* Mappings that no rule supports any more are left.
ReconciledWithoutCleanup(w, e) ==
  IF mapping[e] = Nobody /\ e \in Matches(job[worker[w].job].document)
  THEN {job[worker[w].job].rule} ELSE {mapping[e]}

\* Only jobs that have started are recovered.
RecoverRunning(j) ==
  /\ job[j].status = "running"
  /\ message' = message \cup {j}
  /\ UNCHANGED <<rules, version, intake, pending, mapping, request, job, worker>>
-----------------------------------------------------------------------------
(***************************************************************************)
(* Intake: store_event_with_artifact inserts the event, which dates it,    *)
(* evaluates the rules saved at that moment and commits both together.     *)
(* Another transaction sees neither until then.                            *)
(***************************************************************************)

Evaluate(e) ==
  /\ intake[e] = "none"
  /\ intake' = [intake EXCEPT ![e] = "evaluated"]
  /\ \E maker \in (IF Supporters(rules, e) = {} THEN {Nobody} ELSE Supporters(rules, e)) :
       pending' = [pending EXCEPT ![e] = maker]
  /\ UNCHANGED <<rules, version, mapping, request, job, message, worker>>

CommitEvent(e) ==
  /\ intake[e] = "evaluated"
  /\ intake' = [intake EXCEPT ![e] = "stored"]
  /\ mapping' = [mapping EXCEPT ![e] = pending[e]]
  /\ pending' = [pending EXCEPT ![e] = Nobody]
  /\ UNCHANGED <<rules, version, request, job, message, worker>>

\* A person maps a stored event that has no mapping to the control.
MapByHand(e) ==
  /\ e \in Stored /\ mapping[e] = Nobody
  /\ mapping' = [mapping EXCEPT ![e] = Person]
  /\ UNCHANGED <<rules, version, intake, pending, request, job, message, worker>>
-----------------------------------------------------------------------------
(***************************************************************************)
(* Administrators: put_rule, delete_rule, start_rule_backfill and          *)
(* cancel_rule_backfill.                                                   *)
(***************************************************************************)

\* _save commits the rules.  With apply_existing the same request goes on to
\* queue a backfill, in a later transaction, of what it saved.
SaveRule(r, document, apply) ==
  /\ version < MaxVersion
  /\ rules' = [rules EXCEPT ![r] = document]
  /\ version' = version + 1
  /\ IF apply
     THEN /\ request.pc = "none" /\ document # Absent
          /\ request' = [pc |-> "queue", rule |-> r, document |-> document,
                         version |-> version + 1]
     ELSE UNCHANGED request
  /\ UNCHANGED <<intake, pending, mapping, job, message, worker>>

\* start_rule_backfill reads the rule, and then, in a statement of its own, the
\* version of the rules.
StartRead(r) ==
  /\ request.pc = "none" /\ rules[r] # Absent
  /\ request' = [pc |-> "read", rule |-> r, document |-> rules[r], version |-> 0]
  /\ UNCHANGED <<rules, version, intake, pending, mapping, job, message, worker>>

StartVersion ==
  /\ request.pc = "read"
  /\ request' = [request EXCEPT !.pc = "queue", !.version = version]
  /\ UNCHANGED <<rules, version, intake, pending, mapping, job, message, worker>>

\* _queue_rule_backfill: nothing when the rule already has an active job for
\* this version, or no earlier evidence.  The cutoff is the present moment: it
\* takes in every event that has been dated, stored or not.  "calm" is history:
\* no intake was uncommitted and no batch under way.
QueueJob ==
  /\ request.pc = "queue"
  /\ request' = NoRequest
  /\ \/ /\ \/ \E j \in Jobs : /\ ActiveJob(j) /\ job[j].rule = request.rule
                              /\ job[j].version = request.version
           \/ Stored = {}
        /\ UNCHANGED <<job, message>>
     \/ /\ \A j \in Jobs : ActiveJob(j) =>
             job[j].rule # request.rule \/ job[j].version # request.version
        /\ Stored # {}
        /\ \E j \in Jobs :
             /\ ~Exists(j)
             /\ job' = [job EXCEPT ![j] =
                  [status |-> "queued", rule |-> request.rule,
                   document |-> request.document, version |-> request.version,
                   cutoff |-> {e \in Events : intake[e] # "none"}, cursor |-> 0,
                   examined |-> [e \in Events |-> 0], made |-> version,
                   calm |-> /\ \A e \in Events : intake[e] # "evaluated"
                            /\ \A w \in Workers : worker[w].pc # "batch"]]
             /\ message' \in {message \cup {j}, message}
  /\ UNCHANGED <<rules, version, intake, pending, mapping, worker>>

CancelJob(j) ==
  /\ ActiveJob(j) /\ ~Locked(j)
  /\ job' = [job EXCEPT ![j].status = "cancelled"]
  /\ UNCHANGED <<rules, version, intake, pending, mapping, request, message, worker>>
-----------------------------------------------------------------------------
(***************************************************************************)
(* Workers: backfill_rule_task calls process_batch until it returns False. *)
(***************************************************************************)

Receive(w, j) ==
  /\ worker[w].pc = "idle" /\ j \in message
  /\ message' = message \ {j}
  /\ worker' = [worker EXCEPT ![w] = [pc |-> "task", job |-> j]]
  /\ UNCHANGED <<rules, version, intake, pending, mapping, request, job>>

\* The start of process_batch: lock the job, skipping one that is locked, and
\* read the rules.  A job whose rule has changed since it was queued is
\* superseded; one whose rule is as it was adopts the new version.
BeginBatch(w) ==
  LET j == worker[w].job
      ended == Locked(j) \/ job[j].status \in Ended
      changed == job[j].version # version /\ rules[job[j].rule] # job[j].document
  IN /\ worker[w].pc = "task"
     /\ worker' = [worker EXCEPT ![w] =
          IF ended \/ changed THEN Idle
          ELSE NewBatch(j)]
     /\ job' = IF ~ended /\ changed
               THEN [job EXCEPT ![j].status = "superseded"] ELSE job
     /\ UNCHANGED <<rules, version, intake, pending, mapping, request, message>>

\* The events of the next batch, of the one source that all rules read: those
\* up to the cutoff and beyond the cursor.
Remaining(j) == {e \in Stored \cap job[j].cutoff : e > job[j].cursor}
Batch(j) ==
  {e \in Remaining(j) : Cardinality({d \in Remaining(j) : d < e}) < BatchSize}

\* The mappings whose rows a batch has locked as it read them.
LockedRows(w) ==
  IF worker[w].pc = "batch" THEN {e \in worker[w].events : worker[w].seen[e] # Nobody} ELSE {}

WithEvents(batch, events) ==
  [batch EXCEPT !.read = TRUE, !.events = events,
                !.seen = [e \in Events |-> IF e \in events THEN mapping[e] ELSE Nobody]]

\* The batch reads its events, and then their mappings, whose rows it locks;
\* rows that another batch has locked it waits for.
ReadBatch(w) ==
  LET events == Batch(worker[w].job)
  IN /\ worker[w].pc = "batch" /\ ~worker[w].read
     /\ \A v \in Workers : LockedRows(v) \cap events = {}
     /\ worker' = [worker EXCEPT ![w] = WithEvents(@, events)]
     /\ UNCHANGED <<rules, version, intake, pending, mapping, request, job, message>>

\* The cursor and the counts of examined events after a batch of these events.
BatchEnd(j, events) ==
  IF events = {} THEN job[j].cursor
  ELSE CHOOSE e \in events : \A d \in events : d <= e
Examined(j, events) ==
  [e \in Events |-> IF e \in events THEN job[j].examined[e] + 1 ELSE job[j].examined[e]]

\* What a batch may make of an event's mapping, given the rules and the mapping
\* it has read.  A mapping the rule owns is kept while an active rule supports
\* it, in the name of such a rule.  An event without one that the rule matches is
\* mapped, unless somebody has mapped it meanwhile (ON CONFLICT DO NOTHING); one
\* that loses its mapping here is not, as the deletion is flushed after the
\* insertion, which finds the row and does nothing.
Reconciled(w, e) ==
  LET rule == job[worker[w].job].rule
      seen == worker[w].seen[e]
      supporters == Supporters(worker[w].rules, e)
  IN IF seen = rule THEN IF supporters = {} THEN {Nobody} ELSE supporters
     ELSE IF /\ seen = Nobody /\ mapping[e] = Nobody
             /\ e \in Matches(job[worker[w].job].document)
     THEN {rule} ELSE {mapping[e]}

\* The rest of process_batch: mappings and cursor are committed together.  A full
\* batch leaves the job running, and the task goes on or hands over to a new one.
CommitBatch(w) ==
  LET j == worker[w].job
      events == worker[w].events
      full == Cardinality(events) = BatchSize
  IN /\ worker[w].pc = "batch" /\ worker[w].read
     /\ \E changed \in [events -> Makers] :
          /\ \A e \in events : changed[e] \in Reconciled(w, e)
          /\ mapping' = [e \in Events |-> IF e \in events THEN changed[e] ELSE mapping[e]]
     /\ job' = [job EXCEPT ![j] = [@ EXCEPT
          !.version = worker[w].version,
          !.status = IF full THEN "running" ELSE "completed",
          !.cursor = BatchEnd(j, events),
          !.examined = Examined(j, events)]]
     /\ \/ /\ full
           /\ worker' = [worker EXCEPT ![w] = [pc |-> "task", job |-> j]]
           /\ UNCHANGED message
        \/ /\ worker' = [worker EXCEPT ![w] = Idle]
           /\ message' = IF full THEN message \cup {j} ELSE message
     /\ UNCHANGED <<rules, version, intake, pending, request>>

\* process_batch raises and its transaction is rolled back; the task reads the
\* job's status in a new session, and records the failure in a later statement
\* unless it read "completed" or "cancelled".
Raise(w) ==
  LET j == worker[w].job
  IN /\ worker[w].pc \in {"task", "batch"}
     /\ worker' = [worker EXCEPT ![w] =
          IF job[j].status \in {"completed", "cancelled"} THEN Idle
          ELSE [pc |-> "failing", job |-> j]]
     /\ UNCHANGED <<rules, version, intake, pending, mapping, request, job, message>>

RecordFailure(w) ==
  /\ worker[w].pc = "failing" /\ ~Locked(worker[w].job)
  /\ job' = [job EXCEPT ![worker[w].job].status = "failed"]
  /\ worker' = [worker EXCEPT ![w] = Idle]
  /\ UNCHANGED <<rules, version, intake, pending, mapping, request, message>>

WorkerDies(w) ==
  /\ worker[w].pc # "idle"
  /\ worker' = [worker EXCEPT ![w] = Idle]
  /\ UNCHANGED <<rules, version, intake, pending, mapping, request, job, message>>

\* recover_jobs, every minute: queued jobs, and running ones without progress
\* for five minutes, are dispatched again, whatever tasks they still have.
Recover(j) ==
  /\ ActiveJob(j)
  /\ message' = message \cup {j}
  /\ UNCHANGED <<rules, version, intake, pending, mapping, request, job, worker>>

IntakeNext == \E e \in Events : Evaluate(e) \/ CommitEvent(e) \/ MapByHand(e)
AdminNext ==
  \/ \E r \in RuleIds, document \in Documents \cup {Absent}, apply \in BOOLEAN :
       SaveRule(r, document, apply)
  \/ \E r \in RuleIds : StartRead(r)
  \/ StartVersion \/ QueueJob
  \/ \E j \in Jobs : CancelJob(j)
WorkerStep(w) ==
  \/ BeginBatch(w) \/ ReadBatch(w) \/ CommitBatch(w)
  \/ Raise(w) \/ RecordFailure(w) \/ WorkerDies(w)
WorkerNext == \E w \in Workers : WorkerStep(w) \/ \E j \in Jobs : Receive(w, j)

Next == IntakeNext \/ AdminNext \/ WorkerNext \/ \E j \in Jobs : Recover(j)

Spec == Init /\ [][Next]_vars

\* The work of a worker on one job.
At(w, pc, j) == worker[w].pc = pc /\ worker[w].job = j

(***************************************************************************)
(* Beat recovers jobs for ever; workers go on with the tasks they hold,    *)
(* and the tasks and batches of a job are not all killed.                  *)
(***************************************************************************)
Fairness ==
  /\ WF_vars(\E w \in Workers : WorkerStep(w))
  /\ \A j \in Jobs :
       /\ WF_vars(Recover(j))
       /\ SF_vars(\E w \in Workers : Receive(w, j))
       /\ SF_vars(\E w \in Workers : At(w, "task", j) /\ BeginBatch(w))
       /\ SF_vars(\E w \in Workers : At(w, "batch", j) /\ ReadBatch(w))
       /\ SF_vars(\E w \in Workers : At(w, "batch", j) /\ CommitBatch(w))

FairSpec == Spec /\ Fairness
-----------------------------------------------------------------------------
(***************************************************************************)
(* Properties.                                                             *)
(***************************************************************************)

JobType ==
  [status : Active \cup Ended, rule : RuleIds, document : Documents,
   version : 1..MaxVersion, cutoff : SUBSET Events, cursor : 0..LastEvent,
   examined : [Events -> Nat], made : 1..MaxVersion, calm : BOOLEAN]

\* Every variable keeps its type.
TypeOK ==
  /\ rules \in [RuleIds -> Documents \cup {Absent}] /\ version \in 1..MaxVersion
  /\ intake \in [Events -> {"none", "evaluated", "stored"}]
  /\ pending \in [Events -> Makers] /\ mapping \in [Events -> Makers]
  /\ request \in {NoRequest} \cup
       [pc : {"read", "queue"}, rule : RuleIds, document : Documents, version : 0..MaxVersion]
  /\ job \in [Jobs -> {NoJob} \cup JobType]
  /\ message \subseteq {j \in Jobs : Exists(j)}
  /\ worker \in [Workers -> {Idle} \cup [pc : {"task", "failing"}, job : Jobs] \cup
       [pc : {"batch"}, job : Jobs, rules : [RuleIds -> Documents \cup {Absent}],
        version : 1..MaxVersion, read : BOOLEAN, events : SUBSET Events,
        seen : [Events -> Makers]]]

\* However many tasks a job has, from retries, recovery and hand-over, one
\* worker at a time processes it and no event is examined twice.
ExaminedOnce ==
  /\ \A j \in Jobs : Exists(j) => \A e \in Events : job[j].examined[e] <= 1
  /\ \A v, w \in Workers :
       worker[v].pc = "batch" /\ worker[w].pc = "batch" /\ worker[v].job = worker[w].job => v = w

\* Backfills preserve manual mappings, also those made while a batch runs.
ManualMappingsKept ==
  [][\A e \in Events : mapping[e] = Person => mapping'[e] = Person]_vars

\* Jobs whose rule document is the saved one while their version is current.
AppliesSavedRule(j) ==
  Exists(j) /\ job[j].version = version => job[j].document = rules[job[j].rule]

\* A completed job that was queued with nothing under way, with the rules left
\* alone since, has reconciled its rule: every earlier event the rule matches
\* is mapped, and the rule owns no mapping of an event it does not match.
ReconciledWhenCalm ==
  \A j \in Jobs :
    /\ job[j].status = "completed"
    /\ job[j].calm /\ job[j].made = version
    /\ \A k \in Jobs : AppliesSavedRule(k)
    => \A e \in job[j].cutoff :
         /\ e \in Matches(rules[job[j].rule]) => mapping[e] # Nobody
         /\ mapping[e] = job[j].rule => e \in Matches(rules[job[j].rule])

\* Every job ends, although its task may never have reached the broker and
\* workers may die in the middle of a batch.
JobsEnd == \A j \in Jobs : ActiveJob(j) ~> (job[j].status \in Ended)
=============================================================================
