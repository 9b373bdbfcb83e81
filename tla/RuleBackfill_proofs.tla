------------------------- MODULE RuleBackfill_proofs -------------------------
(***************************************************************************)
(* Proofs about RuleBackfill, for every number of events, rules, documents,*)
(* jobs, workers and versions, and every batch size.                       *)
(*                                                                         *)
(* Only one worker at a time is in a batch of a job, for it holds the      *)
(* job's row; no event beyond the job's cursor has been examined (Passed), *)
(* and a batch moves the cursor to its greatest event, which exists        *)
(* because events are numbered.  The mappings a batch has read are locked  *)
(* and stay (ReadsInv), so it changes only its own rule's; a mapping that  *)
(* somebody made after it read is left.  An event that is not stored has   *)
(* no mapping (Unmapped), so no intake commits over one.                   *)
(*                                                                         *)
(* For a backfill that was queued with nothing under way a second          *)
(* invariant, CalmInv, follows what it has passed: no batch has read other *)
(* rules than the saved ones, so what any job makes of a mapping is as the *)
(* rules would have it; a batch has read all that is left up to its last   *)
(* event (Whole), and leaves no event behind the cursor; and a mapping its *)
(* rule is given between the batch's read and its commit, by a batch of    *)
(* another job, is one the rule would make (Unseen).                       *)
(***************************************************************************)
EXTENDS RuleBackfill, FiniteSetTheorems, TLAPS, WellFoundedInduction

(* Tasks name jobs that exist. *)
Held == \A w \in Workers : worker[w].pc # "idle" => Exists(worker[w].job)

(* A request about to queue has read the version. *)
VersionRead == request.pc = "queue" => request.version # 0

(* One worker at a time is in a batch of a job.                            *)
OneBatch ==
  \A v, w \in Workers :
    worker[v].pc = "batch" /\ worker[w].pc = "batch" /\ worker[v].job = worker[w].job => v = w

(* Nothing beyond a job's cursor is examined, and nothing twice.           *)
Passed ==
  \A j \in Jobs : Exists(j) => \A e \in Events :
    /\ job[j].examined[e] <= 1
    /\ e > job[j].cursor => job[j].examined[e] = 0

(* Only stored events have mappings.                                       *)
Unmapped == \A e \in Events : intake[e] # "stored" => mapping[e] = Nobody

WorkerType ==
  {Idle} \cup [pc : {"task", "failing"}, job : Jobs] \cup
    [pc : {"batch"}, job : Jobs, rules : [RuleIds -> Documents \cup {Absent}],
     version : 1..MaxVersion, read : BOOLEAN, events : SUBSET Events,
     seen : [Events -> Makers]]

(* What workers do, and what administrators and intake do. *)
JobsInv ==
  /\ job \in [Jobs -> {NoJob} \cup JobType]
  /\ message \subseteq {j \in Jobs : Exists(j)}
  /\ worker \in [Workers -> WorkerType]
  /\ Held
  /\ OneBatch
  /\ Passed

EventsInv ==
  /\ rules \in [RuleIds -> Documents \cup {Absent}] /\ version \in 1..MaxVersion
  /\ intake \in [Events -> {"none", "evaluated", "stored"}]
  /\ pending \in [Events -> Makers] /\ mapping \in [Events -> Makers]
  /\ request \in {NoRequest} \cup
       [pc : {"read", "queue"}, rule : RuleIds, document : Documents, version : 0..MaxVersion]
  /\ VersionRead
  /\ Unmapped

(* A batch holds stored events beyond the cursor; no other batch has the   *)
(* mappings it has locked, and nobody changes them.                        *)
ReadsInv ==
  \A w \in Workers : worker[w].pc = "batch" =>
    /\ \A e \in worker[w].events :
         /\ intake[e] = "stored" /\ e > job[worker[w].job].cursor
         /\ worker[w].seen[e] # Nobody => mapping[e] = worker[w].seen[e]
    /\ \A v \in Workers \ {w} : LockedRows(v) \cap LockedRows(w) = {}

BackfillInv == JobsInv /\ EventsInv /\ ReadsInv
-----------------------------------------------------------------------------
(* Operators. *)

(* A set of events has a greatest member. *)
LEMMA HasGreatest ==
  ASSUME NEW T \in SUBSET Events, T # {}
  PROVE  \E x \in T : \A y \in T : y <= x
<1> DEFINE R == OpToRel(<, Nat)
           S == {LastEvent - t : t \in T}
<1>1. S \subseteq Nat
  <2>1. \A t \in T : LastEvent - t \in Nat
    BY LastEventAssumption DEF Events
  <2> QED BY <2>1
<1>2. S # {}
  OBVIOUS
<1>3. IsWellFoundedOn(R, Nat)
  BY NatLessThanWellFounded
<1>4. \A x, y \in Nat : x < y => <<x, y>> \in R
  BY DEF OpToRel
<1> HIDE DEF R
<1>5. \E x \in S : \A y \in S : ~ (<<y, x>> \in R)
  BY <1>1, <1>2, <1>3, WFMin
<1>6. PICK x \in S : \A y \in S : ~ (y < x)
  BY <1>1, <1>4, <1>5
<1>7. PICK t \in T : x = LastEvent - t
  OBVIOUS
<1>8. \A y \in T : y <= t
  BY <1>6, <1>7, LastEventAssumption DEF Events
<1> QED BY <1>8

(* A job that exists is a row, with all its columns. *)
LEMMA RowOfJob ==
  ASSUME JobsInv, NEW j \in Jobs, Exists(j)
  PROVE  /\ job[j] \in JobType
         /\ job[j].status \in Active \cup Ended /\ job[j].rule \in RuleIds
         /\ job[j].document \in Documents /\ job[j].version \in 1..MaxVersion
         /\ job[j].cutoff \subseteq Events /\ job[j].cursor \in 0..LastEvent
         /\ job[j].examined \in [Events -> Nat]
<1>1. job[j] \in {NoJob} \cup JobType
  BY DEF JobsInv
<1>2. job[j] # NoJob
  BY DEF Exists, NoJob
<1>3. job[j] \in JobType
  BY <1>1, <1>2
<1> QED BY <1>3 DEF JobType

(* What a worker holds, by what it is doing. *)
LEMMA TaskOfWorker ==
  ASSUME JobsInv, NEW w \in Workers
  PROVE  /\ worker[w].pc \in {"idle", "task", "failing", "batch"}
         /\ worker[w].pc # "idle" => worker[w].job \in Jobs
         /\ worker[w].pc = "batch" =>
              /\ worker[w].rules \in [RuleIds -> Documents \cup {Absent}]
              /\ worker[w].version \in 1..MaxVersion
              /\ worker[w].read \in BOOLEAN /\ worker[w].events \in SUBSET Events
              /\ worker[w].seen \in [Events -> Makers]
  BY DEF JobsInv, WorkerType, Idle

(* The columns of a job other than its status do not change with it. *)
LEMMA StatusChanges ==
  ASSUME JobsInv, NEW j \in Jobs, Exists(j), NEW s \in Active \cup Ended,
         job' = [job EXCEPT ![j].status = s]
  PROVE  /\ job' \in [Jobs -> {NoJob} \cup JobType]
         /\ \A k \in Jobs : /\ Exists(k)' <=> Exists(k)
                            /\ Exists(k) => /\ job'[k].cursor = job[k].cursor
                                            /\ job'[k].examined = job[k].examined
<1>1. job[j] \in JobType
  BY RowOfJob
<1>2. [job[j] EXCEPT !.status = s] \in JobType
  BY <1>1 DEF JobType
<1>3. job \in [Jobs -> {NoJob} \cup JobType]
  BY DEF JobsInv
<1>4. job' = [job EXCEPT ![j] = [job[j] EXCEPT !.status = s]]
  OBVIOUS
<1>5. job' \in [Jobs -> {NoJob} \cup JobType]
  BY <1>2, <1>3, <1>4
<1>6. \A k \in Jobs : k # j => job'[k] = job[k]
  BY <1>3, <1>4
<1>7. job'[j] = [job[j] EXCEPT !.status = s]
  BY <1>3, <1>4
<1>8. job'[j].status = s /\ job'[j].cursor = job[j].cursor /\ job'[j].examined = job[j].examined
  BY <1>1, <1>7 DEF JobType
<1>9. s # "none"
  BY DEF Active, Ended
<1> QED BY <1>5, <1>6, <1>8, <1>9 DEF Exists

(* So the invariant about jobs stays, whatever their status. *)
LEMMA PassedStays ==
  ASSUME Passed,
         \A k \in Jobs : /\ Exists(k)' <=> Exists(k)
                         /\ Exists(k) => /\ job'[k].cursor = job[k].cursor
                                         /\ job'[k].examined = job[k].examined
  PROVE  Passed'
  BY DEF Passed

(* Steps that leave jobs and tasks alone. *)
LEMMA JobsUntouched ==
  ASSUME JobsInv, UNCHANGED <<job, message, worker>>
  PROVE  JobsInv'
<1>1. job' = job /\ message' = message /\ worker' = worker
  OBVIOUS
<1>2. job' \in [Jobs -> {NoJob} \cup JobType] /\ worker' \in [Workers -> WorkerType]
  BY <1>1 DEF JobsInv
<1>3. message' \subseteq {j \in Jobs : Exists(j)'}
  BY <1>1 DEF JobsInv, Exists
<1>4. Held'
  BY <1>1 DEF JobsInv, Held, Exists
<1>5. OneBatch'
  BY <1>1 DEF JobsInv, OneBatch
<1>6. Passed'
  BY <1>1 DEF JobsInv, Passed, Exists
<1> QED BY <1>2, <1>3, <1>4, <1>5, <1>6 DEF JobsInv, WorkerType, JobType

(* Steps that leave rules, requests and events alone. *)
LEMMA EventsUntouched ==
  ASSUME EventsInv, UNCHANGED <<rules, version, intake, pending, mapping, request>>
  PROVE  EventsInv'
  BY DEF EventsInv, VersionRead, Unmapped

(* A worker that takes up a job: it holds no batch afterwards, or a batch  *)
(* of a job that nobody holds.                                             *)
LEMMA WorkerTurns ==
  ASSUME JobsInv, NEW w \in Workers,
         NEW state \in WorkerType,
         worker' = [worker EXCEPT ![w] = state],
         \A k \in Jobs : Exists(k) => Exists(k)',
         state.pc # "idle" => Exists(state.job),
         state.pc = "batch" =>
           \/ ~ Locked(state.job)
           \/ worker[w].pc = "batch" /\ worker[w].job = state.job
  PROVE  /\ worker' \in [Workers -> WorkerType]
         /\ Held' /\ OneBatch'
<1>1. worker' \in [Workers -> WorkerType]
  BY DEF JobsInv
<1>2. worker'[w] = state /\ \A v \in Workers : v # w => worker'[v] = worker[v]
  BY DEF JobsInv
<1>3. Held'
  <2> SUFFICES ASSUME NEW v \in Workers, worker'[v].pc # "idle"
               PROVE  Exists(worker[v].job)'
    BY DEF Held
  <2>1. CASE v = w
    <3>1. PICK j \in Jobs : j = state.job
      BY <1>2, <2>1 DEF WorkerType, Idle
    <3>2. Exists(j)'
      BY <1>2, <2>1, <3>1
    <3> QED BY <1>2, <2>1, <3>1, <3>2 DEF Exists
  <2>2. CASE v # w
    <3>1. worker[v].pc # "idle" /\ Exists(worker[v].job)
      BY <1>2, <2>2 DEF JobsInv, Held
    <3>2. PICK j \in Jobs : j = worker[v].job
      BY <3>1, TaskOfWorker
    <3>3. Exists(j)'
      BY <3>1, <3>2
    <3> QED BY <1>2, <2>2, <3>2, <3>3 DEF Exists
  <2> QED BY <2>1, <2>2
<1>4. OneBatch'
  <2> SUFFICES ASSUME NEW u \in Workers, NEW v \in Workers,
                      worker'[u].pc = "batch", worker'[v].pc = "batch",
                      worker'[u].job = worker'[v].job, u # v
               PROVE  FALSE
    BY DEF OneBatch
  <2>1. CASE u = w
    <3>1. state.pc = "batch" /\ worker[v].pc = "batch" /\ worker[v].job = state.job
      BY <1>2, <2>1
    <3> QED BY <2>1, <3>1 DEF Locked, JobsInv, OneBatch
  <2>2. CASE v = w
    <3>1. state.pc = "batch" /\ worker[u].pc = "batch" /\ worker[u].job = state.job
      BY <1>2, <2>2
    <3> QED BY <2>2, <3>1 DEF Locked, JobsInv, OneBatch
  <2>3. CASE u # w /\ v # w
    BY <1>2, <2>3 DEF JobsInv, OneBatch
  <2> QED BY <2>1, <2>2, <2>3
<1> QED BY <1>1, <1>3, <1>4

(* A task that is posted for a job that exists. *)
LEMMA MessagePosted ==
  ASSUME JobsInv, NEW j \in Jobs, Exists(j), message' = message \cup {j},
         UNCHANGED <<job, worker>>
  PROVE  JobsInv'
<1>1. job' = job /\ worker' = worker
  OBVIOUS
<1>2. job' \in [Jobs -> {NoJob} \cup JobType] /\ worker' \in [Workers -> WorkerType]
  BY <1>1 DEF JobsInv
<1>3. message' \subseteq {k \in Jobs : Exists(k)'}
  BY <1>1 DEF JobsInv, Exists
<1>4. Held'
  BY <1>1 DEF JobsInv, Held, Exists
<1>5. OneBatch'
  BY <1>1 DEF JobsInv, OneBatch
<1>6. Passed'
  BY <1>1 DEF JobsInv, Passed, Exists
<1> QED BY <1>2, <1>3, <1>4, <1>5, <1>6 DEF JobsInv, WorkerType, JobType
-----------------------------------------------------------------------------
(* Intake and administrators. *)

LEMMA EvaluateKeeps ==
  ASSUME EventsInv, NEW e \in Events, Evaluate(e)
  PROVE  EventsInv'
<1>1. PICK maker \in (IF Supporters(rules, e) = {} THEN {Nobody} ELSE Supporters(rules, e)) :
        pending' = [pending EXCEPT ![e] = maker]
  BY DEF Evaluate
<1>2. maker \in Makers
  BY DEF Makers, Supporters
<1>3. pending' \in [Events -> Makers]
  BY <1>1, <1>2 DEF EventsInv
<1>4. intake' \in [Events -> {"none", "evaluated", "stored"}]
  BY DEF Evaluate, EventsInv
<1>5. Unmapped'
  BY DEF Evaluate, EventsInv, Unmapped
<1> QED BY <1>3, <1>4, <1>5 DEF Evaluate, EventsInv, VersionRead

LEMMA CommitEventKeeps ==
  ASSUME EventsInv, NEW e \in Events, CommitEvent(e)
  PROVE  EventsInv'
<1>1. /\ intake' \in [Events -> {"none", "evaluated", "stored"}]
      /\ mapping' \in [Events -> Makers] /\ pending' \in [Events -> Makers]
  BY DEF CommitEvent, EventsInv, Makers
<1>2. Unmapped'
  BY DEF CommitEvent, EventsInv, Unmapped
<1> QED BY <1>1, <1>2 DEF CommitEvent, EventsInv, VersionRead

LEMMA MapByHandKeeps ==
  ASSUME EventsInv, NEW e \in Events, MapByHand(e)
  PROVE  EventsInv'
<1>1. mapping' \in [Events -> Makers]
  BY DEF MapByHand, EventsInv, Makers
<1>2. Unmapped'
  BY DEF MapByHand, EventsInv, Unmapped, Stored
<1> QED BY <1>1, <1>2 DEF MapByHand, EventsInv, VersionRead

LEMMA SaveRuleKeeps ==
  ASSUME EventsInv, NEW r \in RuleIds, NEW document \in Documents \cup {Absent},
         NEW apply \in BOOLEAN, SaveRule(r, document, apply)
  PROVE  EventsInv'
<1>1. rules' \in [RuleIds -> Documents \cup {Absent}]
  BY DEF SaveRule, EventsInv
<1>2. version' = version + 1 /\ version' \in 1..MaxVersion
  BY MaxVersionAssumption DEF SaveRule, EventsInv
<1>3. /\ request' \in {NoRequest} \cup
           [pc : {"read", "queue"}, rule : RuleIds, document : Documents, version : 0..MaxVersion]
      /\ VersionRead'
  <2>1. CASE apply
    <3>1. /\ document \in Documents
          /\ request' = [pc |-> "queue", rule |-> r, document |-> document,
                         version |-> version + 1]
      BY <2>1 DEF SaveRule
    <3>2. version + 1 \in 0..MaxVersion /\ version + 1 # 0
      BY <1>2, MaxVersionAssumption
    <3> QED BY <3>1, <3>2 DEF VersionRead
  <2>2. CASE ~ apply
    BY <2>2 DEF SaveRule, EventsInv, VersionRead
  <2> QED BY <2>1, <2>2
<1> QED BY <1>1, <1>2, <1>3 DEF SaveRule, EventsInv, Unmapped

LEMMA StartReadKeeps ==
  ASSUME EventsInv, NEW r \in RuleIds, StartRead(r)
  PROVE  EventsInv'
<1>1. rules[r] \in Documents
  BY DEF StartRead, EventsInv
<1>2. /\ request' \in [pc : {"read", "queue"}, rule : RuleIds, document : Documents,
                       version : 0..MaxVersion]
      /\ VersionRead'
  BY <1>1, MaxVersionAssumption DEF StartRead, VersionRead
<1> QED BY <1>2 DEF StartRead, EventsInv, Unmapped

LEMMA StartVersionKeeps ==
  ASSUME EventsInv, StartVersion
  PROVE  EventsInv'
<1>1. request \in [pc : {"read", "queue"}, rule : RuleIds, document : Documents,
                   version : 0..MaxVersion]
  BY DEF StartVersion, EventsInv, NoRequest
<1>2. version \in 0..MaxVersion /\ version # 0
  BY MaxVersionAssumption DEF EventsInv
<1>3. /\ request' \in [pc : {"read", "queue"}, rule : RuleIds, document : Documents,
                       version : 0..MaxVersion]
      /\ request'.version = version
  BY <1>1, <1>2 DEF StartVersion
<1>4. VersionRead'
  BY <1>2, <1>3 DEF VersionRead
<1> QED BY <1>3, <1>4 DEF StartVersion, EventsInv, Unmapped

(* A job is queued with nothing examined, and its row exists before a task *)
(* names it.                                                               *)
LEMMA QueueJobKeeps ==
  ASSUME JobsInv, EventsInv, QueueJob
  PROVE  JobsInv' /\ EventsInv'
<1>1. /\ request' = NoRequest
      /\ UNCHANGED <<rules, version, intake, pending, mapping, worker>>
  BY DEF QueueJob
<1>2. EventsInv'
  BY <1>1 DEF EventsInv, VersionRead, Unmapped, NoRequest
<1>3. CASE UNCHANGED <<job, message>>
  BY <1>1, <1>2, <1>3, JobsUntouched
<1>4. CASE ~ UNCHANGED <<job, message>>
  <2> DEFINE row ==
        [status |-> "queued", rule |-> request.rule,
         document |-> request.document, version |-> request.version,
         cutoff |-> {e \in Events : intake[e] # "none"}, cursor |-> 0,
         examined |-> [e \in Events |-> 0], made |-> version,
         calm |-> /\ \A e \in Events : intake[e] # "evaluated"
                  /\ \A w \in Workers : worker[w].pc # "batch"]
  <2>1. PICK j \in Jobs : /\ ~ Exists(j)
                          /\ job' = [job EXCEPT ![j] = row]
                          /\ message' \in {message \cup {j}, message}
    BY <1>4 DEF QueueJob
  <2>2. row \in JobType
    <3>1. request \in [pc : {"read", "queue"}, rule : RuleIds, document : Documents,
                       version : 0..MaxVersion]
      BY DEF QueueJob, EventsInv, NoRequest
    <3>2. request.version \in 1..MaxVersion
      BY <3>1, MaxVersionAssumption DEF QueueJob, EventsInv, VersionRead
    <3>3. version \in 1..MaxVersion
      BY DEF EventsInv
    <3>4. 0 \in 0..LastEvent
      BY LastEventAssumption
    <3>5. row.examined \in [Events -> Nat]
      OBVIOUS
    <3>6. row.cutoff \in SUBSET Events
      OBVIOUS
    <3>7. row.calm \in BOOLEAN
      OBVIOUS
    <3> HIDE DEF JobType
    <3>8. /\ row.status = "queued" /\ row.rule = request.rule
          /\ row.document = request.document /\ row.version = request.version
          /\ row.cursor = 0 /\ row.made = version
      OBVIOUS
    <3> QED BY <3>1, <3>2, <3>3, <3>4, <3>5, <3>6, <3>7 DEF JobType, Active
  <2>3. row.status = "queued" /\ row.cursor = 0 /\ row.examined = [e \in Events |-> 0]
    OBVIOUS
  <2> HIDE DEF row
  <2>4. /\ job'[j] = row /\ \A k \in Jobs : k # j => job'[k] = job[k]
        /\ job' \in [Jobs -> {NoJob} \cup JobType]
    BY <2>1, <2>2 DEF JobsInv
  <2>5. Exists(j)' /\ \A k \in Jobs : Exists(k) => Exists(k)'
    BY <2>1, <2>3, <2>4 DEF Exists
  <2>6. message' \subseteq {k \in Jobs : Exists(k)'}
    BY <2>1, <2>5 DEF JobsInv
  <2>7. worker' \in [Workers -> WorkerType] /\ OneBatch'
    BY <1>1 DEF JobsInv, OneBatch
  <2>8. Held'
    <3> SUFFICES ASSUME NEW w \in Workers, worker'[w].pc # "idle"
                 PROVE  Exists(worker[w].job)'
      BY DEF Held
    <3>1. worker[w].pc # "idle" /\ Exists(worker[w].job)
      BY <1>1 DEF JobsInv, Held
    <3>2. PICK k \in Jobs : k = worker[w].job
      BY <3>1, TaskOfWorker
    <3>3. Exists(k)'
      BY <2>5, <3>1, <3>2
    <3> QED BY <1>1, <3>2, <3>3 DEF Exists
  <2>9. Passed'
    <3> SUFFICES ASSUME NEW k \in Jobs, Exists(k)', NEW e \in Events
                 PROVE  /\ job'[k].examined[e] <= 1
                        /\ e > job'[k].cursor => job'[k].examined[e] = 0
      BY DEF Passed
    <3>1. CASE k = j
      BY <2>3, <2>4, <3>1
    <3>2. CASE k # j
      BY <2>4, <3>2 DEF JobsInv, Passed, Exists
    <3> QED BY <3>1, <3>2
  <2> QED BY <1>2, <2>4, <2>6, <2>7, <2>8, <2>9 DEF JobsInv, WorkerType, JobType
<1> QED BY <1>2, <1>3, <1>4

(* A job whose status changes while no task turns, or one worker lets go.  *)
LEMMA CancelJobKeeps ==
  ASSUME JobsInv, NEW j \in Jobs, CancelJob(j)
  PROVE  JobsInv'
<1>1. Exists(j)
  BY DEF CancelJob, ActiveJob, Active, Exists
<1>2. /\ job' = [job EXCEPT ![j].status = "cancelled"] /\ message' = message
      /\ worker' = worker /\ "cancelled" \in Active \cup Ended
  BY DEF CancelJob, Ended
<1>3. /\ job' \in [Jobs -> {NoJob} \cup JobType]
      /\ \A k \in Jobs : /\ Exists(k)' <=> Exists(k)
                         /\ Exists(k) => /\ job'[k].cursor = job[k].cursor
                                         /\ job'[k].examined = job[k].examined
  BY <1>1, <1>2, StatusChanges
<1>4. Passed'
  BY <1>3, PassedStays DEF JobsInv
<1>5. message' \subseteq {k \in Jobs : Exists(k)'}
  BY <1>2, <1>3 DEF JobsInv
<1>6. worker' \in [Workers -> WorkerType] /\ OneBatch'
  BY <1>2 DEF JobsInv, OneBatch
<1>7. Held'
  <2> SUFFICES ASSUME NEW w \in Workers, worker'[w].pc # "idle"
               PROVE  Exists(worker[w].job)'
    BY DEF Held
  <2>1. worker[w].pc # "idle" /\ Exists(worker[w].job)
    BY <1>2 DEF JobsInv, Held
  <2>2. PICK k \in Jobs : k = worker[w].job
    BY <2>1, TaskOfWorker
  <2>3. Exists(k)'
    BY <1>3, <2>1, <2>2
  <2> QED BY <1>2, <2>2, <2>3 DEF Exists
<1> QED BY <1>3, <1>4, <1>5, <1>6, <1>7 DEF JobsInv, WorkerType, JobType
-----------------------------------------------------------------------------
(* Workers. *)

(* A worker turns, and the jobs stay. *)
LEMMA OnlyTurns ==
  ASSUME JobsInv, NEW w \in Workers, NEW state \in WorkerType,
         worker' = [worker EXCEPT ![w] = state], UNCHANGED job,
         message' \subseteq message,
         state.pc # "idle" => Exists(state.job),
         state.pc = "batch" =>
           \/ ~ Locked(state.job)
           \/ worker[w].pc = "batch" /\ worker[w].job = state.job
  PROVE  JobsInv'
<1>1. \A k \in Jobs : Exists(k)' <=> Exists(k)
  BY DEF Exists
<1>2. worker' \in [Workers -> WorkerType] /\ Held' /\ OneBatch'
  BY <1>1, WorkerTurns
<1>3. job' \in [Jobs -> {NoJob} \cup JobType]
  BY DEF JobsInv
<1>4. message' \subseteq {k \in Jobs : Exists(k)'}
  BY <1>1 DEF JobsInv
<1>5. Passed'
  BY DEF JobsInv, Passed, Exists
<1> QED BY <1>2, <1>3, <1>4, <1>5 DEF JobsInv, WorkerType, JobType

LEMMA ReceiveKeeps ==
  ASSUME JobsInv, NEW w \in Workers, NEW j \in Jobs, Receive(w, j)
  PROVE  JobsInv'
<1> DEFINE state == [pc |-> "task", job |-> j]
<1>1. Exists(j)
  BY DEF Receive, JobsInv
<1>2. state \in WorkerType /\ state.pc = "task" /\ state.job = j
  BY DEF WorkerType
<1>3. /\ worker' = [worker EXCEPT ![w] = state] /\ UNCHANGED job
      /\ message' \subseteq message
  BY DEF Receive
<1> HIDE DEF state
<1> QED BY <1>1, <1>2, <1>3, OnlyTurns

LEMMA WorkerDiesKeeps ==
  ASSUME JobsInv, NEW w \in Workers, WorkerDies(w)
  PROVE  JobsInv'
<1>1. Idle \in WorkerType /\ Idle.pc = "idle"
  BY DEF WorkerType, Idle
<1>2. /\ worker' = [worker EXCEPT ![w] = Idle] /\ UNCHANGED job
      /\ message' \subseteq message
  BY DEF WorkerDies
<1> QED BY <1>1, <1>2, OnlyTurns

LEMMA RaiseKeeps ==
  ASSUME JobsInv, NEW w \in Workers, Raise(w)
  PROVE  JobsInv'
<1> DEFINE failing == [pc |-> "failing", job |-> worker[w].job]
<1>1. worker[w].job \in Jobs /\ Exists(worker[w].job)
  BY TaskOfWorker DEF Raise, JobsInv, Held
<1>2. failing \in WorkerType /\ failing.pc = "failing" /\ failing.job = worker[w].job
  BY <1>1 DEF WorkerType
<1>3. Idle \in WorkerType /\ Idle.pc = "idle"
  BY DEF WorkerType, Idle
<1>4. UNCHANGED job /\ message' \subseteq message
  BY DEF Raise
<1>5. \/ worker' = [worker EXCEPT ![w] = Idle]
      \/ worker' = [worker EXCEPT ![w] = failing]
  BY DEF Raise
<1> HIDE DEF failing
<1>6. CASE worker' = [worker EXCEPT ![w] = Idle]
  BY <1>3, <1>4, <1>6, OnlyTurns
<1>7. CASE worker' = [worker EXCEPT ![w] = failing]
  BY <1>1, <1>2, <1>4, <1>7, OnlyTurns
<1> QED BY <1>5, <1>6, <1>7

LEMMA RecoverKeeps ==
  ASSUME JobsInv, NEW j \in Jobs, Recover(j)
  PROVE  JobsInv'
<1>1. Exists(j)
  BY DEF Recover, ActiveJob, Active, Exists
<1> QED BY <1>1, MessagePosted DEF Recover

(* A worker that lets go of a job whose status it sets. *)
LEMMA LetsGo ==
  ASSUME JobsInv, NEW w \in Workers, NEW j \in Jobs, Exists(j), NEW s \in Active \cup Ended,
         job' = [job EXCEPT ![j].status = s], worker' = [worker EXCEPT ![w] = Idle],
         UNCHANGED message
  PROVE  JobsInv'
<1>1. /\ job' \in [Jobs -> {NoJob} \cup JobType]
      /\ \A k \in Jobs : /\ Exists(k)' <=> Exists(k)
                         /\ Exists(k) => /\ job'[k].cursor = job[k].cursor
                                         /\ job'[k].examined = job[k].examined
  BY StatusChanges
<1>2. Idle \in WorkerType /\ Idle.pc = "idle"
  BY DEF WorkerType, Idle
<1>3. worker' \in [Workers -> WorkerType] /\ Held' /\ OneBatch'
  BY <1>1, <1>2, WorkerTurns
<1>4. Passed'
  BY <1>1, PassedStays DEF JobsInv
<1>5. message' \subseteq {k \in Jobs : Exists(k)'}
  BY <1>1 DEF JobsInv
<1> QED BY <1>1, <1>3, <1>4, <1>5 DEF JobsInv, WorkerType, JobType

LEMMA RecordFailureKeeps ==
  ASSUME JobsInv, NEW w \in Workers, RecordFailure(w)
  PROVE  JobsInv'
<1>1. worker[w].job \in Jobs /\ Exists(worker[w].job)
  BY TaskOfWorker DEF RecordFailure, JobsInv, Held
<1>2. "failed" \in Active \cup Ended
  BY DEF Ended
<1> QED BY <1>1, <1>2, LetsGo DEF RecordFailure

LEMMA BeginBatchKeeps ==
  ASSUME JobsInv, EventsInv, NEW w \in Workers, BeginBatch(w)
  PROVE  JobsInv'
<1>1. PICK j \in Jobs : j = worker[w].job /\ Exists(j)
  BY TaskOfWorker DEF BeginBatch, JobsInv, Held
<1> DEFINE batch == NewBatch(j)
<1>2. /\ batch \in WorkerType /\ batch.pc = "batch" /\ batch.job = j
  BY DEF WorkerType, EventsInv, NewBatch, Makers
<1>3. Idle \in WorkerType /\ Idle.pc = "idle"
  BY DEF WorkerType, Idle
<1>4. UNCHANGED message
  BY DEF BeginBatch
<1>5. \/ /\ worker' = [worker EXCEPT ![w] = Idle]
         /\ job' = job
      \/ /\ worker' = [worker EXCEPT ![w] = Idle]
         /\ job' = [job EXCEPT ![j].status = "superseded"]
      \/ /\ worker' = [worker EXCEPT ![w] = batch] /\ ~ Locked(j)
         /\ job' = job
  BY <1>1 DEF BeginBatch
<1> HIDE DEF batch
<1>6. CASE worker' = [worker EXCEPT ![w] = Idle] /\ job' = job
  BY <1>3, <1>4, <1>6, OnlyTurns
<1>7. CASE /\ worker' = [worker EXCEPT ![w] = Idle]
           /\ job' = [job EXCEPT ![j].status = "superseded"]
  <2>1. "superseded" \in Active \cup Ended
    BY DEF Ended
  <2> QED BY <1>1, <1>4, <1>7, <2>1, LetsGo
<1>8. CASE worker' = [worker EXCEPT ![w] = batch] /\ ~ Locked(j) /\ job' = job
  BY <1>1, <1>2, <1>4, <1>8, OnlyTurns
<1> QED BY <1>5, <1>6, <1>7, <1>8

(* A batch that reads its events and mappings. *)
LEMMA ReadBatchReads ==
  ASSUME JobsInv, EventsInv, NEW w \in Workers, ReadBatch(w)
  PROVE  LET j == worker[w].job
             batch == worker'[w]
         IN /\ worker[w].pc = "batch" /\ j \in Jobs /\ Exists(j)
            /\ batch \in WorkerType /\ batch.pc = "batch" /\ batch.job = j
            /\ batch.rules = worker[w].rules /\ batch.version = worker[w].version
            /\ batch.events = Batch(j)
            /\ batch.seen = [e \in Events |-> IF e \in Batch(j) THEN mapping[e] ELSE Nobody]
            /\ worker' = [worker EXCEPT ![w] = batch]
            /\ \A v \in Workers : v # w => worker'[v] = worker[v]
<1> DEFINE j == worker[w].job
           events == Batch(j)
           seen == [e \in Events |-> IF e \in events THEN mapping[e] ELSE Nobody]
           batch == WithEvents(worker[w], events)
<1>1. worker[w].pc = "batch" /\ j \in Jobs /\ Exists(j)
  BY TaskOfWorker DEF ReadBatch, JobsInv, Held
<1>2. worker[w] \in [pc : {"batch"}, job : Jobs, rules : [RuleIds -> Documents \cup {Absent}],
                     version : 1..MaxVersion, read : BOOLEAN, events : SUBSET Events,
                     seen : [Events -> Makers]]
  BY <1>1 DEF JobsInv, WorkerType, Idle
<1>3. events \in SUBSET Events /\ seen \in [Events -> Makers]
  BY DEF EventsInv, Batch, Remaining, Stored, Makers
<1>4. worker' = [worker EXCEPT ![w] = batch]
  BY DEF ReadBatch
<1>5. batch = [worker[w] EXCEPT !.read = TRUE, !.events = events, !.seen = seen]
  BY DEF WithEvents
<1> HIDE DEF events, seen, batch
<1>6. /\ batch \in WorkerType /\ batch.pc = "batch" /\ batch.job = j
      /\ batch.rules = worker[w].rules /\ batch.version = worker[w].version
      /\ batch.events = events /\ batch.seen = seen
  BY <1>1, <1>2, <1>3, <1>5 DEF WorkerType
<1>7. worker'[w] = batch /\ \A v \in Workers : v # w => worker'[v] = worker[v]
  BY <1>4 DEF JobsInv
<1> QED BY <1>1, <1>4, <1>6, <1>7 DEF events, seen

LEMMA ReadBatchKeeps ==
  ASSUME JobsInv, EventsInv, NEW w \in Workers, ReadBatch(w)
  PROVE  JobsInv'
<1>1. PICK j \in Jobs : j = worker[w].job /\ Exists(j)
  BY ReadBatchReads
<1>2. PICK batch \in WorkerType :
        /\ worker' = [worker EXCEPT ![w] = batch] /\ batch.pc = "batch" /\ batch.job = j
        /\ worker[w].pc = "batch"
  BY <1>1, ReadBatchReads
<1>3. UNCHANGED job /\ message' \subseteq message
  BY DEF ReadBatch
<1> QED BY <1>1, <1>2, <1>3, OnlyTurns

(* The cursor moves to the greatest event of the batch.                    *)
LEMMA CursorMovesOn ==
  ASSUME JobsInv, NEW j \in Jobs, Exists(j), NEW S \in SUBSET Events,
         \A e \in S : e > job[j].cursor
  PROVE  /\ BatchEnd(j, S) \in 0..LastEvent /\ job[j].cursor <= BatchEnd(j, S)
         /\ \A e \in S : e <= BatchEnd(j, S) /\ e > job[j].cursor
<1>1. job[j].cursor \in 0..LastEvent
  BY RowOfJob
<1>2. S \subseteq Events /\ \A e \in S : e > job[j].cursor
  OBVIOUS
<1>3. CASE S = {}
  BY <1>1, <1>3, LastEventAssumption DEF BatchEnd
<1>4. CASE S # {}
  <2>1. \E x \in S : \A y \in S : y <= x
    BY <1>2, <1>4, HasGreatest
  <2>2. BatchEnd(j, S) \in S /\ \A d \in S : d <= BatchEnd(j, S)
    BY <1>4, <2>1 DEF BatchEnd
  <2>3. BatchEnd(j, S) \in 1..LastEvent /\ BatchEnd(j, S) > job[j].cursor
    BY <1>2, <2>2 DEF Events
  <2>4. BatchEnd(j, S) \in 0..LastEvent /\ job[j].cursor <= BatchEnd(j, S)
    BY <1>1, <2>3, LastEventAssumption
  <2> QED BY <1>2, <2>2, <2>4
<1> QED BY <1>3, <1>4

(* What is beyond it was neither examined before nor is it examined now.   *)
LEMMA ExaminedGrows ==
  ASSUME JobsInv, NEW j \in Jobs, Exists(j), NEW S \in SUBSET Events,
         \A e \in S : e > job[j].cursor
  PROVE  /\ Examined(j, S) \in [Events -> Nat]
         /\ \A e \in Events :
              Examined(j, S)[e] <= 1 /\ (e > BatchEnd(j, S) => Examined(j, S)[e] = 0)
<1>1. job[j].examined \in [Events -> Nat] /\ job[j].cursor \in 0..LastEvent
  BY RowOfJob
<1>2. Examined(j, S) \in [Events -> Nat]
  BY <1>1 DEF Examined
<1>3. ASSUME NEW e \in Events
      PROVE  Examined(j, S)[e] <= 1 /\ (e > BatchEnd(j, S) => Examined(j, S)[e] = 0)
  <2>1. /\ job[j].examined[e] <= 1 /\ job[j].examined[e] \in Nat
        /\ e > job[j].cursor => job[j].examined[e] = 0
    BY <1>1 DEF JobsInv, Passed
  <2>2. BatchEnd(j, S) \in 0..LastEvent /\ job[j].cursor <= BatchEnd(j, S)
    BY CursorMovesOn
  <2>3. CASE e \in S
    <3>1. e <= BatchEnd(j, S) /\ e > job[j].cursor
      BY <2>3, CursorMovesOn
    <3>2. Examined(j, S)[e] = job[j].examined[e] + 1
      BY <2>3 DEF Examined
    <3>3. Examined(j, S)[e] = 1
      BY <2>1, <3>1, <3>2
    <3> QED BY <2>2, <3>1, <3>3, LastEventAssumption DEF Events
  <2>4. CASE e \notin S
    <3>1. Examined(j, S)[e] = job[j].examined[e]
      BY <2>4 DEF Examined
    <3>2. e > BatchEnd(j, S) => e > job[j].cursor
      BY <1>1, <2>2, LastEventAssumption DEF Events
    <3> QED BY <2>1, <3>1, <3>2
  <2> QED BY <2>3, <2>4
<1> QED BY <1>2, <1>3

(* A row of a job is replaced by one of which that is true. *)
LEMMA RowMovesOn ==
  ASSUME JobsInv, NEW j \in Jobs, Exists(j), NEW row \in JobType,
         \A e \in Events : row.examined[e] <= 1 /\ (e > row.cursor => row.examined[e] = 0),
         job' = [job EXCEPT ![j] = row]
  PROVE  /\ job' \in [Jobs -> {NoJob} \cup JobType]
         /\ \A k \in Jobs : Exists(k)' <=> Exists(k)
         /\ Passed'
<1>1. /\ job'[j] = row /\ \A k \in Jobs : k # j => job'[k] = job[k]
      /\ job' \in [Jobs -> {NoJob} \cup JobType]
  <2>1. job \in [Jobs -> {NoJob} \cup JobType]
    BY DEF JobsInv
  <2> QED BY <2>1
<1>2. row.status # "none"
  BY DEF JobType, Active, Ended
<1>3. \A k \in Jobs : Exists(k)' <=> Exists(k)
  BY <1>1, <1>2 DEF Exists
<1>4. Passed'
  <2> SUFFICES ASSUME NEW k \in Jobs, Exists(k)', NEW e \in Events
               PROVE  /\ job'[k].examined[e] <= 1
                      /\ e > job'[k].cursor => job'[k].examined[e] = 0
    BY DEF Passed
  <2>1. CASE k = j
    BY <1>1, <2>1
  <2>2. CASE k # j
    BY <1>1, <2>2 DEF JobsInv, Passed, Exists
  <2> QED BY <2>1, <2>2
<1> QED BY <1>1, <1>3, <1>4

(* What a batch that commits has read, and what it makes of it. *)
LEMMA BatchCommits ==
  ASSUME JobsInv, EventsInv, ReadsInv, NEW w \in Workers, CommitBatch(w)
  PROVE  /\ worker[w].pc = "batch" /\ worker[w].job \in Jobs /\ Exists(worker[w].job)
         /\ job[worker[w].job].rule \in RuleIds
         /\ worker[w].events \in SUBSET Events
         /\ \A e \in worker[w].events :
              intake[e] = "stored" /\ e > job[worker[w].job].cursor
         /\ mapping' \in [Events -> Makers]
         /\ \A e \in worker[w].events : mapping'[e] \in Reconciled(w, e)
         /\ \A e \in Events \ worker[w].events : mapping'[e] = mapping[e]
<1>1. /\ worker[w].pc = "batch" /\ worker[w].job \in Jobs /\ Exists(worker[w].job)
      /\ worker[w].events \in SUBSET Events
  BY TaskOfWorker DEF CommitBatch, JobsInv, Held
<1>2. job[worker[w].job].rule \in RuleIds
  BY <1>1, RowOfJob
<1>3. \A e \in worker[w].events : intake[e] = "stored" /\ e > job[worker[w].job].cursor
  BY <1>1 DEF ReadsInv
<1>4. PICK changed \in [worker[w].events -> Makers] :
        /\ \A e \in worker[w].events : changed[e] \in Reconciled(w, e)
        /\ mapping' = [e \in Events |-> IF e \in worker[w].events THEN changed[e] ELSE mapping[e]]
  BY DEF CommitBatch
<1>5. mapping \in [Events -> Makers]
  BY DEF EventsInv
<1> QED BY <1>1, <1>2, <1>3, <1>4, <1>5

(* A batch changes mappings of stored events, and of these only the ones   *)
(* it has locked, which are its rule's, and those that are not there;      *)
(* manual ones stay.                                                       *)
LEMMA BatchMaps ==
  ASSUME JobsInv, EventsInv, ReadsInv, NEW w \in Workers, CommitBatch(w)
  PROVE  /\ mapping' \in [Events -> Makers]
         /\ \A e \in Events : intake[e] # "stored" => mapping'[e] = mapping[e]
         /\ \A e \in Events : mapping[e] = Person => mapping'[e] = Person
         /\ \A e \in Events : mapping'[e] # mapping[e] =>
              e \in LockedRows(w) \/ mapping[e] = Nobody
<1> DEFINE own == job[worker[w].job].rule
           events == worker[w].events
<1>1. /\ worker[w].pc = "batch" /\ own \in RuleIds /\ events \in SUBSET Events
      /\ \A e \in events : intake[e] = "stored"
      /\ mapping' \in [Events -> Makers]
      /\ \A e \in events : mapping'[e] \in Reconciled(w, e)
      /\ \A e \in Events \ events : mapping'[e] = mapping[e]
  BY BatchCommits
<1>2. own # Nobody /\ own # Person
  BY <1>1, MakersAssumption
<1>3. \A e \in events : worker[w].seen[e] # Nobody => mapping[e] = worker[w].seen[e]
  BY <1>1 DEF ReadsInv
<1>4. ASSUME NEW e \in Events, mapping'[e] # mapping[e]
      PROVE  (e \in LockedRows(w) /\ mapping[e] = own) \/ mapping[e] = Nobody
  <2>1. e \in events /\ mapping'[e] \in Reconciled(w, e)
    BY <1>1, <1>4
  <2>2. worker[w].seen[e] = own \/ mapping[e] = Nobody
    BY <1>4, <2>1 DEF Reconciled
  <2> QED BY <1>1, <1>2, <1>3, <2>1, <2>2 DEF LockedRows
<1>5. \A e \in Events : mapping[e] = Person => mapping'[e] = Person
  BY <1>2, <1>4, MakersAssumption
<1>6. \A e \in Events : intake[e] # "stored" => mapping'[e] = mapping[e]
  BY <1>1
<1> QED BY <1>1, <1>4, <1>5, <1>6

LEMMA CommitBatchKeeps ==
  ASSUME JobsInv, EventsInv, ReadsInv, NEW w \in Workers, CommitBatch(w)
  PROVE  JobsInv' /\ EventsInv'
<1> DEFINE j == worker[w].job
           events == worker[w].events
<1>1. /\ j \in Jobs /\ Exists(j) /\ events \in SUBSET Events
      /\ \A e \in events : e > job[j].cursor
  BY BatchCommits
<1>2. worker[w].version \in 1..MaxVersion
  BY TaskOfWorker DEF CommitBatch
<1>3. EventsInv'
  <2>1. /\ mapping' \in [Events -> Makers]
        /\ \A e \in Events : intake[e] # "stored" => mapping'[e] = mapping[e]
    BY BatchMaps
  <2>2. UNCHANGED <<rules, version, intake, pending, request>>
    BY DEF CommitBatch
  <2>3. Unmapped'
    BY <2>1, <2>2 DEF EventsInv, Unmapped
  <2> QED BY <2>1, <2>2, <2>3 DEF EventsInv, VersionRead
<1> DEFINE full == Cardinality(events) = BatchSize
           after == IF full THEN "running" ELSE "completed"
           task == [pc |-> "task", job |-> j]
<1>4. after \in Active \cup Ended
  BY DEF Active, Ended
<1>5. job' = [job EXCEPT ![j] = [@ EXCEPT
        !.version = worker[w].version, !.status = after,
        !.cursor = BatchEnd(j, events), !.examined = Examined(j, events)]]
  BY DEF CommitBatch
<1>6. \/ worker' = [worker EXCEPT ![w] = task] /\ message' = message
      \/ worker' = [worker EXCEPT ![w] = Idle] /\ message' = message \cup {j}
      \/ worker' = [worker EXCEPT ![w] = Idle] /\ message' = message
  BY DEF CommitBatch
<1>7. task \in WorkerType /\ task.pc = "task" /\ task.job = j
  BY <1>1 DEF WorkerType
<1>8. Idle \in WorkerType /\ Idle.pc = "idle"
  BY DEF WorkerType, Idle
<1> HIDE DEF j, events, after, task
<1>9. /\ job' \in [Jobs -> {NoJob} \cup JobType]
      /\ \A k \in Jobs : Exists(k)' <=> Exists(k)
      /\ Passed'
  <2> DEFINE end == BatchEnd(j, events)
             examined == Examined(j, events)
             row == [job[j] EXCEPT !.version = worker[w].version, !.status = after,
                                   !.cursor = end, !.examined = examined]
  <2>1. job' = [job EXCEPT ![j] = row]
    BY <1>5
  <2>2. end \in 0..LastEvent
    BY <1>1, CursorMovesOn
  <2>3. /\ examined \in [Events -> Nat]
        /\ \A e \in Events : examined[e] <= 1 /\ (e > end => examined[e] = 0)
    BY <1>1, ExaminedGrows
  <2>4. job[j] \in JobType
    BY <1>1, RowOfJob
  <2> HIDE DEF end, examined
  <2>5. row \in JobType /\ row.cursor = end /\ row.examined = examined
    BY <1>2, <1>4, <2>2, <2>3, <2>4 DEF JobType
  <2> HIDE DEF row
  <2> QED BY <1>1, <2>1, <2>3, <2>5, RowMovesOn
<1>10. worker' \in [Workers -> WorkerType] /\ Held' /\ OneBatch'
  <2>1. CASE worker' = [worker EXCEPT ![w] = task]
    BY <1>1, <1>7, <1>9, <2>1, WorkerTurns
  <2>2. CASE worker' = [worker EXCEPT ![w] = Idle]
    BY <1>8, <1>9, <2>2, WorkerTurns
  <2> QED BY <1>6, <2>1, <2>2
<1>11. message' \subseteq message \cup {j}
  BY <1>6
<1>12. message' \subseteq {k \in Jobs : Exists(k)'}
  BY <1>1, <1>9, <1>11 DEF JobsInv
<1> QED BY <1>3, <1>9, <1>10, <1>12 DEF JobsInv, WorkerType, JobType
-----------------------------------------------------------------------------
(* What batches have read stays as they have read it. *)

(* A row that keeps its columns and does not become completed.             *)
SameRow(k) ==
  /\ Exists(k)' <=> Exists(k)
  /\ Exists(k) =>
       /\ job'[k].rule = job[k].rule /\ job'[k].document = job[k].document
       /\ job'[k].version = job[k].version /\ job'[k].cutoff = job[k].cutoff
       /\ job'[k].cursor = job[k].cursor /\ job'[k].made = job[k].made
       /\ job'[k].calm = job[k].calm
       /\ job'[k].status = "completed" => job[k].status = "completed"

(* A batch that goes on, or that has just read the saved rules.            *)
SameBatch(w) ==
  worker'[w].pc = "batch" =>
    worker'[w] = worker[w] \/ worker'[w] = NewBatch(worker'[w].job)

(* A mapping that stays, or that a person makes where there is none.       *)
SameMapping(e) ==
  intake[e] = "stored" =>
    mapping'[e] = mapping[e] \/ (mapping[e] = Nobody /\ mapping'[e] = Person)

LEMMA NewBatchIs ==
  ASSUME NEW j
  PROVE  /\ NewBatch(j).pc = "batch" /\ NewBatch(j).rules = rules
         /\ NewBatch(j).version = version /\ NewBatch(j).read = FALSE
         /\ NewBatch(j).events = {}
  BY DEF NewBatch

LEMMA SameRows ==
  ASSUME UNCHANGED job PROVE \A k \in Jobs : SameRow(k)
  BY DEF SameRow, Exists

LEMMA SameBatches ==
  ASSUME UNCHANGED worker PROVE \A w \in Workers : SameBatch(w)
  BY DEF SameBatch

LEMMA ColumnsStay ==
  ASSUME JobsInv, NEW j \in Jobs, Exists(j), NEW s \in (Active \cup Ended) \ {"completed"},
         job' = [job EXCEPT ![j].status = s]
  PROVE  \A k \in Jobs : SameRow(k)
<1>1. job[j] \in JobType
  BY RowOfJob
<1>2. job \in [Jobs -> {NoJob} \cup JobType]
  BY DEF JobsInv
<1>3. job' = [job EXCEPT ![j] = [job[j] EXCEPT !.status = s]]
  OBVIOUS
<1>4. job'[j] = [job[j] EXCEPT !.status = s] /\ \A k \in Jobs : k # j => job'[k] = job[k]
  BY <1>2, <1>3
<1>5. /\ job'[j].status = s /\ job'[j].rule = job[j].rule /\ job'[j].document = job[j].document
      /\ job'[j].version = job[j].version /\ job'[j].cutoff = job[j].cutoff
      /\ job'[j].cursor = job[j].cursor /\ job'[j].made = job[j].made
      /\ job'[j].calm = job[j].calm
  BY <1>1, <1>4 DEF JobType
<1>6. s # "none" /\ s # "completed"
  BY DEF Active, Ended
<1> QED BY <1>4, <1>5, <1>6 DEF SameRow, Exists

LEMMA WorkerMoves ==
  ASSUME JobsInv, NEW w \in Workers, NEW state, worker' = [worker EXCEPT ![w] = state],
         state.pc = "batch" => state = NewBatch(state.job)
  PROVE  \A v \in Workers : SameBatch(v)
<1>1. worker'[w] = state /\ \A v \in Workers : v # w => worker'[v] = worker[v]
  BY DEF JobsInv
<1> QED BY <1>1 DEF SameBatch

LEMMA ReadsStay ==
  ASSUME JobsInv, ReadsInv,
         \A k \in Jobs : Exists(k) => job'[k].cursor = job[k].cursor,
         \A w \in Workers : SameBatch(w),
         \A e \in Events : SameMapping(e) /\ (intake[e] = "stored" => intake'[e] = "stored")
  PROVE  ReadsInv'
<1>1. ASSUME NEW w \in Workers, worker'[w].pc = "batch"
      PROVE  worker'[w] = worker[w] \/ worker'[w].events = {}
  BY <1>1, NewBatchIs DEF SameBatch
<1>2. ASSUME NEW w \in Workers
      PROVE  LockedRows(w)' \subseteq LockedRows(w)
  BY <1>1 DEF LockedRows
<1>3. ASSUME NEW w \in Workers, worker'[w].pc = "batch", NEW e \in worker'[w].events
      PROVE  /\ intake'[e] = "stored" /\ e > job'[worker'[w].job].cursor
             /\ worker'[w].seen[e] # Nobody => mapping'[e] = worker'[w].seen[e]
  <2>1. worker'[w] = worker[w]
    BY <1>1, <1>3
  <2>2. PICK j \in Jobs : j = worker[w].job /\ Exists(j)
    BY <1>3, <2>1, TaskOfWorker DEF JobsInv, Held
  <2>3. e \in Events
    BY <1>3, <2>1, TaskOfWorker
  <2>4. /\ intake[e] = "stored" /\ e > job[j].cursor
        /\ worker[w].seen[e] # Nobody => mapping[e] = worker[w].seen[e]
    BY <1>3, <2>1, <2>2 DEF ReadsInv
  <2>5. mapping[e] # Nobody => mapping'[e] = mapping[e]
    BY <2>3, <2>4 DEF SameMapping
  <2> QED BY <2>1, <2>2, <2>3, <2>4, <2>5
<1>4. ASSUME NEW w \in Workers, worker'[w].pc = "batch", NEW v \in Workers \ {w}
      PROVE  LockedRows(v)' \cap LockedRows(w)' = {}
  <2>1. CASE worker'[w] = worker[w]
    BY <1>2, <1>4, <2>1 DEF ReadsInv
  <2>2. CASE worker'[w].events = {}
    BY <2>2 DEF LockedRows
  <2> QED BY <1>1, <1>4, <2>1, <2>2
<1> QED BY <1>3, <1>4 DEF ReadsInv

LEMMA ReadBatchLocks ==
  ASSUME JobsInv, EventsInv, ReadsInv, NEW w \in Workers, ReadBatch(w)
  PROVE  ReadsInv'
<1>1. PICK j \in Jobs : j = worker[w].job /\ Exists(j)
  BY ReadBatchReads
<1>2. /\ worker'[w].job = j /\ worker'[w].events = Batch(j)
      /\ worker'[w].seen = [e \in Events |-> IF e \in Batch(j) THEN mapping[e] ELSE Nobody]
      /\ \A v \in Workers : v # w => worker'[v] = worker[v]
  BY <1>1, ReadBatchReads
<1>3. UNCHANGED <<intake, mapping, job>> /\ \A v \in Workers : LockedRows(v) \cap Batch(j) = {}
  BY <1>1 DEF ReadBatch
<1>4. \A e \in Batch(j) : e \in Events /\ intake[e] = "stored" /\ e > job[j].cursor
  BY DEF Batch, Remaining, Stored
<1>5. \A e \in Batch(j) : /\ intake'[e] = "stored" /\ e > job'[j].cursor
                          /\ worker'[w].seen[e] # Nobody => mapping'[e] = worker'[w].seen[e]
  BY <1>2, <1>3, <1>4
<1>6. LockedRows(w)' \subseteq Batch(j) /\ \A v \in Workers : v # w => LockedRows(v)' = LockedRows(v)
  BY <1>2 DEF LockedRows
<1>7. ASSUME NEW v \in Workers, v # w, worker'[v].pc = "batch"
      PROVE  /\ \A e \in worker'[v].events :
                  /\ intake'[e] = "stored" /\ e > job'[worker'[v].job].cursor
                  /\ worker'[v].seen[e] # Nobody => mapping'[e] = worker'[v].seen[e]
             /\ \A u \in Workers \ {v} : LockedRows(u)' \cap LockedRows(v)' = {}
  <2>1. worker'[v] = worker[v]
    BY <1>2, <1>7
  <2>2. \A e \in worker'[v].events :
          /\ intake'[e] = "stored" /\ e > job'[worker'[v].job].cursor
          /\ worker'[v].seen[e] # Nobody => mapping'[e] = worker'[v].seen[e]
    BY <1>3, <1>7, <2>1 DEF ReadsInv
  <2>3. ASSUME NEW u \in Workers \ {v}
        PROVE  LockedRows(u)' \cap LockedRows(v)' = {}
    <3>1. CASE u = w
      BY <1>3, <1>6, <1>7, <3>1
    <3>2. CASE u # w
      BY <1>6, <1>7, <2>1, <3>2 DEF ReadsInv
    <3> QED BY <3>1, <3>2
  <2> QED BY <2>2, <2>3
<1>8. \A u \in Workers \ {w} : LockedRows(u)' \cap LockedRows(w)' = {}
  BY <1>3, <1>6
<1>9. \A e \in worker'[w].events :
        /\ intake'[e] = "stored" /\ e > job'[worker'[w].job].cursor
        /\ worker'[w].seen[e] # Nobody => mapping'[e] = worker'[w].seen[e]
  BY <1>2, <1>5
<1> QED BY <1>7, <1>8, <1>9 DEF ReadsInv

LEMMA CommitBatchLeaves ==
  ASSUME JobsInv, EventsInv, ReadsInv, NEW w \in Workers, CommitBatch(w)
  PROVE  /\ \A v \in Workers : worker'[v].pc = "batch" =>
              v # w /\ worker'[v] = worker[v] /\ worker[v].job # worker[w].job
         /\ \A k \in Jobs : k # worker[w].job => job'[k] = job[k]
<1>1. worker[w].pc = "batch" /\ worker[w].job \in Jobs
  BY BatchCommits
<1>2. \A v \in Workers : worker'[v].pc = "batch" => v # w /\ worker'[v] = worker[v]
  BY <1>1 DEF CommitBatch, Idle, JobsInv
<1>3. \A k \in Jobs : k # worker[w].job => job'[k] = job[k]
  BY <1>1 DEF CommitBatch, JobsInv
<1> QED BY <1>1, <1>2, <1>3 DEF JobsInv, OneBatch

LEMMA CommitBatchLocks ==
  ASSUME JobsInv, EventsInv, ReadsInv, NEW w \in Workers, CommitBatch(w)
  PROVE  ReadsInv'
<1>1. \A v \in Workers : worker'[v].pc = "batch" =>
        v # w /\ worker'[v] = worker[v] /\ worker[v].job # worker[w].job
  BY CommitBatchLeaves
<1>2. intake' = intake /\ \A k \in Jobs : k # worker[w].job => job'[k] = job[k]
  <2>1. intake' = intake
    BY DEF CommitBatch
  <2> QED BY <2>1, CommitBatchLeaves
<1>3. \A v \in Workers : LockedRows(v)' \subseteq LockedRows(v)
  BY <1>1 DEF LockedRows
<1>4. \A e \in Events : mapping'[e] # mapping[e] => e \in LockedRows(w) \/ mapping[e] = Nobody
  BY BatchMaps
<1>5. ASSUME NEW v \in Workers, worker'[v].pc = "batch", NEW e \in worker'[v].events
      PROVE  /\ intake'[e] = "stored" /\ e > job'[worker'[v].job].cursor
             /\ worker'[v].seen[e] # Nobody => mapping'[e] = worker'[v].seen[e]
  <2>1. v # w /\ worker'[v] = worker[v] /\ worker[v].pc = "batch" /\ worker[v].job # worker[w].job
    BY <1>1, <1>5
  <2>2. worker[v].job \in Jobs /\ e \in Events /\ e \in worker[v].events
    BY <1>5, <2>1, TaskOfWorker
  <2>3. /\ intake[e] = "stored" /\ e > job[worker[v].job].cursor
        /\ worker[v].seen[e] # Nobody => mapping[e] = worker[v].seen[e]
    BY <2>1, <2>2 DEF ReadsInv
  <2>4. ASSUME worker[v].seen[e] # Nobody PROVE mapping'[e] = mapping[e]
    <3>1. e \in LockedRows(v) /\ mapping[e] # Nobody
      BY <2>1, <2>2, <2>3, <2>4 DEF LockedRows
    <3>2. LockedRows(w) \cap LockedRows(v) = {}
      BY <2>1 DEF ReadsInv
    <3> QED BY <1>4, <2>2, <3>1, <3>2
  <2> QED BY <1>2, <2>1, <2>2, <2>3, <2>4
<1>6. ASSUME NEW v \in Workers, worker'[v].pc = "batch", NEW u \in Workers \ {v}
      PROVE  LockedRows(u)' \cap LockedRows(v)' = {}
  <2>1. LockedRows(u) \cap LockedRows(v) = {}
    BY <1>1, <1>6 DEF ReadsInv
  <2> QED BY <1>3, <2>1
<1> QED BY <1>5, <1>6 DEF ReadsInv

(* Steps that neither run a batch, nor queue a job, nor save a rule. *)
Quiet ==
  /\ UNCHANGED <<rules, version>>
  /\ \A k \in Jobs : SameRow(k)
  /\ \A w \in Workers : SameBatch(w)
  /\ \A e \in Events : SameMapping(e) /\ (intake[e] = "stored" => intake'[e] = "stored")

LEMMA EventsStay ==
  ASSUME UNCHANGED <<intake, mapping>>
  PROVE  \A e \in Events : SameMapping(e) /\ (intake[e] = "stored" => intake'[e] = "stored")
  BY DEF SameMapping

LEMMA IntakeQuiet ==
  ASSUME EventsInv, IntakeNext
  PROVE  Quiet
<1>1. PICK d \in Events : Evaluate(d) \/ CommitEvent(d) \/ MapByHand(d)
  BY DEF IntakeNext
<1>2. UNCHANGED <<rules, version>> /\ UNCHANGED job /\ UNCHANGED worker
  BY <1>1 DEF Evaluate, CommitEvent, MapByHand
<1>3. ASSUME NEW e \in Events
      PROVE  SameMapping(e) /\ (intake[e] = "stored" => intake'[e] = "stored")
  <2>1. CASE Evaluate(d)
    BY <2>1 DEF Evaluate, EventsInv, SameMapping
  <2>2. CASE CommitEvent(d)
    BY <2>2 DEF CommitEvent, EventsInv, SameMapping
  <2>3. CASE MapByHand(d)
    BY <2>3 DEF MapByHand, EventsInv, SameMapping
  <2> QED BY <1>1, <2>1, <2>2, <2>3
<1>4. (\A k \in Jobs : SameRow(k)) /\ (\A w \in Workers : SameBatch(w))
  BY <1>2, SameRows, SameBatches
<1> QED BY <1>2, <1>3, <1>4 DEF Quiet

LEMMA WorkerQuiet ==
  ASSUME JobsInv, NEW w \in Workers,
         \/ BeginBatch(w) \/ Raise(w) \/ RecordFailure(w) \/ WorkerDies(w)
         \/ \E j \in Jobs : Receive(w, j)
  PROVE  Quiet
<1> DEFINE Stay == UNCHANGED <<rules, version, intake, mapping>>
           Rows == \A k \in Jobs : SameRow(k)
           Batches == \A v \in Workers : SameBatch(v)
<1>1. Idle.pc # "batch"
  BY DEF Idle
<1>2. ASSUME BeginBatch(w) PROVE Stay /\ Rows /\ Batches
  <2>1. PICK j \in Jobs : j = worker[w].job /\ Exists(j)
    BY <1>2, TaskOfWorker DEF BeginBatch, JobsInv, Held
  <2> DEFINE batch == NewBatch(j)
  <2>2. batch = NewBatch(batch.job)
    BY DEF NewBatch
  <2>3. \/ worker' = [worker EXCEPT ![w] = Idle]
        \/ worker' = [worker EXCEPT ![w] = batch]
    BY <1>2, <2>1 DEF BeginBatch
  <2>4. job' = job \/ job' = [job EXCEPT ![j].status = "superseded"]
    BY <1>2, <2>1 DEF BeginBatch
  <2>5. "superseded" \in (Active \cup Ended) \ {"completed"}
    BY DEF Ended
  <2> HIDE DEF batch
  <2>6. Rows
    <3>1. CASE job' = job
      BY <3>1, SameRows
    <3>2. CASE job' = [job EXCEPT ![j].status = "superseded"]
      BY <2>1, <2>5, <3>2, ColumnsStay
    <3> QED BY <2>4, <3>1, <3>2
  <2>7. Batches
    <3>1. CASE worker' = [worker EXCEPT ![w] = Idle]
      BY <1>1, <3>1, WorkerMoves
    <3>2. CASE worker' = [worker EXCEPT ![w] = batch]
      BY <2>2, <3>2, WorkerMoves
    <3> QED BY <2>3, <3>1, <3>2
  <2>8. Stay
    BY <1>2 DEF BeginBatch
  <2> QED BY <2>6, <2>7, <2>8
<1>3. ASSUME Raise(w) PROVE Stay /\ Rows /\ Batches
  <2> DEFINE failing == [pc |-> "failing", job |-> worker[w].job]
  <2>1. \/ worker' = [worker EXCEPT ![w] = Idle]
        \/ worker' = [worker EXCEPT ![w] = failing]
    BY <1>3 DEF Raise
  <2>2. failing.pc # "batch"
    OBVIOUS
  <2> HIDE DEF failing
  <2>3. Batches
    <3>1. CASE worker' = [worker EXCEPT ![w] = Idle]
      BY <1>1, <3>1, WorkerMoves
    <3>2. CASE worker' = [worker EXCEPT ![w] = failing]
      BY <2>2, <3>2, WorkerMoves
    <3> QED BY <2>1, <3>1, <3>2
  <2>4. Stay /\ job' = job
    BY <1>3 DEF Raise
  <2> QED BY <2>3, <2>4, SameRows
<1>4. ASSUME RecordFailure(w) PROVE Stay /\ Rows /\ Batches
  <2>1. PICK j \in Jobs : j = worker[w].job /\ Exists(j)
    BY <1>4, TaskOfWorker DEF RecordFailure, JobsInv, Held
  <2>2. "failed" \in (Active \cup Ended) \ {"completed"}
    BY DEF Ended
  <2>3. /\ job' = [job EXCEPT ![j].status = "failed"]
        /\ worker' = [worker EXCEPT ![w] = Idle]
    BY <1>4, <2>1 DEF RecordFailure
  <2>4. Rows
    BY <2>1, <2>2, <2>3, ColumnsStay
  <2>5. Batches
    BY <1>1, <2>3, WorkerMoves
  <2>6. Stay
    BY <1>4 DEF RecordFailure
  <2> QED BY <2>4, <2>5, <2>6
<1>5. ASSUME WorkerDies(w) PROVE Stay /\ Rows /\ Batches
  <2>1. Stay /\ job' = job /\ worker' = [worker EXCEPT ![w] = Idle]
    BY <1>5 DEF WorkerDies
  <2> QED BY <1>1, <2>1, SameRows, WorkerMoves
<1>6. ASSUME NEW j \in Jobs, Receive(w, j) PROVE Stay /\ Rows /\ Batches
  <2> DEFINE task == [pc |-> "task", job |-> j]
  <2>1. Stay /\ job' = job /\ worker' = [worker EXCEPT ![w] = task]
    BY <1>6 DEF Receive
  <2>2. task.pc # "batch"
    OBVIOUS
  <2> HIDE DEF task
  <2> QED BY <2>1, <2>2, SameRows, WorkerMoves
<1>7. Stay /\ Rows /\ Batches
  BY <1>2, <1>3, <1>4, <1>5, <1>6
<1> QED BY <1>7, EventsStay DEF Quiet

LEMMA OthersQuiet ==
  ASSUME JobsInv,
         \/ \E r \in RuleIds : StartRead(r)
         \/ StartVersion
         \/ \E j \in Jobs : CancelJob(j) \/ Recover(j)
         \/ UNCHANGED vars
  PROVE  Quiet
<1>1. CASE \/ \E r \in RuleIds : StartRead(r)
           \/ StartVersion
           \/ \E j \in Jobs : Recover(j)
           \/ UNCHANGED vars
  <2>1. /\ UNCHANGED <<rules, version>> /\ UNCHANGED <<intake, mapping>>
        /\ UNCHANGED job /\ UNCHANGED worker
    BY <1>1 DEF StartRead, StartVersion, Recover, vars
  <2> QED BY <2>1, SameRows, SameBatches, EventsStay DEF Quiet
<1>2. ASSUME NEW j \in Jobs, CancelJob(j) PROVE Quiet
  <2>1. Exists(j) /\ "cancelled" \in (Active \cup Ended) \ {"completed"}
    BY <1>2 DEF CancelJob, ActiveJob, Active, Exists, Ended
  <2>2. /\ job' = [job EXCEPT ![j].status = "cancelled"] /\ UNCHANGED worker
        /\ UNCHANGED <<rules, version>> /\ UNCHANGED <<intake, mapping>>
    BY <1>2 DEF CancelJob
  <2>3. \A k \in Jobs : SameRow(k)
    BY <2>1, <2>2, ColumnsStay
  <2> QED BY <2>2, <2>3, SameBatches, EventsStay DEF Quiet
<1> QED BY <1>1, <1>2

(* The steps that are not quiet. *)
LEMMA Steps ==
  ASSUME JobsInv, EventsInv, [Next]_vars
  PROVE  \/ Quiet
         \/ \E r \in RuleIds, document \in Documents \cup {Absent}, apply \in BOOLEAN :
              SaveRule(r, document, apply)
         \/ QueueJob
         \/ \E w \in Workers : ReadBatch(w) \/ CommitBatch(w)
<1>1. CASE WorkerNext
  <2>1. PICK w \in Workers : WorkerStep(w) \/ \E j \in Jobs : Receive(w, j)
    BY <1>1 DEF WorkerNext
  <2> QED BY <2>1, WorkerQuiet DEF WorkerStep
<1>2. CASE AdminNext
  BY <1>2, OthersQuiet DEF AdminNext
<1>3. CASE IntakeNext
  BY <1>3, IntakeQuiet
<1>4. CASE (\E j \in Jobs : Recover(j)) \/ UNCHANGED vars
  BY <1>4, OthersQuiet
<1> QED BY <1>1, <1>2, <1>3, <1>4 DEF Next

LEMMA NextReads ==
  ASSUME JobsInv, EventsInv, ReadsInv, [Next]_vars
  PROVE  ReadsInv'
<1>1. CASE Quiet
  <2>1. \A k \in Jobs : Exists(k) => job'[k].cursor = job[k].cursor
    BY <1>1 DEF Quiet, SameRow
  <2> QED BY <1>1, <2>1, ReadsStay DEF Quiet
<1>2. ASSUME NEW r \in RuleIds, NEW document \in Documents \cup {Absent}, NEW apply \in BOOLEAN,
             SaveRule(r, document, apply)
      PROVE  ReadsInv'
  <2>1. UNCHANGED job /\ UNCHANGED worker /\ UNCHANGED <<intake, mapping>>
    BY <1>2 DEF SaveRule
  <2>2. \A k \in Jobs : Exists(k) => job'[k].cursor = job[k].cursor
    BY <2>1
  <2> QED BY <2>1, <2>2, SameBatches, EventsStay, ReadsStay
<1>3. CASE QueueJob
  <2>1. UNCHANGED worker /\ UNCHANGED <<intake, mapping>>
    BY <1>3 DEF QueueJob
  <2>2. \A k \in Jobs : Exists(k) => job'[k].cursor = job[k].cursor
    BY <1>3 DEF QueueJob, JobsInv
  <2> QED BY <2>1, <2>2, SameBatches, EventsStay, ReadsStay
<1>4. ASSUME NEW w \in Workers, ReadBatch(w) \/ CommitBatch(w) PROVE ReadsInv'
  BY <1>4, ReadBatchLocks, CommitBatchLocks
<1> QED BY <1>1, <1>2, <1>3, <1>4, Steps
-----------------------------------------------------------------------------
(* The theorems. *)

LEMMA InitEstablishes == Init => BackfillInv
<1> SUFFICES ASSUME Init PROVE BackfillInv
  OBVIOUS
<1>1. /\ job \in [Jobs -> {NoJob} \cup JobType]
      /\ message \subseteq {j \in Jobs : Exists(j)}
      /\ worker \in [Workers -> WorkerType]
  BY DEF Init, WorkerType
<1>2. Held /\ OneBatch /\ Passed
  BY DEF Init, Held, OneBatch, Passed, Exists, NoJob, Idle
<1>3. EventsInv
  BY InitialRulesAssumption, MaxVersionAssumption
     DEF Init, EventsInv, VersionRead, Unmapped, Makers, NoRequest
<1>4. ReadsInv
  BY DEF Init, ReadsInv, Idle
<1> QED BY <1>1, <1>2, <1>3, <1>4 DEF BackfillInv, JobsInv

LEMMA NextKeeps == BackfillInv /\ [Next]_vars => BackfillInv'
<1> SUFFICES ASSUME JobsInv, EventsInv, ReadsInv, [Next]_vars PROVE JobsInv' /\ EventsInv'
  BY NextReads DEF BackfillInv
<1>1. CASE IntakeNext
  <2>1. UNCHANGED <<job, message, worker>>
    BY <1>1 DEF IntakeNext, Evaluate, CommitEvent, MapByHand
  <2>2. EventsInv'
    BY <1>1, EvaluateKeeps, CommitEventKeeps, MapByHandKeeps DEF IntakeNext
  <2> QED BY <2>1, <2>2, JobsUntouched
<1>2. ASSUME NEW r \in RuleIds, NEW document \in Documents \cup {Absent}, NEW apply \in BOOLEAN,
             SaveRule(r, document, apply)
      PROVE  JobsInv' /\ EventsInv'
  BY <1>2, SaveRuleKeeps, JobsUntouched DEF SaveRule
<1>3. ASSUME NEW r \in RuleIds, StartRead(r) PROVE JobsInv' /\ EventsInv'
  BY <1>3, StartReadKeeps, JobsUntouched DEF StartRead
<1>4. CASE StartVersion
  BY <1>4, StartVersionKeeps, JobsUntouched DEF StartVersion
<1>5. CASE QueueJob
  BY <1>5, QueueJobKeeps
<1>6. ASSUME NEW j \in Jobs, CancelJob(j) PROVE JobsInv' /\ EventsInv'
  BY <1>6, CancelJobKeeps, EventsUntouched DEF CancelJob
<1>7. ASSUME NEW w \in Workers, BeginBatch(w) PROVE JobsInv' /\ EventsInv'
  BY <1>7, BeginBatchKeeps, EventsUntouched DEF BeginBatch
<1>8. ASSUME NEW w \in Workers, CommitBatch(w) PROVE JobsInv' /\ EventsInv'
  BY <1>8, CommitBatchKeeps
<1>9. ASSUME NEW w \in Workers, Raise(w) PROVE JobsInv' /\ EventsInv'
  BY <1>9, RaiseKeeps, EventsUntouched DEF Raise
<1>10. ASSUME NEW w \in Workers, RecordFailure(w) PROVE JobsInv' /\ EventsInv'
  BY <1>10, RecordFailureKeeps, EventsUntouched DEF RecordFailure
<1>11. ASSUME NEW w \in Workers, WorkerDies(w) PROVE JobsInv' /\ EventsInv'
  BY <1>11, WorkerDiesKeeps, EventsUntouched DEF WorkerDies
<1>12. ASSUME NEW w \in Workers, NEW j \in Jobs, Receive(w, j) PROVE JobsInv' /\ EventsInv'
  BY <1>12, ReceiveKeeps, EventsUntouched DEF Receive
<1>13. ASSUME NEW j \in Jobs, Recover(j) PROVE JobsInv' /\ EventsInv'
  BY <1>13, RecoverKeeps, EventsUntouched DEF Recover
<1>14. CASE UNCHANGED vars
  BY <1>14, JobsUntouched, EventsUntouched DEF vars
<1>17. ASSUME NEW w \in Workers, ReadBatch(w) PROVE JobsInv' /\ EventsInv'
  BY <1>17, ReadBatchKeeps, EventsUntouched DEF ReadBatch
<1>15. CASE AdminNext
  BY <1>2, <1>3, <1>4, <1>5, <1>6, <1>15 DEF AdminNext
<1>16. CASE WorkerNext
  BY <1>7, <1>8, <1>9, <1>10, <1>11, <1>12, <1>16, <1>17 DEF WorkerNext, WorkerStep
<1> QED BY <1>1, <1>13, <1>14, <1>15, <1>16 DEF Next

(* The inductive invariant of jobs, tasks and events. *)
THEOREM Invariant == Spec => []BackfillInv
<1>1. Init => BackfillInv
  BY InitEstablishes
<1>2. BackfillInv /\ [Next]_vars => BackfillInv'
  BY NextKeeps
<1> QED BY <1>1, <1>2, PTL DEF Spec

(* Every variable keeps its type: rows have all their columns, and tasks   *)
(* name rows.                                                              *)
THEOREM TypeCorrect == Spec => []TypeOK
<1>1. BackfillInv => TypeOK
  BY DEF BackfillInv, JobsInv, EventsInv, TypeOK, WorkerType
<1> QED BY <1>1, Invariant, PTL

(* A job is processed by one worker at a time and examines no event twice, *)
(* however many tasks it has (process_batch, recover_jobs).                *)
THEOREM EventsAreExaminedOnce == Spec => []ExaminedOnce
<1>1. BackfillInv => ExaminedOnce
  BY DEF BackfillInv, JobsInv, Passed, OneBatch, ExaminedOnce
<1> QED BY <1>1, Invariant, PTL

(* Nothing replaces or removes a mapping that a person made: neither the   *)
(* intake of its event nor a batch of any rule.                            *)
THEOREM ManualMappingsStay == Spec => ManualMappingsKept
<1> DEFINE Kept == \A e \in Events : mapping[e] = Person => mapping'[e] = Person
<1>1. ASSUME EventsInv, NEW d \in Events, CommitEvent(d)
      PROVE  Kept
  <2>1. mapping[d] # Person
    BY <1>1, MakersAssumption DEF CommitEvent, EventsInv, Unmapped
  <2>2. \A e \in Events : e # d => mapping'[e] = mapping[e]
    BY <1>1 DEF CommitEvent, EventsInv
  <2> QED BY <2>1, <2>2
<1>2. ASSUME EventsInv, NEW d \in Events, MapByHand(d)
      PROVE  Kept
  BY <1>2 DEF MapByHand, EventsInv
<1>3. ASSUME JobsInv, EventsInv, ReadsInv, NEW w \in Workers, CommitBatch(w)
      PROVE  Kept
  BY <1>3, BatchMaps
<1>4. ASSUME UNCHANGED mapping
      PROVE  Kept
  BY <1>4
<1> HIDE DEF Kept
<1>5. ASSUME JobsInv, EventsInv, ReadsInv, [Next]_vars
      PROVE  Kept
  <2>1. CASE IntakeNext
    <3>1. \/ UNCHANGED mapping
          \/ \E d \in Events : CommitEvent(d) \/ MapByHand(d)
      BY <2>1 DEF IntakeNext, Evaluate
    <3> QED BY <1>1, <1>2, <1>4, <1>5, <3>1
  <2>2. CASE AdminNext
    <3>1. UNCHANGED mapping
      BY <2>2 DEF AdminNext, SaveRule, StartRead, StartVersion, QueueJob, CancelJob
    <3> QED BY <1>4, <3>1
  <2>3. CASE WorkerNext
    <3>1. \/ UNCHANGED mapping
          \/ \E w \in Workers : CommitBatch(w)
      BY <2>3 DEF WorkerNext, WorkerStep, BeginBatch, ReadBatch, Raise, RecordFailure, WorkerDies, Receive
    <3> QED BY <1>3, <1>4, <1>5, <3>1
  <2>4. CASE \E j \in Jobs : Recover(j)
    BY <1>4, <2>4 DEF Recover
  <2>5. CASE UNCHANGED vars
    BY <1>4, <2>5 DEF vars
  <2> QED BY <1>5, <2>1, <2>2, <2>3, <2>4, <2>5 DEF Next
<1>6. BackfillInv /\ [Next]_vars
        => [\A e \in Events : mapping[e] = Person => mapping'[e] = Person]_vars
  BY <1>5 DEF BackfillInv, Kept
<1> QED BY <1>6, Invariant, PTL DEF Spec, ManualMappingsKept
-----------------------------------------------------------------------------
(* Batches in order: the first n events of a set. *)

FirstOf(R, n) == {e \in R : Cardinality({d \in R : d < e}) < n}

LEMMA SetsOfEvents ==
  ASSUME NEW R \in SUBSET Events
  PROVE  IsFiniteSet(R) /\ Cardinality(R) \in Nat
<1>1. IsFiniteSet(Events)
  BY LastEventAssumption, FS_Interval DEF Events
<1>2. IsFiniteSet(R)
  BY <1>1, FS_Subset
<1> QED BY <1>2, FS_CardinalityType

(* A set of events has a least member. *)
LEMMA HasLeast ==
  ASSUME NEW T \in SUBSET Events, T # {}
  PROVE  \E x \in T : \A y \in T : x <= y
<1> DEFINE O == OpToRel(<, Nat)
<1>1. T \subseteq Nat
  BY DEF Events
<1>2. IsWellFoundedOn(O, Nat)
  BY NatLessThanWellFounded
<1>3. \A x, y \in Nat : x < y => <<x, y>> \in O
  BY DEF OpToRel
<1> HIDE DEF O
<1>4. \E x \in T : \A y \in T : ~ (<<y, x>> \in O)
  BY <1>1, <1>2, WFMin
<1>5. PICK x \in T : \A y \in T : ~ (y < x)
  BY <1>1, <1>3, <1>4
<1>6. \A y \in T : x <= y
  BY <1>1, <1>5
<1> QED BY <1>6

(* What is before one of the first is one of the first. *)
LEMMA FirstIsPrefix ==
  ASSUME NEW R \in SUBSET Events, NEW n \in Nat, NEW x \in FirstOf(R, n),
         NEW e \in R, e <= x
  PROVE  e \in FirstOf(R, n)
<1> DEFINE below(y) == {d \in R : d < y}
<1>1. x \in R /\ Cardinality(below(x)) < n
  BY DEF FirstOf
<1>2. below(e) \in SUBSET below(x) /\ below(x) \in SUBSET Events /\ below(e) \in SUBSET Events
  <2>1. \A d \in Events : d \in Int
    BY LastEventAssumption DEF Events
  <2>2. x \in Events /\ e \in Events /\ \A d \in R : d \in Events
    BY <1>1
  <2>3. \A d \in R : d < e => d < x
    BY <2>1, <2>2
  <2>4. \A d \in below(e) : d \in below(x)
    BY <2>3
  <2> QED BY <2>2, <2>4
<1> HIDE DEF below
<1>3. /\ IsFiniteSet(below(x)) /\ Cardinality(below(x)) \in Nat
      /\ Cardinality(below(e)) \in Nat
  BY <1>2, SetsOfEvents
<1>4. Cardinality(below(e)) <= Cardinality(below(x))
  BY <1>2, <1>3, FS_Subset
<1>5. Cardinality(below(e)) < n
  BY <1>1, <1>3, <1>4
<1> QED BY <1>5 DEF FirstOf, below

(* Where there are not n of them, they are all there are. *)
LEMMA FirstAreAll ==
  ASSUME NEW R \in SUBSET Events, NEW n \in Nat, Cardinality(FirstOf(R, n)) # n
  PROVE  FirstOf(R, n) = R
<1> DEFINE F == FirstOf(R, n)
           below(y) == {d \in R : d < y}
<1> SUFFICES ASSUME R \ F # {} PROVE FALSE
  BY DEF FirstOf
<1>1. F \in SUBSET Events /\ R \ F \in SUBSET Events /\ F \subseteq R
  BY DEF FirstOf
<1>2. \A y \in R : y \in F <=> Cardinality(below(y)) < n
  BY DEF FirstOf
<1>3. \A y : below(y) \in SUBSET Events /\ \A d \in R : d \in below(y) <=> d < y
  OBVIOUS
<1>4. \A y : below(y) \subseteq R
  OBVIOUS
<1> HIDE DEF below, F
<1>5. /\ IsFiniteSet(F) /\ Cardinality(F) \in Nat
      /\ \A y : IsFiniteSet(below(y)) /\ Cardinality(below(y)) \in Nat
  BY <1>1, <1>3, SetsOfEvents
<1>6. PICK y \in R \ F : \A z \in R \ F : y <= z
  BY <1>1, HasLeast
<1>7. below(y) \in SUBSET F
  <2> SUFFICES ASSUME NEW d \in below(y), d \notin F PROVE FALSE
    OBVIOUS
  <2>1. d \in R /\ d < y
    BY <1>3, <1>4
  <2>2. y <= d
    BY <1>6, <2>1
  <2> QED BY <1>6, <2>1, <2>2 DEF Events
<1>8. Cardinality(below(y)) >= n
  BY <1>2, <1>5, <1>6
<1>9. Cardinality(F) >= n
  <2>1. Cardinality(below(y)) <= Cardinality(F)
    BY <1>5, <1>7, FS_Subset
  <2> QED BY <1>5, <1>8, <2>1
<1>10. Cardinality(F) <= n
  <2>1. CASE F = {}
    BY <2>1, FS_EmptySet
  <2>2. CASE F # {}
    <3>1. PICK x \in F : \A z \in F : z <= x
      BY <1>1, <2>2, HasGreatest
    <3>2. F \in SUBSET (below(x) \cup {x})
      BY <1>1, <1>3, <3>1 DEF Events
    <3>3. Cardinality(below(x)) < n
      BY <1>1, <1>2, <3>1
    <3>4. /\ IsFiniteSet(below(x) \cup {x})
          /\ Cardinality(below(x) \cup {x}) \in {Cardinality(below(x)), Cardinality(below(x)) + 1}
      BY <1>5, FS_AddElement
    <3>5. Cardinality(F) <= Cardinality(below(x) \cup {x})
      BY <3>2, <3>4, FS_Subset
    <3> QED BY <1>5, <3>3, <3>4, <3>5
  <2> QED BY <2>1, <2>2
<1> QED BY <1>5, <1>9, <1>10 DEF F

(* A batch leaves nothing behind its cursor, and nothing at all when it is *)
(* not full.                                                               *)
LEMMA BatchIsWhole ==
  ASSUME JobsInv, NEW j \in Jobs, Exists(j)
  PROVE  /\ \A e \in Remaining(j) : e <= BatchEnd(j, Batch(j)) => e \in Batch(j)
         /\ Cardinality(Batch(j)) # BatchSize => Batch(j) = Remaining(j)
<1>1. Remaining(j) \in SUBSET Events /\ Batch(j) = FirstOf(Remaining(j), BatchSize)
  BY DEF Remaining, Stored, Batch, FirstOf
<1>2. BatchSize \in Nat
  BY BatchSizeAssumption
<1>3. Cardinality(Batch(j)) # BatchSize => Batch(j) = Remaining(j)
  BY <1>1, <1>2, FirstAreAll
<1>4. ASSUME NEW e \in Remaining(j), e <= BatchEnd(j, Batch(j))
      PROVE  e \in Batch(j)
  <2>1. job[j].cursor \in Int /\ e \in Int /\ e > job[j].cursor
    <3>1. job[j].cursor \in 0..LastEvent
      BY RowOfJob
    <3> QED BY <3>1, LastEventAssumption DEF Remaining, Stored, Events
  <2>2. Batch(j) # {}
    BY <1>4, <2>1 DEF BatchEnd
  <2>3. \E x \in Batch(j) : \A y \in Batch(j) : y <= x
    BY <1>1, <2>2, HasGreatest DEF FirstOf
  <2>4. BatchEnd(j, Batch(j)) \in Batch(j)
    BY <2>2, <2>3 DEF BatchEnd
  <2> QED BY <1>1, <1>2, <1>4, <2>4, FirstIsPrefix
<1> QED BY <1>3, <1>4
-----------------------------------------------------------------------------
(* Backfills that were queued with nothing under way.                      *)

(* A batch has read the rules of its version, and no row is of the future. *)
Dates ==
  /\ \A w \in Workers : worker[w].pc = "batch" /\ worker[w].version = version =>
       worker[w].rules = rules
  /\ \A w \in Workers : worker[w].pc = "batch" => worker[w].version <= version
  /\ \A j \in Jobs : Exists(j) => job[j].made <= version

(* A job queued with nothing under way for rules that are still the saved  *)
(* ones: its events are stored, and no batch has read other rules.         *)
Fresh(j) == Exists(j) /\ job[j].calm /\ job[j].made = version
Undisturbed ==
  \A j \in Jobs : Fresh(j) =>
    /\ \A e \in job[j].cutoff : intake[e] = "stored"
    /\ \A w \in Workers : worker[w].pc = "batch" => worker[w].version = version

(* What such a job has passed is as its rule would have it, while no job   *)
(* runs a document that is not the saved one.                              *)
AllApply == \A k \in Jobs : AppliesSavedRule(k)
Sound(r, e) ==
  /\ e \in Matches(rules[r]) => mapping[e] # Nobody
  /\ mapping[e] = r => e \in Matches(rules[r])
Progressed ==
  AllApply => \A j \in Jobs : Fresh(j) => \A e \in job[j].cutoff :
    e <= job[j].cursor \/ job[j].status = "completed" => Sound(job[j].rule, e)

(* The batch of such a job is what is left of it, and a mapping that its   *)
(* rule has been given since the batch read the mappings is as it would be. *)
Whole ==
  \A w \in Workers : \A j \in Jobs :
    worker[w].pc = "batch" /\ worker[w].job = j /\ worker[w].read /\ Fresh(j) =>
      worker[w].events = Batch(j)
Given(w, j) ==
  \A e \in worker[w].events :
    mapping[e] = job[j].rule /\ worker[w].seen[e] # job[j].rule =>
      e \in Matches(rules[job[j].rule])
Unseen ==
  AllApply => \A w \in Workers : \A j \in Jobs :
    worker[w].pc = "batch" /\ worker[w].job = j /\ Fresh(j) => Given(w, j)

CalmInv == Dates /\ Undisturbed /\ Progressed /\ Whole /\ Unseen

(* What is left of a job whose events are all stored. *)
LEMMA SameBatchLeft ==
  ASSUME NEW j \in Jobs, job'[j].cutoff = job[j].cutoff, job'[j].cursor = job[j].cursor,
         job[j].cutoff \subseteq Stored, job[j].cutoff \subseteq Stored'
  PROVE  Batch(j)' = Batch(j)
<1>1. Remaining(j) = {e \in job[j].cutoff : e > job[j].cursor}
  BY DEF Remaining
<1>2. Remaining(j)' = {e \in job[j].cutoff : e > job[j].cursor}
  BY DEF Remaining
<1>3. Remaining(j)' = Remaining(j)
  BY <1>1, <1>2
<1> QED BY <1>3 DEF Batch

(* Quiet steps. *)
LEMMA CalmStays ==
  ASSUME JobsInv, EventsInv, ReadsInv, CalmInv, Quiet
  PROVE  CalmInv'
<1>1. /\ rules' = rules /\ version' = version
      /\ \A k \in Jobs : SameRow(k)
      /\ \A e \in Events : SameMapping(e) /\ (intake[e] = "stored" => intake'[e] = "stored")
  BY DEF Quiet
<1>10. \A w \in Workers : worker'[w].pc = "batch" =>
         \/ worker'[w] = worker[w]
         \/ /\ worker'[w].rules = rules /\ worker'[w].version = version
            /\ worker'[w].read = FALSE /\ worker'[w].events = {}
  <2> SUFFICES ASSUME NEW w \in Workers, worker'[w].pc = "batch", worker'[w] # worker[w]
               PROVE  /\ worker'[w].rules = rules /\ worker'[w].version = version
                      /\ worker'[w].read = FALSE /\ worker'[w].events = {}
    OBVIOUS
  <2>1. worker'[w] = NewBatch(worker'[w].job)
    BY DEF Quiet, SameBatch
  <2>2. PICK i : i = worker'[w].job
    OBVIOUS
  <2>3. worker'[w] = NewBatch(i)
    BY <2>1, <2>2
  <2> QED BY <2>3, NewBatchIs
<1>2. version \in Int /\ \A k \in Jobs : Exists(k) => job[k].cutoff \subseteq Events
  BY RowOfJob, MaxVersionAssumption DEF EventsInv
<1>3. Dates'
  BY <1>10, <1>1, <1>2 DEF CalmInv, Dates, SameRow
<1>4. \A j \in Jobs : Fresh(j)' => Fresh(j) /\ Exists(j)
  BY <1>1 DEF Fresh, SameRow
<1>5. ASSUME NEW j \in Jobs, Fresh(j)'
      PROVE  /\ \A e \in job'[j].cutoff : intake'[e] = "stored" /\ e \in Events
             /\ \A w \in Workers : worker'[w].pc = "batch" => worker'[w].version = version'
  <2>1. Fresh(j) /\ Exists(j) /\ job'[j].cutoff = job[j].cutoff
    BY <1>1, <1>4, <1>5 DEF SameRow
  <2>2. \A e \in job[j].cutoff : intake[e] = "stored"
    BY <2>1 DEF CalmInv, Undisturbed
  <2>3. \A w \in Workers : worker[w].pc = "batch" => worker[w].version = version
    BY <2>1 DEF CalmInv, Undisturbed
  <2> QED BY <1>10, <1>1, <1>2, <2>1, <2>2, <2>3
<1>6. Undisturbed'
  BY <1>5 DEF Undisturbed
<1>7. Progressed'
  <2> SUFFICES ASSUME AllApply', NEW j \in Jobs, Fresh(j)', NEW e \in job'[j].cutoff,
                      e <= job'[j].cursor \/ job'[j].status = "completed"
               PROVE  Sound(job[j].rule, e)'
    BY DEF Progressed
  <2>1. AllApply
    BY <1>1 DEF AllApply, AppliesSavedRule, SameRow
  <2>2. /\ Fresh(j) /\ Exists(j) /\ e \in job[j].cutoff /\ job'[j].rule = job[j].rule
        /\ e <= job[j].cursor \/ job[j].status = "completed"
    BY <1>1, <1>4 DEF SameRow
  <2>3. Sound(job[j].rule, e)
    BY <2>1, <2>2 DEF CalmInv, Progressed
  <2>4. e \in Events /\ intake[e] = "stored"
    BY <1>2, <2>2 DEF CalmInv, Undisturbed
  <2>5. mapping'[e] = mapping[e] \/ mapping'[e] = Person
    BY <1>1, <2>4 DEF SameMapping
  <2>6. job[j].rule \in RuleIds
    BY <2>2, RowOfJob
  <2> QED BY <1>1, <2>2, <2>3, <2>5, <2>6, MakersAssumption DEF Sound, Matches
<1>8. Whole'
  <2> SUFFICES ASSUME NEW w \in Workers, NEW j \in Jobs, worker'[w].pc = "batch",
                      worker'[w].job = j, worker'[w].read, Fresh(j)'
               PROVE  worker'[w].events = Batch(j)'
    BY DEF Whole
  <2>1. worker'[w] = worker[w]
    BY <1>10
  <2>2. Fresh(j) /\ job'[j].cutoff = job[j].cutoff /\ job'[j].cursor = job[j].cursor
    BY <1>1, <1>4 DEF SameRow
  <2>3. worker[w].events = Batch(j)
    BY <2>1, <2>2 DEF CalmInv, Whole
  <2>4. job[j].cutoff \subseteq Stored /\ job[j].cutoff \subseteq Stored'
    BY <1>2, <1>5, <2>2 DEF CalmInv, Undisturbed, Stored, Fresh
  <2> QED BY <2>1, <2>2, <2>3, <2>4, SameBatchLeft
<1>9. Unseen'
  <2> SUFFICES ASSUME AllApply', NEW w \in Workers, NEW j \in Jobs, worker'[w].pc = "batch",
                      worker'[w].job = j, Fresh(j)', NEW e \in worker'[w].events,
                      mapping'[e] = job'[j].rule, worker'[w].seen[e] # job'[j].rule
               PROVE  e \in Matches(rules[job'[j].rule])
    BY <1>1 DEF Unseen, Given, Matches
  <2>1. AllApply
    BY <1>1 DEF AllApply, AppliesSavedRule, SameRow
  <2>2. worker'[w] = worker[w]
    BY <1>10
  <2>3. Fresh(j) /\ job'[j].rule = job[j].rule /\ job[j].rule \in RuleIds
    BY <1>1, <1>4, RowOfJob DEF SameRow
  <2>4. e \in Events /\ intake[e] = "stored"
    BY <2>2, TaskOfWorker DEF ReadsInv
  <2>5. mapping[e] = job[j].rule
    BY <1>1, <2>3, <2>4, MakersAssumption DEF SameMapping
  <2> QED BY <2>1, <2>2, <2>3, <2>5 DEF CalmInv, Unseen, Given
<1> QED BY <1>3, <1>6, <1>7, <1>8, <1>9 DEF CalmInv

(* A rule is saved: no job is as old as the rules any more.                *)
LEMMA SaveRuleCalm ==
  ASSUME JobsInv, EventsInv, CalmInv, NEW r \in RuleIds,
         NEW document \in Documents \cup {Absent}, NEW apply \in BOOLEAN,
         SaveRule(r, document, apply)
  PROVE  CalmInv'
<1>1. version' = version + 1 /\ job' = job /\ worker' = worker
  BY DEF SaveRule
<1>2. /\ version \in Int
      /\ \A w \in Workers : worker[w].pc = "batch" => worker[w].version \in Int
      /\ \A k \in Jobs : Exists(k) => job[k].made \in Int
  <2>1. \A w \in Workers : worker[w].pc = "batch" => worker[w].version \in 1..MaxVersion
    BY TaskOfWorker
  <2>2. \A k \in Jobs : Exists(k) => job[k].made \in 1..MaxVersion
    BY RowOfJob DEF JobType
  <2>3. version \in 1..MaxVersion /\ MaxVersion \in Int
    BY MaxVersionAssumption DEF EventsInv
  <2> QED BY <2>1, <2>2, <2>3
<1>3. \A w \in Workers : worker[w].pc = "batch" =>
        worker[w].version <= version' /\ worker[w].version # version'
  BY <1>1, <1>2 DEF CalmInv, Dates
<1>4. \A k \in Jobs : Exists(k) => job[k].made <= version' /\ job[k].made # version'
  BY <1>1, <1>2 DEF CalmInv, Dates
<1>5. \A k \in Jobs : Exists(k)' <=> Exists(k)
  BY <1>1 DEF Exists
<1>6. Dates'
  BY <1>1, <1>3, <1>4, <1>5 DEF Dates
<1>7. \A j \in Jobs : ~ Fresh(j)'
  BY <1>1, <1>4, <1>5 DEF Fresh
<1> QED BY <1>6, <1>7 DEF CalmInv, Undisturbed, Progressed, Whole, Unseen

(* A job that is queued has passed nothing, and finds what its cutoff says. *)
LEMMA QueueJobCalm ==
  ASSUME JobsInv, EventsInv, ReadsInv, CalmInv, QueueJob
  PROVE  CalmInv'
<1>1. UNCHANGED <<rules, version, intake, pending, mapping, worker>>
  BY DEF QueueJob
<1>2. CASE UNCHANGED job
  <2>1. UNCHANGED <<rules, version>> /\ UNCHANGED <<intake, mapping>> /\ UNCHANGED worker
    BY <1>1
  <2> QED BY <1>2, <2>1, SameRows, SameBatches, EventsStay, CalmStays DEF Quiet
<1>3. CASE ~ UNCHANGED job
  <2> DEFINE row ==
        [status |-> "queued", rule |-> request.rule,
         document |-> request.document, version |-> request.version,
         cutoff |-> {e \in Events : intake[e] # "none"}, cursor |-> 0,
         examined |-> [e \in Events |-> 0], made |-> version,
         calm |-> /\ \A e \in Events : intake[e] # "evaluated"
                  /\ \A w \in Workers : worker[w].pc # "batch"]
  <2>1. PICK j \in Jobs : ~ Exists(j) /\ job' = [job EXCEPT ![j] = row]
    BY <1>3 DEF QueueJob
  <2>2. job'[j] = row /\ \A k \in Jobs : k # j => job'[k] = job[k]
    BY <2>1 DEF JobsInv
  <2>3. /\ row.status = "queued" /\ row.cursor = 0 /\ row.made = version
        /\ row.cutoff = {e \in Events : intake[e] # "none"}
        /\ row.calm <=> /\ \A e \in Events : intake[e] # "evaluated"
                        /\ \A w \in Workers : worker[w].pc # "batch"
    OBVIOUS
  <2> HIDE DEF row
  <2>4. \A k \in Jobs : k # j => (Exists(k)' <=> Exists(k)) /\ (Fresh(k)' <=> Fresh(k))
    BY <1>1, <2>2 DEF Exists, Fresh
  <2>5. version \in Int
    BY MaxVersionAssumption DEF EventsInv
  <2>6. \A k \in Jobs : Exists(k)' => job'[k].made <= version'
    BY <1>1, <2>2, <2>3, <2>4, <2>5 DEF CalmInv, Dates
  <2>7. Dates'
    BY <1>1, <2>6 DEF CalmInv, Dates
  <2>8. ASSUME NEW k \in Jobs, Fresh(k)'
        PROVE  /\ \A e \in job'[k].cutoff : intake'[e] = "stored"
               /\ \A w \in Workers : worker'[w].pc = "batch" => worker'[w].version = version'
    <3>1. CASE k = j
      <4>1. row.calm
        BY <2>2, <2>8, <3>1 DEF Fresh
      <4>2. \A e \in row.cutoff : intake[e] = "stored"
        BY <2>3, <4>1 DEF EventsInv
      <4> QED BY <1>1, <2>2, <2>3, <3>1, <4>1, <4>2
    <3>2. CASE k # j
      BY <1>1, <2>2, <2>4, <2>8, <3>2 DEF CalmInv, Undisturbed
    <3> QED BY <3>1, <3>2
  <2>9. Undisturbed'
    BY <2>8 DEF Undisturbed
  <2>11. AllApply' => AllApply
    <3> SUFFICES ASSUME AllApply', NEW i \in Jobs, Exists(i) PROVE AppliesSavedRule(i)
      BY DEF AllApply, AppliesSavedRule
    <3>1. i # j
      BY <2>1
    <3>2. AppliesSavedRule(i)'
      BY DEF AllApply
    <3> QED BY <1>1, <2>2, <2>4, <3>1, <3>2 DEF AppliesSavedRule
  <2>12. \A w \in Workers : worker[w].pc = "batch" => worker[w].job # j
    BY <2>1 DEF JobsInv, Held
  <2>10. Progressed'
    <3> SUFFICES ASSUME AllApply', NEW k \in Jobs, Fresh(k)', NEW e \in job'[k].cutoff,
                        e <= job'[k].cursor \/ job'[k].status = "completed"
                 PROVE  Sound(job[k].rule, e)'
      BY DEF Progressed
    <3>1. k # j
      <4> SUFFICES ASSUME k = j PROVE FALSE
        OBVIOUS
      <4>1. e \in Events /\ e <= 0
        BY <2>2, <2>3
      <4> QED BY <4>1, LastEventAssumption DEF Events
    <3>2. AllApply
      BY <2>11
    <3>3. job'[k] = job[k] /\ Fresh(k)
      BY <2>2, <2>4, <3>1
    <3>4. Sound(job[k].rule, e)
      BY <3>2, <3>3 DEF CalmInv, Progressed
    <3> QED BY <1>1, <3>3, <3>4 DEF Sound
  <2>13. Whole'
    <3> SUFFICES ASSUME NEW w \in Workers, NEW k \in Jobs, worker[w].pc = "batch",
                        worker[w].job = k, worker[w].read, Fresh(k)'
                 PROVE  worker[w].events = Batch(k)'
      BY <1>1 DEF Whole
    <3>1. job'[k] = job[k] /\ Fresh(k)
      BY <2>2, <2>4, <2>12
    <3>2. Batch(k)' = Batch(k)
      BY <1>1, <3>1 DEF Batch, Remaining, Stored
    <3> QED BY <3>1, <3>2 DEF CalmInv, Whole
  <2>14. Unseen'
    <3> SUFFICES ASSUME AllApply', NEW w \in Workers, NEW k \in Jobs, worker[w].pc = "batch",
                        worker[w].job = k, Fresh(k)'
                 PROVE  Given(w, k)'
      BY <1>1 DEF Unseen
    <3>1. job'[k] = job[k] /\ Fresh(k)
      BY <2>2, <2>4, <2>12
    <3>2. Given(w, k)
      BY <2>11, <3>1 DEF CalmInv, Unseen
    <3> QED BY <1>1, <3>1, <3>2 DEF Given
  <2> QED BY <2>7, <2>9, <2>10, <2>13, <2>14 DEF CalmInv
<1> QED BY <1>2, <1>3

(* A batch that has read the saved rules, and whose rule's document is the *)
(* saved one, keeps what is as any rule would have it, gives mappings only *)
(* to rules that match, and makes its events as its own rule would have    *)
(* them where the mapping it was given meanwhile is right.                 *)
LEMMA BatchReconciles ==
  ASSUME JobsInv, EventsInv, ReadsInv, NEW w \in Workers, CommitBatch(w),
         NEW j \in Jobs, j = worker[w].job,
         NEW own \in RuleIds, own = job[j].rule,
         worker[w].rules = rules, job[j].document = rules[own]
  PROVE  /\ \A e \in Events : \A r \in RuleIds : Sound(r, e) => Sound(r, e)'
         /\ \A e \in Events : \A r \in RuleIds :
              mapping'[e] = r /\ mapping[e] # r => e \in Matches(rules[r])
         /\ Given(w, j) => \A e \in worker[w].events : Sound(own, e)'
<1> DEFINE events == worker[w].events
           seen == worker[w].seen
<1>1. /\ worker[w].pc = "batch" /\ events \in SUBSET Events
      /\ \A e \in events : mapping'[e] \in Reconciled(w, e)
      /\ \A e \in Events \ events : mapping'[e] = mapping[e]
  BY BatchCommits
<1>2. rules' = rules
  BY DEF CommitBatch
<1>3. ASSUME NEW e \in events
      PROVE  /\ Given(w, j) => Sound(own, e)'
             /\ \A r \in RuleIds : Sound(r, e) => Sound(r, e)'
             /\ \A r \in RuleIds : mapping'[e] = r /\ mapping[e] # r => e \in Matches(rules[r])
  <2>1. mapping'[e] \in Reconciled(w, e)
    BY <1>1
  <2>2. \A r \in RuleIds : r \in Supporters(rules, e) <=> e \in Matches(rules[r])
    BY DEF Supporters
  <2>3. Supporters(rules, e) \subseteq RuleIds /\ Nobody \notin RuleIds
    BY MakersAssumption DEF Supporters
  <2>4. CASE seen[e] = own
    <3>1. mapping'[e] \in (IF Supporters(rules, e) = {} THEN {Nobody} ELSE Supporters(rules, e))
      BY <2>1, <2>4 DEF Reconciled
    <3> QED BY <1>2, <2>2, <2>3, <3>1 DEF Sound, Matches
  <2>5. CASE seen[e] = Nobody /\ mapping[e] = Nobody /\ e \in Matches(job[j].document)
    <3>1. mapping'[e] = own
      BY <2>1, <2>3, <2>5 DEF Reconciled
    <3> QED BY <1>2, <2>3, <2>5, <3>1 DEF Sound, Matches
  <2>6. CASE /\ seen[e] # own
             /\ ~ (seen[e] = Nobody /\ mapping[e] = Nobody /\ e \in Matches(job[j].document))
    <3>1. mapping'[e] = mapping[e]
      BY <2>1, <2>6 DEF Reconciled
    <3>2. seen[e] # Nobody => mapping[e] = seen[e]
      BY <1>1 DEF ReadsInv
    <3>3. e \in Matches(rules[own]) => mapping[e] # Nobody
      BY <2>6, <3>2
    <3>4. Given(w, j) => (mapping[e] = own => e \in Matches(rules[own]))
      BY <2>6 DEF Given
    <3> QED BY <1>2, <3>1, <3>3, <3>4 DEF Sound, Matches
  <2> QED BY <2>4, <2>5, <2>6
<1>4. ASSUME NEW e \in Events, e \notin events
      PROVE  \A r \in RuleIds : Sound(r, e) => Sound(r, e)'
  BY <1>1, <1>2, <1>4 DEF Sound, Matches
<1> QED BY <1>1, <1>3, <1>4

(* A batch reads: what it has read is what is left, and as it is. *)
LEMMA ReadBatchCalm ==
  ASSUME JobsInv, EventsInv, CalmInv, NEW w \in Workers, ReadBatch(w)
  PROVE  CalmInv'
<1>1. PICK j \in Jobs : j = worker[w].job /\ Exists(j)
  BY ReadBatchReads
<1>2. /\ worker[w].pc = "batch"
      /\ worker'[w].pc = "batch" /\ worker'[w].job = j
      /\ worker'[w].rules = worker[w].rules /\ worker'[w].version = worker[w].version
      /\ worker'[w].events = Batch(j)
      /\ worker'[w].seen = [e \in Events |-> IF e \in Batch(j) THEN mapping[e] ELSE Nobody]
      /\ \A v \in Workers : v # w => worker'[v] = worker[v]
  BY <1>1, ReadBatchReads
<1>3. UNCHANGED <<rules, version, intake, mapping, job>>
  BY DEF ReadBatch
<1>4. \A k \in Jobs : /\ Exists(k)' <=> Exists(k)
                      /\ Fresh(k)' <=> Fresh(k)
                      /\ Batch(k)' = Batch(k)
  BY <1>3 DEF Exists, Fresh, Batch, Remaining, Stored
<1>5. AllApply' <=> AllApply
  BY <1>3 DEF AllApply, AppliesSavedRule, Exists
<1>6. \A v \in Workers : worker'[v].pc = "batch" =>
        /\ worker[v].pc = "batch"
        /\ worker'[v].rules = worker[v].rules /\ worker'[v].version = worker[v].version
  BY <1>2
<1>7. Dates'
  BY <1>3, <1>4, <1>6 DEF CalmInv, Dates
<1>8. Undisturbed'
  BY <1>3, <1>4, <1>6 DEF CalmInv, Undisturbed
<1>9. Progressed'
  BY <1>3, <1>4, <1>5 DEF CalmInv, Progressed, Sound
<1>10. Whole'
  BY <1>2, <1>4 DEF CalmInv, Whole
<1>11. Unseen'
  <2> SUFFICES ASSUME AllApply', NEW v \in Workers, NEW k \in Jobs, worker'[v].pc = "batch",
                      worker'[v].job = k, Fresh(k)'
               PROVE  Given(v, k)'
    BY DEF Unseen
  <2>1. CASE v = w
    <3>1. \A e \in Batch(j) : e \in Events
      BY DEF Batch, Remaining, Stored
    <3>2. \A e \in worker'[w].events : worker'[w].seen[e] = mapping'[e]
      BY <1>2, <1>3, <3>1
    <3> QED BY <2>1, <3>2 DEF Given
  <2>2. CASE v # w
    <3>1. worker'[v] = worker[v] /\ AllApply /\ Fresh(k)
      BY <1>2, <1>4, <1>5, <2>2
    <3>2. Given(v, k)
      BY <3>1 DEF CalmInv, Unseen
    <3> QED BY <1>3, <3>1, <3>2 DEF Given
  <2> QED BY <2>1, <2>2
<1> QED BY <1>7, <1>8, <1>9, <1>10, <1>11 DEF CalmInv

(* A batch commits. *)
LEMMA CommitBatchCalm ==
  ASSUME JobsInv, EventsInv, ReadsInv, CalmInv, NEW w \in Workers, CommitBatch(w)
  PROVE  CalmInv'
<1> DEFINE events == worker[w].events
           full == Cardinality(events) = BatchSize
           after == IF full THEN "running" ELSE "completed"
<1>1. PICK j \in Jobs : j = worker[w].job /\ Exists(j)
  BY BatchCommits
<1>2. worker[w].pc = "batch" /\ worker[w].read /\ UNCHANGED <<rules, version, intake>>
  BY DEF CommitBatch
<1>3. job' = [job EXCEPT ![j] = [@ EXCEPT
        !.version = worker[w].version, !.status = after,
        !.cursor = BatchEnd(j, events), !.examined = Examined(j, events)]]
  BY <1>1 DEF CommitBatch
<1>4. \A v \in Workers : worker'[v].pc = "batch" =>
        v # w /\ worker'[v] = worker[v] /\ worker[v].job # j
  BY <1>1, CommitBatchLeaves
<1>5. \A k \in Jobs : k # j => job'[k] = job[k]
  BY <1>1, CommitBatchLeaves
<1>6. job[j] \in JobType
  BY <1>1, RowOfJob
<1>7. /\ job'[j].version = worker[w].version /\ job'[j].status = after
      /\ job'[j].cursor = BatchEnd(j, events) /\ job'[j].rule = job[j].rule
      /\ job'[j].document = job[j].document /\ job'[j].cutoff = job[j].cutoff
      /\ job'[j].made = job[j].made /\ job'[j].calm = job[j].calm
  <2> DEFINE end == BatchEnd(j, events)
             examined == Examined(j, events)
  <2> HIDE DEF end, examined, after
  <2>1. job'[j] = [job[j] EXCEPT !.version = worker[w].version, !.status = after,
                                 !.cursor = end, !.examined = examined]
    BY <1>3 DEF JobsInv, end, examined
  <2>2. /\ job'[j].version = worker[w].version /\ job'[j].status = after
        /\ job'[j].cursor = end /\ job'[j].rule = job[j].rule
        /\ job'[j].document = job[j].document /\ job'[j].cutoff = job[j].cutoff
        /\ job'[j].made = job[j].made /\ job'[j].calm = job[j].calm
    BY <1>6, <2>1 DEF JobType
  <2> QED BY <2>2 DEF end
<1> HIDE DEF after
<1>8. after \in Active \cup Ended /\ after # "none"
  BY DEF after, Active, Ended
<1>9. \A k \in Jobs : /\ Exists(k)' <=> Exists(k)
                      /\ job'[k].rule = job[k].rule /\ job'[k].document = job[k].document
                      /\ job'[k].cutoff = job[k].cutoff /\ job'[k].made = job[k].made
                      /\ job'[k].calm = job[k].calm
  BY <1>1, <1>5, <1>7, <1>8 DEF Exists
<1>10. \A k \in Jobs : Fresh(k)' <=> Fresh(k)
  BY <1>2, <1>9 DEF Fresh
<1>11. Dates'
  BY <1>2, <1>4, <1>9 DEF CalmInv, Dates
<1>12. Undisturbed'
  BY <1>2, <1>4, <1>9, <1>10 DEF CalmInv, Undisturbed
<1>13. PICK own \in RuleIds : own = job[j].rule
  BY <1>1, RowOfJob
<1>14. ASSUME AllApply', NEW k \in Jobs, Fresh(k)
       PROVE  AllApply /\ worker[w].rules = rules /\ job[j].document = rules[own]
  <2>1. worker[w].version = version /\ worker[w].rules = rules
    BY <1>2, <1>14 DEF CalmInv, Undisturbed, Dates
  <2>2. job[j].document = rules[own]
    <3>1. AppliesSavedRule(j)' /\ Exists(j)' /\ job'[j].version = version'
      BY <1>1, <1>2, <1>7, <1>9, <1>14, <2>1 DEF AllApply
    <3> QED BY <1>2, <1>7, <1>13, <3>1 DEF AppliesSavedRule
  <2>3. AllApply
    <3> SUFFICES ASSUME NEW i \in Jobs, i # j, Exists(i) PROVE AppliesSavedRule(i)
      BY <1>13, <2>2 DEF AllApply, AppliesSavedRule
    <3>1. AppliesSavedRule(i)' /\ job'[i] = job[i] /\ Exists(i)'
      BY <1>5, <1>9, <1>14 DEF AllApply
    <3> QED BY <1>2, <3>1 DEF AppliesSavedRule
  <2> QED BY <2>1, <2>2, <2>3
<1>15. Progressed'
  <2> SUFFICES ASSUME AllApply', NEW k \in Jobs, Fresh(k)', NEW e \in job'[k].cutoff,
                      e <= job'[k].cursor \/ job'[k].status = "completed"
               PROVE  Sound(job[k].rule, e)'
    BY DEF Progressed
  <2>1. Fresh(k) /\ e \in job[k].cutoff /\ Exists(k)
    BY <1>9, <1>10 DEF Fresh
  <2>2. AllApply /\ worker[w].rules = rules /\ job[j].document = rules[own]
    BY <1>14, <2>1
  <2>3. e \in Events /\ intake[e] = "stored"
    BY <2>1, RowOfJob DEF CalmInv, Undisturbed
  <2>4. PICK r \in RuleIds : r = job[k].rule /\ job'[k].rule = r
    BY <1>9, <2>1, RowOfJob
  <2>5. /\ \A d \in Events : \A q \in RuleIds : Sound(q, d) => Sound(q, d)'
        /\ Given(w, j) => \A d \in events : Sound(own, d)'
    BY <1>1, <1>13, <2>2, BatchReconciles
  <2>6. Sound(r, e) => Sound(job[k].rule, e)'
    <3>1. Sound(r, e) => Sound(r, e)'
      BY <2>3, <2>5
    <3> QED BY <2>4, <3>1 DEF Sound
  <2>7. e <= job[k].cursor \/ job[k].status = "completed" => Sound(r, e)
    BY <2>1, <2>2, <2>4 DEF CalmInv, Progressed
  <2>8. CASE k # j
    BY <1>5, <2>6, <2>7, <2>8
  <2>9. CASE k = j /\ e \in events
    <3>1. Given(w, j)
      BY <1>1, <1>2, <2>1, <2>2, <2>9 DEF CalmInv, Unseen
    <3> QED BY <1>13, <2>4, <2>5, <2>9, <3>1 DEF Sound
  <2>10. CASE k = j /\ e \notin events
    <3>1. events = Batch(j)
      BY <1>1, <1>2, <2>1, <2>10 DEF CalmInv, Whole
    <3>2. job[j].cursor \in Int /\ e \in Int
      <4>1. job[j].cursor \in 0..LastEvent
        BY <1>1, RowOfJob
      <4> QED BY <2>3, <4>1, LastEventAssumption DEF Events
    <3>3. CASE e <= job[j].cursor
      BY <2>6, <2>7, <2>10, <3>3
    <3>4. CASE ~ (e <= job[j].cursor)
      <4>1. e \in Remaining(j)
        BY <2>1, <2>3, <2>10, <3>2, <3>4 DEF Remaining, Stored
      <4>2. ~ (e <= BatchEnd(j, events))
        BY <1>1, <2>10, <3>1, <4>1, BatchIsWhole
      <4>3. after = "completed"
        BY <1>7, <2>10, <4>2
      <4>4. Cardinality(Batch(j)) # BatchSize
        BY <3>1, <4>3 DEF after
      <4>5. Batch(j) = Remaining(j)
        BY <1>1, <4>4, BatchIsWhole
      <4> QED BY <2>10, <3>1, <4>1, <4>5
    <3> QED BY <3>3, <3>4
  <2> QED BY <2>8, <2>9, <2>10
<1>16. Whole'
  <2> SUFFICES ASSUME NEW u \in Workers, NEW k \in Jobs, worker'[u].pc = "batch",
                      worker'[u].job = k, worker'[u].read, Fresh(k)'
               PROVE  worker'[u].events = Batch(k)'
    BY DEF Whole
  <2>1. worker'[u] = worker[u] /\ job'[k] = job[k] /\ Fresh(k)
    BY <1>4, <1>5, <1>10
  <2>2. Batch(k)' = Batch(k)
    BY <1>2, <2>1 DEF Batch, Remaining, Stored
  <2> QED BY <2>1, <2>2 DEF CalmInv, Whole
<1>17. Unseen'
  <2> SUFFICES ASSUME AllApply', NEW u \in Workers, NEW k \in Jobs, worker'[u].pc = "batch",
                      worker'[u].job = k, Fresh(k)', NEW e \in worker'[u].events,
                      mapping'[e] = job'[k].rule, worker'[u].seen[e] # job'[k].rule
               PROVE  e \in Matches(rules[job'[k].rule])
    BY <1>2 DEF Unseen, Given, Matches
  <2>1. worker'[u] = worker[u] /\ Fresh(k) /\ Exists(k)
    BY <1>4, <1>10 DEF Fresh
  <2>2. AllApply /\ worker[w].rules = rules /\ job[j].document = rules[own]
    BY <1>14, <2>1
  <2>3. PICK r \in RuleIds : r = job[k].rule /\ job'[k].rule = r
    BY <1>9, <2>1, RowOfJob
  <2>4. e \in Events
    BY <2>1, TaskOfWorker
  <2>5. CASE mapping[e] = r
    BY <2>1, <2>2, <2>3, <2>5 DEF CalmInv, Unseen, Given
  <2>6. CASE mapping[e] # r
    <3>1. \A d \in Events : \A q \in RuleIds :
            mapping'[d] = q /\ mapping[d] # q => d \in Matches(rules[q])
      BY <1>1, <1>13, <2>2, BatchReconciles
    <3> QED BY <2>3, <2>4, <2>6, <3>1
  <2> QED BY <2>5, <2>6
<1> QED BY <1>11, <1>12, <1>15, <1>16, <1>17 DEF CalmInv

LEMMA CalmStep == JobsInv /\ EventsInv /\ ReadsInv /\ CalmInv /\ [Next]_vars => CalmInv'
<1> SUFFICES ASSUME JobsInv, EventsInv, ReadsInv, CalmInv, [Next]_vars PROVE CalmInv'
  OBVIOUS
<1>1. CASE Quiet
  BY <1>1, CalmStays
<1>2. ASSUME NEW r \in RuleIds, NEW document \in Documents \cup {Absent}, NEW apply \in BOOLEAN,
             SaveRule(r, document, apply)
      PROVE  CalmInv'
  BY <1>2, SaveRuleCalm
<1>3. CASE QueueJob
  BY <1>3, QueueJobCalm
<1>4. ASSUME NEW w \in Workers, ReadBatch(w) \/ CommitBatch(w) PROVE CalmInv'
  BY <1>4, ReadBatchCalm, CommitBatchCalm
<1> QED BY <1>1, <1>2, <1>3, <1>4, Steps

LEMMA CalmInitially == Init => CalmInv
<1> SUFFICES ASSUME Init PROVE CalmInv
  OBVIOUS
<1>1. (\A j \in Jobs : ~ Exists(j)) /\ \A w \in Workers : worker[w].pc # "batch"
  BY DEF Init, Exists, NoJob, Idle
<1> QED BY <1>1 DEF CalmInv, Dates, Undisturbed, Progressed, Whole, Unseen, Fresh

(* What calm jobs have made of the mappings they passed is inductive. *)
THEOREM CalmInvariant == Spec => []CalmInv
<1>1. Init => CalmInv
  BY CalmInitially
<1>2. BackfillInv => JobsInv /\ EventsInv /\ ReadsInv
  BY DEF BackfillInv
<1>3. JobsInv /\ EventsInv /\ ReadsInv /\ CalmInv /\ [Next]_vars => CalmInv'
  BY CalmStep
<1> QED BY <1>1, <1>2, <1>3, Invariant, PTL DEF Spec

(* A completed backfill that was queued with nothing under way has         *)
(* reconciled its rule with every earlier event (process_batch), whatever  *)
(* batches of this and other jobs, retries, failures and manual mappings   *)
(* came in between.                                                        *)
THEOREM CalmBackfillsReconcile == Spec => []ReconciledWhenCalm
<1>1. JobsInv /\ CalmInv => ReconciledWhenCalm
  <2> SUFFICES ASSUME JobsInv, CalmInv, NEW j \in Jobs, job[j].status = "completed",
                      job[j].calm, job[j].made = version, AllApply, NEW e \in job[j].cutoff
               PROVE  Sound(job[j].rule, e)
    BY DEF ReconciledWhenCalm, Sound, AllApply
  <2>1. Fresh(j)
    BY DEF Fresh, Exists
  <2> QED BY <2>1 DEF CalmInv, Progressed
<1>2. BackfillInv => JobsInv
  BY DEF BackfillInv
<1> QED BY <1>1, <1>2, CalmInvariant, Invariant, PTL
=============================================================================
