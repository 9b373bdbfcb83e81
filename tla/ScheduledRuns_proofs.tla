------------------------- MODULE ScheduledRuns_proofs -------------------------
(***************************************************************************)
(* Theorems about the two things the worker runs when they fall due: the   *)
(* runs of an ingester (CollectorRuns), for any sets of runs and ticks and *)
(* any failure limit, and the audits of a schedule (Schedules), for any    *)
(* schedules people enter, edits and number of tasks.                      *)
(*                                                                         *)
(* OneActiveRun and BudgetStopsCollection are proved together with the     *)
(* type invariant: failures stay within FailureLimit only because the run  *)
(* that fails is the one active run, and an active collecting run implies  *)
(* that budget is left.                                                    *)
(*                                                                         *)
(* Audits move forward because the row of the schedule, read again under   *)
(* its lock, remembers the date of the last one, whatever moves its next   *)
(* run.  A reminder goes out again only for a send that failed, and one    *)
(* that is claimed and not sent is in the hands of one task, or was in     *)
(* those of one that died.                                                 *)
(*                                                                         *)
(* The next run keeps to the plan because a step from a planned run comes  *)
(* to the planned run after it; no run is missed because the daily task    *)
(* leaves nothing due behind it.  Both rest on the calendar: what a month  *)
(* is, which day of it a schedule keeps, and that months only grow.        *)
(***************************************************************************)
EXTENDS CollectorRuns, Schedules, TLAPS, FiniteSetTheorems, WellFoundedInduction

BudgetInv == TypeOK /\ OneActiveRun /\ BudgetStopsCollection

\* Failing a run keeps the row types, leaves no other run active than before,
\* and pauses collection when it uses up the budget.
LEMMA FailKeepsBudget ==
  ASSUME BudgetInv, NEW r \in Runs, Fail(r)
  PROVE  /\ run' \in [Runs -> RunType] /\ failures' \in 0..FailureLimit
         /\ enabled' \in BOOLEAN /\ charges' \in [Runs -> Nat]
         /\ OneActiveRun' /\ BudgetStopsCollection'
  <1> USE FailureLimitAssumption DEF BudgetInv, TypeOK
  <1>1. CASE run[r].status \notin Active
    BY <1>1 DEF Fail, OneActiveRun, BudgetStopsCollection, ActiveRuns
  <1>2. CASE run[r].status \in Active
    <2>1. r \in ActiveRuns
      BY <1>2 DEF ActiveRuns
    <2>2. run' = [run EXCEPT ![r].status = "failed"]
      BY <1>2 DEF Fail
    <2>3. run' \in [Runs -> RunType]
      BY <2>2 DEF RunType, Finished
    <2>4. ActiveRuns' = {}
      BY <2>1, <2>2 DEF OneActiveRun, ActiveRuns, Active
    <2>5. ~run[r].preview => failures < FailureLimit
      BY <2>1 DEF BudgetStopsCollection
    <2>6. /\ failures' \in 0..FailureLimit /\ enabled' \in BOOLEAN
          /\ failures' >= FailureLimit => ~enabled'
      <3>1. CASE run[r].preview
        <4>1. failures' = failures /\ (enabled' <=> enabled)
          BY <1>2, <3>1 DEF Fail
        <4>2. enabled' \in BOOLEAN
          BY <1>2 DEF Fail
        <4> QED BY <4>1, <4>2 DEF BudgetStopsCollection
      <3>2. CASE ~run[r].preview
        <4>1. failures' = failures + 1
          BY <1>2, <3>2 DEF Fail
        <4>2. enabled' <=> enabled /\ ~(failures + 1 >= FailureLimit)
          BY <1>2, <3>2 DEF Fail
        <4>3. enabled' \in BOOLEAN
          BY <1>2 DEF Fail
        <4> QED BY <4>1, <4>2, <4>3, <3>2, <2>5
      <3> QED BY <3>1, <3>2
    <2>7. charges' \in [Runs -> Nat]
      BY <1>2 DEF Fail
    <2> QED BY <2>3, <2>4, <2>6, <2>7 DEF OneActiveRun, BudgetStopsCollection
  <1> QED BY <1>1, <1>2

\* queue_run leaves exactly one active run, and that run is within budget when
\* the caller consulted the budget.
LEMMA QueueKeepsBudget ==
  ASSUME BudgetInv, NEW r \in Runs, NEW preview \in BOOLEAN,
         QueueRun(r, preview), preview \/ failures < FailureLimit
  PROVE  /\ run' \in [Runs -> RunType] /\ posting' \subseteq Runs
         /\ OneActiveRun'
         /\ failures >= FailureLimit => \A s \in ActiveRuns' : run'[s].preview
  <1> USE DEF BudgetInv, TypeOK
  <1>1. run' \in [Runs -> RunType]
    BY DEF QueueRun, RunType, Active, Finished
  <1>2. ActiveRuns' = {r} /\ run'[r].preview = preview
    BY DEF QueueRun, ActiveRuns, Active
  <1>3. OneActiveRun'
    BY <1>2 DEF OneActiveRun
  <1>4. posting' \subseteq Runs
    BY DEF QueueRun
  <1>5. ~(failures < FailureLimit) => preview
    OBVIOUS
  <1>6. failures >= FailureLimit => ~(failures < FailureLimit)
    BY FailureLimitAssumption
  <1>7. ASSUME failures >= FailureLimit, NEW s \in ActiveRuns' PROVE run'[s].preview
    <2>1. preview
      BY <1>5, <1>6, <1>7
    <2>2. s = r
      BY <1>2, <1>7
    <2> QED BY <1>2, <2>1, <2>2, Zenon
  <1> QED BY <1>1, <1>3, <1>4, <1>7

\* The initial rows, workers and ticks have their types.
LEMMA RowTypes ==
  /\ NoRun \in RunType /\ Resting \in WorkerType /\ AtRest \in TickType
  /\ [Resting EXCEPT !.pc = "claimed"] \in WorkerType
  <1>1. NoRun \in RunType /\ AtRest \in TickType
    BY MaxVersionAssumption DEF NoRun, AtRest, RunType, TickType
  <1>2. Resting \in WorkerType /\ [Resting EXCEPT !.pc = "claimed"] \in WorkerType
    BY MaxRecordAssumption, FailureLimitAssumption DEF Resting, WorkerType
  <1> QED BY <1>1, <1>2

LEMMA BudgetInit == Init => BudgetInv
  <1> SUFFICES ASSUME Init PROVE BudgetInv
    OBVIOUS
  <1>1. /\ run \in [Runs -> RunType] /\ worker \in [Runs -> WorkerType]
        /\ tick \in [Ticks -> TickType]
    BY RowTypes DEF Init
  <1>2. TypeOK
    <2>1. /\ failures \in 0..FailureLimit /\ version \in 1..MaxVersion /\ live \in 0..MaxVersion
          /\ cursor \in 0..MaxRecord /\ upstream \in 0..MaxRecord
      BY FailureLimitAssumption, MaxVersionAssumption, MaxRecordAssumption DEF Init
    <2>2. /\ enabled \in BOOLEAN /\ due \in BOOLEAN /\ paused \in BOOLEAN
          /\ charges \in [Runs -> Nat]
      BY DEF Init
    <2>3. /\ published \subseteq 1..MaxVersion /\ stored \subseteq 1..MaxRecord
          /\ posting \subseteq Runs /\ refused \subseteq Runs /\ message \subseteq Runs
      BY DEF Init
    <2> QED BY <1>1, <2>1, <2>2, <2>3 DEF TypeOK
  <1>3. ActiveRuns = {}
    BY DEF Init, ActiveRuns, NoRun, Active
  <1> QED BY <1>2, <1>3, FailureLimitAssumption
      DEF Init, BudgetInv, OneActiveRun, BudgetStopsCollection

\* Actions of the API under the collector's row lock.
LEMMA BudgetApi == BudgetInv /\ ApiNext => BudgetInv'
  <1> SUFFICES ASSUME BudgetInv, ApiNext PROVE BudgetInv'
    OBVIOUS
  <1> USE FailureLimitAssumption, MaxVersionAssumption DEF BudgetInv, TypeOK
  <1> USE DEF collector, broker, OneActiveRun, BudgetStopsCollection, ActiveRuns
  <1>1. CASE SaveCollector
    BY <1>1 DEF SaveCollector
  <1>2. CASE Publish
    BY <1>2 DEF Publish
  <1>3. CASE Pause
    BY <1>3 DEF Pause
  <1>4. CASE Resume
    BY <1>4 DEF Resume
  <1>5. CASE ResetCursor
    BY <1>5, MaxRecordAssumption DEF ResetCursor
  <1>6. ASSUME NEW revision \in 1..MaxVersion, Rollback(revision) PROVE BudgetInv'
    BY <1>6 DEF Rollback
  <1>7. ASSUME NEW r \in Runs, NEW preview \in BOOLEAN, RequestRun(r, preview)
        PROVE BudgetInv'
    <2>1. preview \/ failures < FailureLimit
      BY <1>7 DEF RequestRun
    <2>2. QueueRun(r, preview)
      BY <1>7 DEF RequestRun
    <2>3. /\ run' \in [Runs -> RunType] /\ posting' \subseteq Runs /\ OneActiveRun'
          /\ failures >= FailureLimit => \A s \in ActiveRuns' : run'[s].preview
      BY <2>1, <2>2, QueueKeepsBudget
    <2> QED BY <2>3, <1>7 DEF RequestRun
  <1> QED BY <1>1, <1>2, <1>3, <1>4, <1>5, <1>6, <1>7 DEF ApiNext

\* dispatch and its failure.
LEMMA BudgetPoster == BudgetInv /\ PosterNext => BudgetInv'
  <1> SUFFICES ASSUME BudgetInv, NEW r \in Runs,
                      Dispatch(r) \/ DispatchRaises(r) \/ FailRefused(r) \/ PosterDies(r)
               PROVE  BudgetInv'
    BY DEF PosterNext
  <1> USE DEF BudgetInv, TypeOK, collector, broker
  <1>1. CASE FailRefused(r)
    <2>1. Fail(r)
      BY <1>1 DEF FailRefused
    <2>2. /\ run' \in [Runs -> RunType] /\ failures' \in 0..FailureLimit
          /\ enabled' \in BOOLEAN /\ charges' \in [Runs -> Nat]
          /\ OneActiveRun' /\ BudgetStopsCollection'
      BY <2>1, FailKeepsBudget
    <2> QED BY <1>1, <2>1, <2>2 DEF FailRefused, Fail
  <1>2. CASE Dispatch(r)
    BY <1>2 DEF Dispatch, OneActiveRun, BudgetStopsCollection, ActiveRuns
  <1>3. CASE DispatchRaises(r)
    BY <1>3 DEF DispatchRaises, OneActiveRun, BudgetStopsCollection, ActiveRuns
  <1>4. CASE PosterDies(r)
    BY <1>4 DEF PosterDies, OneActiveRun, BudgetStopsCollection, ActiveRuns
  <1> QED BY <1>1, <1>2, <1>3, <1>4

\* A worker that collects, stores, finishes, or stops.  Its assignments can
\* only take its own run out of the active statuses.
LEMMA BudgetWorker == BudgetInv /\ WorkerNext => BudgetInv'
  <1> SUFFICES ASSUME BudgetInv, NEW r \in Runs,
                      Claim(r) \/ LoseMessage(r) \/ WorkerStep(r)
               PROVE  BudgetInv'
    BY DEF WorkerNext
  <1> USE MaxRecordAssumption, FailureLimitAssumption DEF BudgetInv, TypeOK, collector, broker
  <1>1. CASE Claim(r)
    <2>1. CASE run[r].status = "queued"
      <3>1. /\ run' \in [Runs -> RunType] /\ worker' \in [Runs -> WorkerType]
            /\ message' \subseteq Runs
        <4>1. run' \in [Runs -> RunType]
          BY <1>1, <2>1 DEF Claim, RunType, Active
        <4>2. worker' \in [Runs -> WorkerType] /\ message' \subseteq Runs
          BY <1>1, <2>1, RowTypes DEF Claim
        <4> QED BY <4>1, <4>2
      <3>2. ActiveRuns' = ActiveRuns /\ \A s \in Runs : run'[s].preview = run[s].preview
        <4>1. run[r] \in RunType /\ run' = [run EXCEPT ![r] =
                [run[r] EXCEPT !.status = "running", !.aged = FALSE]]
          BY <1>1, <2>1 DEF Claim
        <4>2. run'[r].status = "running" /\ run'[r].preview = run[r].preview
          BY <4>1 DEF RunType
        <4>3. \A s \in Runs : s # r => run'[s] = run[s]
          BY <4>1
        <4> QED BY <2>1, <4>2, <4>3 DEF ActiveRuns, Active
      <3>3. ActiveRuns \subseteq Runs
        BY DEF ActiveRuns
      <3>4. OneActiveRun' /\ BudgetStopsCollection'
        BY <1>1, <3>2, <3>3, Zenon DEF Claim, OneActiveRun, BudgetStopsCollection
      <3> QED BY <1>1, <3>1, <3>4 DEF Claim
    <2>2. CASE run[r].status # "queued"
      BY <1>1, <2>2 DEF Claim, OneActiveRun, BudgetStopsCollection, ActiveRuns
    <2> QED BY <2>1, <2>2
  <1>2. CASE LoseMessage(r)
    BY <1>2 DEF LoseMessage, OneActiveRun, BudgetStopsCollection, ActiveRuns
  <1>3. CASE CheckPaused(r)
    <2>1. /\ run' \in [Runs -> RunType] /\ worker' \in [Runs -> WorkerType]
      <3>1. CASE paused
        <4>1. run' \in [Runs -> RunType]
          BY <1>3, <3>1 DEF CheckPaused, RunType, Finished
        <4>2. worker' \in [Runs -> WorkerType]
          BY <1>3, <3>1, RowTypes DEF CheckPaused
        <4> QED BY <4>1, <4>2
      <3>2. CASE ~paused
        BY <1>3, <3>2 DEF CheckPaused, WorkerType
      <3> QED BY <3>1, <3>2
    <2>2. ActiveRuns' \subseteq ActiveRuns /\ \A s \in Runs : run'[s].preview = run[s].preview
      BY <1>3 DEF CheckPaused, ActiveRuns, Active, RunType
    <2>3. OneActiveRun' /\ BudgetStopsCollection'
      BY <1>3, <2>2, ActiveRuns \subseteq Runs, Zenon
      DEF CheckPaused, OneActiveRun, BudgetStopsCollection, ActiveRuns
    <2> QED BY <1>3, <2>1, <2>3 DEF CheckPaused
  <1>4. CASE Collect(r)
    <2>1. worker' \in [Runs -> WorkerType]
      BY <1>4 DEF Collect, WorkerType
    <2> QED BY <1>4, <2>1 DEF Collect, OneActiveRun, BudgetStopsCollection, ActiveRuns
  <1>5. CASE Store(r)
    <2>1. worker' \in [Runs -> WorkerType] /\ stored' \subseteq 1..MaxRecord
      BY <1>5 DEF Store, WorkerType, Collectable
    <2> QED BY <1>5, <2>1 DEF Store, OneActiveRun, BudgetStopsCollection, ActiveRuns
  <1>6. CASE Finish(r)
    <2>1. /\ run' \in [Runs -> RunType] /\ worker' \in [Runs -> WorkerType]
          /\ cursor' \in 0..MaxRecord /\ failures' \in {0, failures}
      BY <1>6 DEF Finish, RunType, WorkerType, Resting, Finished
    <2>2. ActiveRuns' \subseteq ActiveRuns /\ \A s \in Runs : run'[s].preview = run[s].preview
      BY <1>6 DEF Finish, ActiveRuns, Active, RunType
    <2>3. failures' \in 0..FailureLimit /\ (failures' >= FailureLimit => failures >= FailureLimit)
      BY <2>1
    <2>4. OneActiveRun' /\ BudgetStopsCollection'
      BY <1>6, <2>2, <2>3, ActiveRuns \subseteq Runs, Zenon
      DEF Finish, OneActiveRun, BudgetStopsCollection, ActiveRuns
    <2> QED BY <1>6, <2>1, <2>3, <2>4 DEF Finish
  <1>7. CASE Raise(r)
    <2>1. Fail(r)
      BY <1>7 DEF Raise
    <2>2. /\ run' \in [Runs -> RunType] /\ failures' \in 0..FailureLimit
          /\ enabled' \in BOOLEAN /\ charges' \in [Runs -> Nat]
          /\ OneActiveRun' /\ BudgetStopsCollection'
      BY <2>1, FailKeepsBudget
    <2>3. worker' \in [Runs -> WorkerType]
      BY <1>7 DEF Raise, WorkerType, Resting
    <2> QED BY <1>7, <2>1, <2>2, <2>3 DEF Raise, Fail
  <1>8. CASE Kill(r)
    <2>1. worker' \in [Runs -> WorkerType]
      BY <1>8 DEF Kill, WorkerType, Resting
    <2> QED BY <1>8, <2>1 DEF Kill, OneActiveRun, BudgetStopsCollection, ActiveRuns
  <1> QED BY <1>1, <1>2, <1>3, <1>4, <1>5, <1>6, <1>7, <1>8 DEF WorkerStep

\* Overlapping ticks.
LEMMA BudgetTick == BudgetInv /\ TickNext => BudgetInv'
  <1> SUFFICES ASSUME BudgetInv, NEW t \in Ticks,
                      \/ TickStart(t) \/ TickQueue(t) \/ TickEnd(t)
                      \/ \E r \in Runs : TickFail(t, r)
               PROVE  BudgetInv'
    BY DEF TickNext
  <1> USE FailureLimitAssumption DEF BudgetInv, TypeOK, collector, broker
  <1>1. CASE TickStart(t)
    <2>1. /\ run' \in [Runs -> RunType] /\ tick' \in [Ticks -> TickType]
      <3>1. CASE paused
        <4>1. ASSUME NEW r \in Runs PROVE [run[r] EXCEPT !.status = "cancelled"] \in RunType
          BY DEF RunType, Finished
        <4>2. run' \in [Runs -> RunType]
          BY <1>1, <3>1, <4>1, Zenon DEF TickStart
        <4> QED BY <1>1, <3>1, <4>2 DEF TickStart
      <3>2. CASE ~paused
        BY <1>1, <3>2 DEF TickStart, TickType, ActiveRuns
      <3> QED BY <3>1, <3>2
    <2>2. ActiveRuns' \subseteq ActiveRuns /\ \A s \in Runs : run'[s].preview = run[s].preview
      BY <1>1 DEF TickStart, ActiveRuns, Active, RunType
    <2>3. OneActiveRun' /\ BudgetStopsCollection'
      BY <1>1, <2>2, ActiveRuns \subseteq Runs, Zenon
      DEF TickStart, OneActiveRun, BudgetStopsCollection, ActiveRuns
    <2> QED BY <1>1, <2>1, <2>3 DEF TickStart
  <1>2. ASSUME NEW r \in Runs, TickFail(t, r) PROVE BudgetInv'
    <2>1. Fail(r)
      BY <1>2 DEF TickFail
    <2>2. /\ run' \in [Runs -> RunType] /\ failures' \in 0..FailureLimit
          /\ enabled' \in BOOLEAN /\ charges' \in [Runs -> Nat]
          /\ OneActiveRun' /\ BudgetStopsCollection'
      BY <2>1, FailKeepsBudget
    <2>3. tick' \in [Ticks -> TickType]
      BY <1>2 DEF TickFail, TickType
    <2> QED BY <1>2, <2>1, <2>2, <2>3 DEF TickFail, Fail
  <1>3. CASE TickQueue(t)
    <2>1. tick' \in [Ticks -> TickType] /\ due' \in BOOLEAN
      BY <1>3 DEF TickQueue, TickType, AtRest
    <2>2. ASSUME NEW r \in Runs, QueueRun(r, FALSE) PROVE BudgetInv'
      <3>1. failures < FailureLimit
        BY <1>3 DEF TickQueue, BudgetStopsCollection
      <3>2. /\ run' \in [Runs -> RunType] /\ posting' \subseteq Runs /\ OneActiveRun'
        BY <2>2, <3>1, QueueKeepsBudget, Zenon
      <3> QED BY <1>3, <2>1, <3>1, <3>2 DEF TickQueue, BudgetStopsCollection
    <2>3. CASE UNCHANGED <<run, posting>>
      BY <1>3, <2>1, <2>3 DEF TickQueue, OneActiveRun, BudgetStopsCollection, ActiveRuns
    <2> QED BY <1>3, <2>2, <2>3 DEF TickQueue
  <1>4. CASE TickEnd(t)
    <2>1. tick' \in [Ticks -> TickType]
      BY <1>4 DEF TickEnd, TickType, AtRest
    <2> QED BY <1>4, <2>1 DEF TickEnd, OneActiveRun, BudgetStopsCollection, ActiveRuns
  <1> QED BY <1>1, <1>2, <1>3, <1>4

LEMMA BudgetEnv == BudgetInv /\ EnvNext => BudgetInv'
  <1> SUFFICES ASSUME BudgetInv, EnvNext PROVE BudgetInv'
    OBVIOUS
  <1> USE MaxRecordAssumption DEF BudgetInv, TypeOK, collector, broker
  <1>1. CASE ComeDue
    BY <1>1 DEF ComeDue, OneActiveRun, BudgetStopsCollection, ActiveRuns
  <1>2. CASE SetPaused
    BY <1>2 DEF SetPaused, OneActiveRun, BudgetStopsCollection, ActiveRuns
  <1>3. CASE NewRecord
    BY <1>3 DEF NewRecord, OneActiveRun, BudgetStopsCollection, ActiveRuns
  <1>4. ASSUME NEW r \in Runs, Age(r) PROVE BudgetInv'
    <2>1. run' \in [Runs -> RunType]
      BY <1>4 DEF Age, RunType
    <2>2. ActiveRuns' = ActiveRuns /\ \A s \in Runs : run'[s].preview = run[s].preview
      BY <1>4 DEF Age, ActiveRuns, RunType
    <2>3. OneActiveRun' /\ BudgetStopsCollection'
      BY <1>4, <2>2, ActiveRuns \subseteq Runs, Zenon
      DEF Age, OneActiveRun, BudgetStopsCollection, ActiveRuns
    <2> QED BY <1>4, <2>1, <2>3 DEF Age
  <1> QED BY <1>1, <1>2, <1>3, <1>4 DEF EnvNext

LEMMA BudgetStutter == BudgetInv /\ UNCHANGED vars => BudgetInv'
  BY DEF BudgetInv, TypeOK, OneActiveRun, BudgetStopsCollection, ActiveRuns, vars,
         collector, broker

THEOREM BudgetInvariant == Spec => []BudgetInv
  <1>1. BudgetInv /\ [Next]_vars => BudgetInv'
    BY BudgetApi, BudgetPoster, BudgetWorker, BudgetTick, BudgetEnv, BudgetStutter DEF Next
  <1> QED BY BudgetInit, <1>1, PTL DEF Spec

\* Every variable keeps its type; the failure count in particular never
\* exceeds the limit.
THEOREM TypeCorrect == Spec => []TypeOK
  <1>1. BudgetInv => TypeOK
    BY DEF BudgetInv
  <1> QED BY <1>1, BudgetInvariant, PTL

\* However requests, ticks and workers interleave, a collector never has two
\* queued or running runs.
THEOREM OneActiveRunAlways == Spec => []OneActiveRun
  BY BudgetInvariant, PTL DEF BudgetInv

\* After FailureLimit failed runs nothing collects, and nothing is scheduled,
\* until an operator resumes collection.
THEOREM BudgetAlwaysStopsCollection == Spec => []BudgetStopsCollection
  BY BudgetInvariant, PTL DEF BudgetInv
-----------------------------------------------------------------------------
(***************************************************************************)
(* A run consumes budget at most once: a charged run is finished, and no   *)
(* process makes a finished run active again, not even a late worker.      *)
(***************************************************************************)

ChargeInv ==
  \A r \in Runs : charges[r] = 0 \/ (charges[r] = 1 /\ run[r].status \in Finished)

LEMMA FailKeepsCharge ==
  ASSUME TypeOK, ChargeInv, NEW r \in Runs, Fail(r) PROVE ChargeInv'
  <1> SUFFICES ASSUME NEW s \in Runs
               PROVE  charges'[s] = 0 \/ (charges'[s] = 1 /\ run'[s].status \in Finished)
    BY DEF ChargeInv
  <1> USE DEF TypeOK
  <1>1. CASE run[r].status \notin Active
    BY <1>1 DEF Fail, ChargeInv
  <1>2. CASE run[r].status \in Active
    <2>1. charges[r] = 0
      BY <1>2 DEF ChargeInv, Active, Finished
    <2>2. run' = [run EXCEPT ![r].status = "failed"] /\ run[r] \in RunType
      BY <1>2 DEF Fail
    <2>3. run'[r].status = "failed" /\ (s # r => run'[s] = run[s])
      BY <2>2 DEF RunType
    <2>4. charges' = charges \/ charges' = [charges EXCEPT ![r] = 1]
      BY <1>2, <2>1 DEF Fail
    <2>5. CASE s = r
      BY <2>1, <2>3, <2>4, <2>5 DEF Finished
    <2>6. CASE s # r
      BY <2>3, <2>4, <2>6 DEF ChargeInv
    <2> QED BY <2>5, <2>6
  <1> QED BY <1>1, <1>2

\* Every other step leaves the charges alone, and a finished run finished.
LEMMA FinishedStaysFinished ==
  ASSUME TypeOK, NEW r \in Runs,
         \/ ApiNext \/ EnvNext
         \/ \E s \in Runs : \/ Dispatch(s) \/ DispatchRaises(s) \/ PosterDies(s)
                           \/ Claim(s) \/ LoseMessage(s) \/ CheckPaused(s)
                           \/ Collect(s) \/ Store(s) \/ Finish(s) \/ Kill(s)
         \/ \E t \in Ticks : TickStart(t) \/ TickQueue(t) \/ TickEnd(t)
         \/ UNCHANGED vars
  PROVE  charges' = charges /\ (run[r].status \in Finished => run'[r].status \in Finished)
  <1> USE DEF TypeOK, collector, broker
  <1>1. CASE ApiNext
    BY <1>1 DEF ApiNext, SaveCollector, Publish, Pause, Resume, ResetCursor, Rollback,
                RequestRun, QueueRun, Finished, RunType
  <1>2. CASE EnvNext
    BY <1>2 DEF EnvNext, ComeDue, SetPaused, NewRecord, Age, Active, Finished, RunType
  <1>3. ASSUME NEW s \in Runs, \/ Dispatch(s) \/ DispatchRaises(s) \/ PosterDies(s)
                               \/ LoseMessage(s) \/ Collect(s) \/ Store(s) \/ Kill(s)
        PROVE  charges' = charges /\ run' = run
    BY <1>3 DEF Dispatch, DispatchRaises, PosterDies, LoseMessage, Collect, Store, Kill
  <1>4. ASSUME NEW s \in Runs, Claim(s) \/ CheckPaused(s) \/ Finish(s)
        PROVE  charges' = charges /\ (run[r].status \in Finished => run'[r].status \in Finished)
    BY <1>4 DEF Claim, CheckPaused, Finish, Finished, RunType
  <1>5. ASSUME NEW t \in Ticks, TickStart(t) \/ TickQueue(t) \/ TickEnd(t)
        PROVE  charges' = charges /\ (run[r].status \in Finished => run'[r].status \in Finished)
    <2>1. CASE TickStart(t)
      BY <2>1 DEF TickStart, Finished, RunType
    <2>2. CASE TickQueue(t)
      BY <2>2 DEF TickQueue, QueueRun, Finished, RunType
    <2>3. CASE TickEnd(t)
      BY <2>3 DEF TickEnd
    <2> QED BY <1>5, <2>1, <2>2, <2>3
  <1>6. CASE UNCHANGED vars
    BY <1>6 DEF vars
  <1> QED BY <1>1, <1>2, <1>3, <1>4, <1>5, <1>6

LEMMA ChargeStep == TypeOK /\ ChargeInv /\ [Next]_vars => ChargeInv'
  <1> SUFFICES ASSUME TypeOK, ChargeInv, [Next]_vars PROVE ChargeInv'
    OBVIOUS
  <1>1. CASE \E r \in Runs : Fail(r)
    BY <1>1, FailKeepsCharge
  <1>2. CASE ~\E r \in Runs : Fail(r)
    <2>1. \A r \in Runs :
            charges' = charges /\ (run[r].status \in Finished => run'[r].status \in Finished)
      BY <1>2, FinishedStaysFinished, Zenon
      DEF Next, PosterNext, WorkerNext, WorkerStep, TickNext, FailRefused, Raise, TickFail
    <2> QED BY <2>1 DEF ChargeInv
  <1> QED BY <1>1, <1>2

\* Only the first failure transition of a run consumes failure budget.
THEOREM ChargedOnceAlways == Spec => []ChargedOnce
  <1>1. Init => ChargeInv
    BY DEF Init, ChargeInv
  <1>2. BudgetInv => TypeOK
    BY DEF BudgetInv
  <1>3. ChargeInv => ChargedOnce
    BY DEF ChargeInv, ChargedOnce
  <1> QED BY BudgetInvariant, ChargeStep, <1>1, <1>2, <1>3, PTL DEF Spec
-----------------------------------------------------------------------------
(***************************************************************************)
(* The cursor never passes a usable record that is not stored.  A worker   *)
(* starts from a cursor below which all is stored, and has stored all it   *)
(* has passed since; saving its watermark is safe even when the run was    *)
(* failed, or the cursor reset, behind its back.                           *)
(***************************************************************************)

CursorInv ==
  /\ cursor <= upstream
  /\ NoGapBelowCursor
  /\ \A r \in Runs : worker[r].pc # "idle" => run[r].status # "none"
  /\ \A r \in Runs : worker[r].pc = "storing" =>
       /\ worker[r].upto <= upstream
       /\ ~run[r].preview => Collectable(1, worker[r].next - 1) \subseteq stored

\* Steps that leave workers, cursor, evidence and upstream alone, and keep
\* every existing run row with its preview flag, keep CursorInv.
LEMMA CursorFrame ==
  ASSUME CursorInv, UNCHANGED <<worker, cursor, stored, upstream>>,
         \A r \in Runs : run[r].status # "none" =>
           run'[r].status # "none" /\ run'[r].preview = run[r].preview
  PROVE  CursorInv'
  <1>1. /\ cursor' <= upstream'
        /\ NoGapBelowCursor'
    BY DEF CursorInv, NoGapBelowCursor, Collectable
  <1>2. ASSUME NEW r \in Runs, worker'[r].pc # "idle"
        PROVE  run'[r].status # "none" /\ run'[r].preview = run[r].preview
    BY <1>2 DEF CursorInv
  <1>3. ASSUME NEW r \in Runs, worker'[r].pc = "storing"
        PROVE  /\ worker'[r].upto <= upstream'
               /\ ~run'[r].preview => Collectable(1, worker'[r].next - 1) \subseteq stored'
    BY <1>2, <1>3 DEF CursorInv
  <1>4. CursorInv' = (/\ cursor' <= upstream'
                      /\ NoGapBelowCursor'
                      /\ \A r \in Runs : worker'[r].pc # "idle" => run'[r].status # "none"
                      /\ \A r \in Runs : worker'[r].pc = "storing" =>
                           /\ worker'[r].upto <= upstream'
                           /\ ~run'[r].preview =>
                                Collectable(1, worker'[r].next - 1) \subseteq stored')
    BY DEF CursorInv, Collectable
  <1> QED BY <1>1, <1>2, <1>3, <1>4

\* A worker that stops leaves no claim on what is stored.
LEMMA CursorRest ==
  ASSUME TypeOK, CursorInv, NEW r \in Runs, worker' = [worker EXCEPT ![r] = Resting],
         UNCHANGED <<stored, upstream>>, cursor' <= upstream', NoGapBelowCursor',
         \A s \in Runs : run[s].status # "none" =>
           run'[s].status # "none" /\ run'[s].preview = run[s].preview
  PROVE  CursorInv'
  <1>1. \A s \in Runs : s # r => worker'[s] = worker[s]
    BY DEF TypeOK
  <1>2. worker'[r].pc = "idle"
    BY DEF TypeOK, Resting
  <1> QED BY <1>1, <1>2 DEF CursorInv, Collectable

LEMMA FailKeepsRows ==
  ASSUME TypeOK, NEW r \in Runs, Fail(r)
  PROVE  /\ cursor' = cursor
         /\ \A s \in Runs : run[s].status # "none" =>
              run'[s].status # "none" /\ run'[s].preview = run[s].preview
  BY DEF Fail, TypeOK, RunType

LEMMA CursorStep == TypeOK /\ CursorInv /\ [Next]_vars => CursorInv'
  <1> SUFFICES ASSUME TypeOK, CursorInv, [Next]_vars PROVE CursorInv'
    OBVIOUS
  <1> USE DEF TypeOK, collector, broker
  <1>1. CASE ApiNext
    <2>1. CASE ResetCursor
      BY <2>1, MaxRecordAssumption
      DEF ResetCursor, CursorInv, NoGapBelowCursor, Collectable
    <2>2. CASE ~ResetCursor
      <3>1. /\ UNCHANGED <<worker, cursor, stored, upstream>>
            /\ \A r \in Runs : run[r].status # "none" =>
                 run'[r].status # "none" /\ run'[r].preview = run[r].preview
        BY <1>1, <2>2 DEF ApiNext, SaveCollector, Publish, Pause, Resume, Rollback,
                          RequestRun, QueueRun, RunType
      <3> QED BY <3>1, CursorFrame
    <2> QED BY <2>1, <2>2
  <1>2. CASE PosterNext
    <2>1. PICK r \in Runs :
            Dispatch(r) \/ DispatchRaises(r) \/ FailRefused(r) \/ PosterDies(r)
      BY <1>2 DEF PosterNext
    <2>2. CASE FailRefused(r)
      BY <2>2, FailKeepsRows, CursorFrame DEF FailRefused
    <2>3. CASE ~FailRefused(r)
      <3>1. UNCHANGED <<worker, cursor, stored, upstream, run>>
        BY <2>1, <2>3 DEF Dispatch, DispatchRaises, PosterDies
      <3> QED BY <3>1, CursorFrame
    <2> QED BY <2>2, <2>3
  <1>3. ASSUME NEW r \in Runs, Claim(r) PROVE CursorInv'
    <2>1. CASE run[r].status = "queued"
      <3>1. /\ \A s \in Runs : s # r => worker'[s] = worker[s] /\ run'[s] = run[s]
            /\ worker'[r].pc = "claimed" /\ run'[r].status = "running"
        BY <1>3, <2>1 DEF Claim, RunType, Resting
      <3>2. UNCHANGED <<cursor, stored, upstream>>
        BY <1>3 DEF Claim
      <3> QED BY <3>1, <3>2 DEF CursorInv, NoGapBelowCursor, Collectable
    <2>2. CASE run[r].status # "queued"
      BY <1>3, <2>2, CursorFrame DEF Claim
    <2> QED BY <2>1, <2>2
  <1>4. ASSUME NEW r \in Runs, LoseMessage(r) PROVE CursorInv'
    BY <1>4, CursorFrame DEF LoseMessage
  <1>5. ASSUME NEW r \in Runs, CheckPaused(r) PROVE CursorInv'
    <2>1. UNCHANGED <<cursor, stored, upstream>>
      BY <1>5 DEF CheckPaused
    <2>2. \A s \in Runs : run[s].status # "none" =>
            run'[s].status # "none" /\ run'[s].preview = run[s].preview
      BY <1>5 DEF CheckPaused, RunType
    <2>3. \A s \in Runs : worker'[s].pc = "storing" => worker'[s] = worker[s]
      BY <1>5 DEF CheckPaused, WorkerType, Resting
    <2>4. \A s \in Runs : worker'[s].pc # "idle" => worker[s].pc # "idle"
      BY <1>5 DEF CheckPaused, WorkerType, Resting
    <2> QED BY <2>1, <2>2, <2>3, <2>4 DEF CursorInv, NoGapBelowCursor, Collectable
  <1>6. ASSUME NEW r \in Runs, Collect(r) PROVE CursorInv'
    <2>1. UNCHANGED <<cursor, stored, upstream, run>>
      BY <1>6 DEF Collect
    <2>2. /\ worker'[r].upto <= upstream /\ worker'[r].next = cursor + 1
          /\ \A s \in Runs : s # r => worker'[s] = worker[s]
      BY <1>6, MaxRecordAssumption DEF Collect
    <2>3. Collectable(1, worker'[r].next - 1) \subseteq stored
      BY <2>2 DEF CursorInv, NoGapBelowCursor, Collectable
    <2>4. worker[r].pc = "checked"
      BY <1>6 DEF Collect
    <2> QED BY <2>1, <2>2, <2>3, <2>4 DEF CursorInv, NoGapBelowCursor, Collectable
  <1>7. ASSUME NEW r \in Runs, Store(r) PROVE CursorInv'
    <2>1. UNCHANGED <<cursor, upstream, run>> /\ worker[r].pc = "storing" /\ stored \subseteq stored'
      BY <1>7 DEF Store
    <2>2. /\ worker'[r].pc = "storing" /\ worker'[r].upto = worker[r].upto
          /\ worker'[r].next = worker[r].next + 1
          /\ \A s \in Runs : s # r => worker'[s] = worker[s]
      BY <1>7 DEF Store, WorkerType
    <2>3. ~run[r].preview => Collectable(1, worker'[r].next - 1) \subseteq stored'
      <3>1. worker[r].next \in Int
        BY DEF WorkerType
      <3>2. Collectable(1, worker[r].next) \subseteq
              Collectable(1, worker[r].next - 1) \cup Collectable(worker[r].next, worker[r].next)
        BY <3>1 DEF Collectable
      <3> QED BY <1>7, <2>1, <2>2, <3>1, <3>2 DEF Store, CursorInv
    <2> QED BY <2>1, <2>2, <2>3 DEF CursorInv, NoGapBelowCursor, Collectable
  <1>8. ASSUME NEW r \in Runs, Finish(r) PROVE CursorInv'
    <2>1. worker' = [worker EXCEPT ![r] = Resting] /\ UNCHANGED <<stored, upstream>>
      BY <1>8 DEF Finish
    <2>2. \A s \in Runs : run[s].status # "none" =>
            run'[s].status # "none" /\ run'[s].preview = run[s].preview
      BY <1>8 DEF Finish, RunType
    <2>3. cursor' <= upstream' /\ NoGapBelowCursor'
      <3>1. CASE cursor' = cursor
        BY <3>1, <2>1 DEF CursorInv, NoGapBelowCursor, Collectable
      <3>2. CASE cursor' # cursor
        <4>1. /\ ~run[r].preview /\ cursor' = worker[r].upto
              /\ worker[r].next > worker[r].upto /\ worker[r].pc = "storing"
          BY <1>8, <3>2 DEF Finish
        <4>2. worker[r].next \in Int /\ worker[r].upto \in Int
          BY MaxRecordAssumption DEF WorkerType
        <4>3. Collectable(1, worker[r].upto) \subseteq Collectable(1, worker[r].next - 1)
          BY <4>1, <4>2 DEF Collectable
        <4> QED BY <2>1, <4>1, <4>3 DEF CursorInv, NoGapBelowCursor, Collectable
      <3> QED BY <3>1, <3>2
    <2> QED BY <2>1, <2>2, <2>3, CursorRest
  <1>9. ASSUME NEW r \in Runs, Raise(r) \/ Kill(r) PROVE CursorInv'
    <2>1. /\ worker' = [worker EXCEPT ![r] = Resting]
          /\ UNCHANGED <<stored, upstream, cursor>>
          /\ \A s \in Runs : run[s].status # "none" =>
               run'[s].status # "none" /\ run'[s].preview = run[s].preview
      BY <1>9, FailKeepsRows DEF Raise, Kill
    <2>2. cursor' <= upstream' /\ NoGapBelowCursor'
      BY <2>1 DEF CursorInv, NoGapBelowCursor, Collectable
    <2> QED BY <2>1, <2>2, CursorRest
  <1>10. CASE TickNext
    <2>1. ASSUME NEW t \in Ticks, TickStart(t) \/ TickQueue(t) \/ TickEnd(t) PROVE CursorInv'
      <3>1. /\ UNCHANGED <<worker, cursor, stored, upstream>>
            /\ \A r \in Runs : run[r].status # "none" =>
                 run'[r].status # "none" /\ run'[r].preview = run[r].preview
        BY <2>1 DEF TickStart, TickQueue, TickEnd, QueueRun, RunType
      <3> QED BY <3>1, CursorFrame
    <2>2. ASSUME NEW t \in Ticks, NEW r \in Runs, TickFail(t, r) PROVE CursorInv'
      BY <2>2, FailKeepsRows, CursorFrame DEF TickFail
    <2> QED BY <1>10, <2>1, <2>2 DEF TickNext
  <1>11. CASE EnvNext
    <2>1. CASE NewRecord
      BY <2>1, MaxRecordAssumption
      DEF NewRecord, CursorInv, NoGapBelowCursor, Collectable, WorkerType
    <2>2. CASE ~NewRecord
      <3>1. /\ UNCHANGED <<worker, cursor, stored, upstream>>
            /\ \A r \in Runs : run[r].status # "none" =>
                 run'[r].status # "none" /\ run'[r].preview = run[r].preview
        BY <1>11, <2>2 DEF EnvNext, ComeDue, SetPaused, Age, RunType
      <3> QED BY <3>1, CursorFrame
    <2> QED BY <2>1, <2>2
  <1>12. CASE UNCHANGED vars
    BY <1>12, CursorFrame DEF vars
  <1> QED BY <1>1, <1>2, <1>3, <1>4, <1>5, <1>6, <1>7, <1>8, <1>9, <1>10, <1>11, <1>12
      DEF Next, WorkerNext, WorkerStep

\* The cursor never passes a usable record that is not stored, whichever runs
\* failed half-way, were replayed after a reset, or finished late.
THEOREM NoGapAlways == Spec => []NoGapBelowCursor
  <1>1. Init => CursorInv
    BY DEF Init, CursorInv, NoGapBelowCursor, Collectable, Resting
  <1>2. BudgetInv => TypeOK
    BY DEF BudgetInv
  <1>3. CursorInv => NoGapBelowCursor
    BY DEF CursorInv
  <1> QED BY BudgetInvariant, CursorStep, <1>1, <1>2, <1>3, PTL DEF Spec

-----------------------------------------------------------------------------
(***************************************************************************)
(* The live revision: it changes only by Publish and Rollback, which are   *)
(* refused during a run, and a collecting run takes it when it is queued.  *)
(***************************************************************************)

\* Queueing takes the live revision; every other step leaves the live revision
\* and the active runs' revisions alone, or changes it when no run is active.
LEMMA RevisionFrame ==
  ASSUME RunsTheLiveRevision, UNCHANGED live, published \subseteq published',
         \A r \in ActiveRuns' : r \in ActiveRuns /\ run'[r].preview = run[r].preview
                                                 /\ run'[r].revision = run[r].revision
  PROVE  RunsTheLiveRevision'
  BY DEF RunsTheLiveRevision

LEMMA QueueTakesLive ==
  ASSUME TypeOK, RunsTheLiveRevision, NEW r \in Runs, NEW preview \in BOOLEAN,
         QueueRun(r, preview), UNCHANGED <<live, published>>
  PROVE  RunsTheLiveRevision'
  <1>1. /\ \A s \in Runs : s # r => run'[s] = run[s]
        /\ run'[r].preview = preview
        /\ ~preview => run'[r].revision = live /\ live \in published
    BY DEF QueueRun, TypeOK
  <1> QED BY <1>1 DEF RunsTheLiveRevision, ActiveRuns

\* Failing a run activates none and keeps every revision.
LEMMA FailKeepsRevision ==
  ASSUME TypeOK, RunsTheLiveRevision, NEW r \in Runs, Fail(r)
  PROVE  RunsTheLiveRevision'
  <1>1. UNCHANGED <<live, published>>
    BY DEF Fail
  <1>2. \A s \in ActiveRuns' : s \in ActiveRuns /\ run'[s].preview = run[s].preview
                                               /\ run'[s].revision = run[s].revision
    BY DEF Fail, TypeOK, RunType, ActiveRuns, Active
  <1> QED BY <1>1, <1>2, RevisionFrame

LEMMA RevisionStep ==
  ASSUME TypeOK, RunsTheLiveRevision, [Next]_vars
  PROVE  RunsTheLiveRevision'
  <1> USE DEF TypeOK, collector
  <1>1. CASE Publish \/ \E revision \in 1..MaxVersion : Rollback(revision)
    <2>1. ActiveRuns = {} /\ UNCHANGED run
      BY <1>1 DEF Publish, Rollback
    <2> QED BY <2>1 DEF RunsTheLiveRevision, ActiveRuns
  <1>2. CASE SaveCollector \/ Pause \/ Resume \/ ResetCursor
    <2>1. UNCHANGED <<run, live, published>>
      BY <1>2 DEF SaveCollector, Pause, Resume, ResetCursor
    <2> QED BY <2>1, RevisionFrame DEF ActiveRuns
  <1>3. ASSUME NEW r \in Runs, NEW preview \in BOOLEAN, RequestRun(r, preview)
        PROVE  RunsTheLiveRevision'
    BY <1>3, QueueTakesLive DEF RequestRun
  <1>4. CASE PosterNext
    <2>1. PICK r \in Runs :
            Dispatch(r) \/ DispatchRaises(r) \/ FailRefused(r) \/ PosterDies(r)
      BY <1>4 DEF PosterNext
    <2>2. CASE FailRefused(r)
      BY <2>2, FailKeepsRevision DEF FailRefused
    <2>3. CASE ~FailRefused(r)
      <3>1. UNCHANGED <<run, live, published>>
        BY <2>1, <2>3 DEF Dispatch, DispatchRaises, PosterDies
      <3> QED BY <3>1, RevisionFrame DEF ActiveRuns
    <2> QED BY <2>2, <2>3
  <1>5. ASSUME NEW r \in Runs, Raise(r) PROVE RunsTheLiveRevision'
    BY <1>5, FailKeepsRevision DEF Raise
  <1>6. ASSUME NEW r \in Runs,
               Claim(r) \/ LoseMessage(r) \/ CheckPaused(r) \/ Collect(r) \/ Store(r)
                 \/ Finish(r) \/ Kill(r)
        PROVE  RunsTheLiveRevision'
    <2>1. UNCHANGED <<live, published>>
      BY <1>6 DEF Claim, LoseMessage, CheckPaused, Collect, Store, Finish, Kill
    <2> DEFINE Kept == \A s \in ActiveRuns' : s \in ActiveRuns
                         /\ run'[s].preview = run[s].preview
                         /\ run'[s].revision = run[s].revision
    <2>2. Kept
      <3>1. CASE LoseMessage(r) \/ Collect(r) \/ Store(r) \/ Kill(r)
        <4>1. UNCHANGED run
          BY <3>1 DEF LoseMessage, Collect, Store, Kill
        <4> QED BY <4>1 DEF ActiveRuns
      <3>2. CASE Claim(r)
        BY <3>2 DEF Claim, RunType, ActiveRuns, Active
      <3>3. CASE CheckPaused(r)
        BY <3>3 DEF CheckPaused, RunType, ActiveRuns, Active
      <3>4. CASE Finish(r)
        <4>1. run' = [run EXCEPT ![r].status = "succeeded"]
          BY <3>4 DEF Finish
        <4> QED BY <4>1 DEF RunType, ActiveRuns, Active
      <3> QED BY <1>6, <3>1, <3>2, <3>3, <3>4
    <2> QED BY <2>1, <2>2, RevisionFrame
  <1>7. ASSUME NEW t \in Ticks, TickQueue(t) PROVE RunsTheLiveRevision'
    <2>1. UNCHANGED <<live, published>>
      BY <1>7 DEF TickQueue
    <2>2. CASE \E r \in Runs : QueueRun(r, FALSE)
      BY <2>1, <2>2, QueueTakesLive
    <2>3. CASE UNCHANGED run
      BY <2>1, <2>3, RevisionFrame DEF ActiveRuns
    <2> QED BY <1>7, <2>2, <2>3 DEF TickQueue
  <1>8. ASSUME NEW t \in Ticks, TickStart(t) \/ TickEnd(t) PROVE RunsTheLiveRevision'
    <2>1. UNCHANGED <<live, published>>
      BY <1>8 DEF TickStart, TickEnd
    <2>2. \A s \in ActiveRuns' : s \in ActiveRuns /\ run'[s].preview = run[s].preview
                                                 /\ run'[s].revision = run[s].revision
      BY <1>8 DEF TickStart, TickEnd, RunType, ActiveRuns, Active
    <2> QED BY <2>1, <2>2, RevisionFrame
  <1>9. ASSUME NEW t \in Ticks, NEW r \in Runs, TickFail(t, r) PROVE RunsTheLiveRevision'
    BY <1>9, FailKeepsRevision DEF TickFail
  <1>10. CASE EnvNext
    <2>1. UNCHANGED <<live, published>>
      BY <1>10 DEF EnvNext, ComeDue, SetPaused, NewRecord, Age
    <2>2. \A s \in ActiveRuns' : s \in ActiveRuns /\ run'[s].preview = run[s].preview
                                                 /\ run'[s].revision = run[s].revision
      BY <1>10 DEF EnvNext, ComeDue, SetPaused, NewRecord, Age, RunType, ActiveRuns, Active
    <2> QED BY <2>1, <2>2, RevisionFrame
  <1>11. CASE UNCHANGED vars
    BY <1>11, RevisionFrame DEF vars, ActiveRuns
  <1> QED BY <1>1, <1>2, <1>3, <1>4, <1>5, <1>6, <1>7, <1>8, <1>9, <1>10, <1>11
      DEF Next, ApiNext, WorkerNext, WorkerStep, TickNext

\* Publish and rollback never change the live revision under a collecting run.
THEOREM RunsTheLiveRevisionAlways == Spec => []RunsTheLiveRevision
  <1>1. Init => RunsTheLiveRevision
    BY DEF Init, RunsTheLiveRevision, ActiveRuns, Active, NoRun
  <1> QED BY TypeCorrect, RevisionStep, <1>1, PTL DEF Spec
-----------------------------------------------------------------------------
(* The calendar. *)

\* A set of numbers has a least one.
LEMMA LeastRow ==
  ASSUME NEW S \in SUBSET Nat, S # {}
  PROVE  Min(S) \in S /\ \A k \in S : Min(S) <= k
<1> DEFINE R == OpToRel(<, Nat)
<1>1. IsWellFoundedOn(R, Nat)
  BY NatLessThanWellFounded
<1> HIDE DEF R
<1>2. PICK x \in S : \A y \in S : ~(<<y, x>> \in R)
  BY <1>1, WFMin
<1>3. \A y \in S : y < x => <<y, x>> \in R
  BY DEF R, OpToRel
<1>4. \A y \in S : ~(y < x)
  BY <1>2, <1>3
<1>5. \A y \in S : x <= y
  BY <1>4
<1> QED BY <1>5 DEF Min

\* A year has 365 days, a leap year one more.
LEMMA YearLength ==
  ASSUME NEW y \in Nat \ {0}
  PROVE  /\ BeforeYear(y) \in Int
         /\ BeforeYear(y + 1) = BeforeYear(y) + 365 + (IF Leap(y) THEN 1 ELSE 0)
<1>1. y \div 4 = (y - 1) \div 4 + (IF y % 4 = 0 THEN 1 ELSE 0)
  OBVIOUS
<1>2. y \div 100 = (y - 1) \div 100 + (IF y % 100 = 0 THEN 1 ELSE 0)
  OBVIOUS
<1>3. y \div 400 = (y - 1) \div 400 + (IF y % 400 = 0 THEN 1 ELSE 0)
  OBVIOUS
<1>4. (y % 400 = 0 => y % 100 = 0) /\ (y % 100 = 0 => y % 4 = 0)
  OBVIOUS
<1>5. /\ (y - 1) \div 4 \in Int /\ (y - 1) \div 100 \in Int /\ (y - 1) \div 400 \in Int
      /\ y + 1 - 1 = y
  OBVIOUS
<1>6. BeforeYear(y) \in Int
  BY <1>5 DEF BeforeYear
<1>7. BeforeYear(y + 1) = 365 * y + y \div 4 - y \div 100 + y \div 400
  BY <1>5 DEF BeforeYear
<1> QED BY <1>1, <1>2, <1>3, <1>4, <1>5, <1>6, <1>7 DEF BeforeYear, Leap

\* A month has 28 to 31 days.
LEMMA MonthLength ==
  ASSUME NEW m \in Months
  PROVE  /\ FirstOf(m) \in Int
         /\ FirstOf(m + 1) \in FirstOf(m) + 28..FirstOf(m) + 31
<1> DEFINE q == (m - 1) \div 12
           r == (m - 1) % 12
           y == FirstYear + q
           leap == IF Leap(y) THEN 1 ELSE 0
<1>1. q \in Nat /\ r \in 0..11 /\ m = 12 * q + r + 1
  BY DEF Months
<1>2. YearOf(m) = q /\ MonthInYear(m) = r + 1
  BY DEF YearOf, MonthInYear
<1>3. y \in Nat \ {0} /\ Epoch \in Int /\ BeforeYear(y) \in Int /\ leap \in {0, 1}
  BY <1>1, YearLength, CalendarAssumption DEF Epoch
<1>4. FirstOf(m) = BeforeYear(y) - Epoch + BeforeMonth[r + 1] + (IF r + 1 > 2 THEN leap ELSE 0)
  BY <1>1, <1>2 DEF FirstOf
<1> HIDE DEF y, leap
<1>5. CASE r = 11
  <2>1. YearOf(m + 1) = q + 1 /\ MonthInYear(m + 1) = 1
    BY <1>1, <1>5 DEF YearOf, MonthInYear
  <2>2. FirstYear + (q + 1) = y + 1
    BY <1>1, CalendarAssumption DEF y
  <2>3. FirstOf(m + 1) = BeforeYear(y + 1) - Epoch
    BY <1>3, <2>1, <2>2, YearLength DEF FirstOf, BeforeMonth
  <2>4. BeforeYear(y + 1) = BeforeYear(y) + 365 + leap
    BY <1>3, YearLength DEF leap
  <2>5. FirstOf(m) = BeforeYear(y) - Epoch + 334 + leap
    BY <1>3, <1>4, <1>5 DEF BeforeMonth
  <2> QED BY <1>3, <2>3, <2>4, <2>5
<1>6. CASE r < 11
  <2>1. YearOf(m + 1) = q /\ MonthInYear(m + 1) = r + 2
    BY <1>1, <1>6 DEF YearOf, MonthInYear
  <2>2. FirstOf(m + 1) = BeforeYear(y) - Epoch + BeforeMonth[r + 2] + (IF r + 2 > 2 THEN leap ELSE 0)
    BY <1>1, <1>3, <2>1 DEF FirstOf, y, leap
  <2>3. \/ r = 0 \/ r = 1 \/ r = 2 \/ r = 3 \/ r = 4 \/ r = 5
        \/ r = 6 \/ r = 7 \/ r = 8 \/ r = 9 \/ r = 10
    BY <1>1, <1>6
  <2> HIDE DEF q, r
  <2> QED BY <1>3, <1>4, <2>2, <2>3 DEF BeforeMonth
<1> QED BY <1>1, <1>5, <1>6

\* Months follow one another at 28 to 31 days.
LEMMA MonthsApart ==
  ASSUME NEW m \in Months, NEW n \in Months, m <= n
  PROVE  FirstOf(n) \in FirstOf(m) + 28 * (n - m)..FirstOf(m) + 31 * (n - m)
<1> DEFINE Apart(k) == FirstOf(m + k) \in FirstOf(m) + 28 * k..FirstOf(m) + 31 * k
           S == {k \in Nat : ~Apart(k)}
<1>1. FirstOf(m) \in Int
  BY MonthLength
<1>2. S = {}
  <2> SUFFICES ASSUME S # {} PROVE FALSE
    OBVIOUS
  <2> DEFINE k == Min(S)
  <2>1. k \in S /\ \A j \in S : k <= j
    BY LeastRow
  <2> HIDE DEF k
  <2>2. k # 0
    BY <1>1, <2>1 DEF Months
  <2>3. k \in Nat /\ k - 1 \in Nat /\ k - 1 \notin S
    BY <2>1, <2>2
  <2>4. Apart(k - 1)
    BY <2>3
  <2>5. m + (k - 1) \in Months /\ m + (k - 1) + 1 = m + k
    BY <2>3 DEF Months
  <2>6. FirstOf(m + k) \in FirstOf(m + (k - 1)) + 28..FirstOf(m + (k - 1)) + 31
    BY <2>5, MonthLength
  <2>7. Apart(k)
    BY <1>1, <2>3, <2>4, <2>6
  <2> QED BY <2>1, <2>7
<1>3. n - m \in Nat /\ m + (n - m) = n
  BY DEF Months
<1>4. Apart(n - m)
  BY <1>2, <1>3
<1> QED BY <1>3, <1>4

LEMMA MonthStarts ==
  ASSUME NEW m \in Months
  PROVE  FirstOf(m) \in 28 * (m - 1)..31 * (m - 1) /\ FirstOf(m) \in Nat
<1>1. FirstOf(1) = 0
  <2>1. YearOf(1) = 0 /\ MonthInYear(1) = 1 /\ Epoch \in Int
    BY YearLength, CalendarAssumption DEF YearOf, MonthInYear, Epoch
  <2> QED BY <2>1, CalendarAssumption DEF FirstOf, BeforeMonth, Epoch
<1>2. 1 \in Months /\ 1 <= m
  BY DEF Months
<1>3. FirstOf(m) \in 0 + 28 * (m - 1)..0 + 31 * (m - 1)
  BY <1>1, <1>2, MonthsApart
<1> QED BY <1>2, <1>3 DEF Months

\* Each day is in the one month MonthOf finds.
LEMMA MonthOfDay ==
  ASSUME NEW d \in Days
  PROVE  /\ MonthOf(d) \in Months /\ d \in DaysOf(MonthOf(d))
         /\ MonthOf(d) \in d \div 31 + 1..d \div 28 + 1
<1> DEFINE S == {m \in Months : d < FirstOf(m + 1)}
           n == Min(S)
           M == d \div 31 + 1..d \div 28 + 1
           In(m) == FirstOf(m) <= d /\ d < FirstOf(m + 1)
<1>1. \A m \in Months : FirstOf(m) \in 28 * (m - 1)..31 * (m - 1) /\ FirstOf(m) \in Nat
  BY MonthStarts
<1>2. d \div 28 + 1 \in S
  <2>1. d \div 28 + 1 \in Months /\ d \div 28 + 1 + 1 \in Months /\ d < 28 * (d \div 28 + 1)
    BY DEF Days, Months
  <2> QED BY <1>1, <2>1 DEF Days
<1>3. n \in S /\ \A m \in S : n <= m
  BY <1>2, LeastRow DEF Months
<1> HIDE DEF n
<1>4. n \in Months /\ d < FirstOf(n + 1) /\ n + 1 \in Months
  BY <1>3 DEF Months
<1>5. FirstOf(n) <= d
  <2>1. CASE n = 1
    BY <1>1, <2>1 DEF Months, Days
  <2>2. CASE n # 1
    <3>1. n - 1 \in Months /\ n - 1 \notin S /\ n - 1 + 1 = n
      BY <1>3, <1>4, <2>2 DEF Months
    <3> QED BY <1>1, <1>4, <3>1 DEF Days
  <2> QED BY <2>1, <2>2
<1>6. n \in M
  <2>1. 28 * (n - 1) <= d /\ d < 31 * n
    BY <1>1, <1>4, <1>5 DEF Months, Days
  <2>2. n - 1 <= d \div 28 /\ d \div 31 < n
    BY <1>4, <2>1 DEF Months, Days
  <2> QED BY <1>4, <2>2 DEF Months, Days
<1>7. MonthOf(d) = CHOOSE m \in M : In(m)
  BY DEF MonthOf
<1>8. In(n)
  BY <1>4, <1>5
<1> HIDE DEF In
<1>9. MonthOf(d) \in M /\ In(MonthOf(d))
  BY <1>6, <1>7, <1>8
<1>10. MonthOf(d) \in Months
  BY <1>9 DEF Months, Days
<1>11. MonthOf(d) + 1 \in Months
  BY <1>10 DEF Months
<1> QED BY <1>1, <1>9, <1>10, <1>11 DEF In, DaysOf, Days

\* A day of a month is a date, and the month is the one found for it.
LEMMA DayInMonth ==
  ASSUME NEW m \in Months, NEW d \in DaysOf(m)
  PROVE  d \in Days /\ MonthOf(d) = m
<1>1. FirstOf(m) \in Nat /\ m + 1 \in Months /\ FirstOf(m + 1) \in Nat
  BY MonthStarts DEF Months
<1>2. d \in Days /\ FirstOf(m) <= d /\ d < FirstOf(m + 1)
  BY <1>1 DEF DaysOf, Days
<1> DEFINE n == MonthOf(d)
<1>3. n \in Months /\ d \in DaysOf(n)
  BY <1>2, MonthOfDay
<1> HIDE DEF n
<1>4. FirstOf(n) \in Nat /\ n + 1 \in Months /\ FirstOf(n + 1) \in Nat
  BY <1>3, MonthStarts DEF Months
<1>5. FirstOf(n) <= d /\ d < FirstOf(n + 1)
  BY <1>3, <1>4 DEF DaysOf
<1>6. ~(n + 1 <= m)
  <2> SUFFICES ASSUME n + 1 <= m PROVE FALSE
    OBVIOUS
  <2>1. FirstOf(m) >= FirstOf(n + 1) + 28 * (m - (n + 1))
    BY <1>1, <1>4, MonthsApart
  <2> QED BY <1>1, <1>2, <1>4, <1>5, <2>1 DEF Months, Days
<1>7. ~(m + 1 <= n)
  <2> SUFFICES ASSUME m + 1 <= n PROVE FALSE
    OBVIOUS
  <2>1. FirstOf(n) >= FirstOf(m + 1) + 28 * (n - (m + 1))
    BY <1>1, <1>3, MonthsApart
  <2> QED BY <1>1, <1>2, <1>3, <1>4, <1>5, <2>1 DEF Months, Days
<1>8. n = m
  BY <1>3, <1>6, <1>7 DEF Months
<1> QED BY <1>2, <1>8 DEF n

\* Days of earlier months are earlier.
LEMMA EarlierMonth ==
  ASSUME NEW d \in Days, NEW e \in Days
  PROVE  MonthOf(d) < MonthOf(e) => d < e
<1> SUFFICES ASSUME MonthOf(d) < MonthOf(e) PROVE d < e
  OBVIOUS
<1> DEFINE m == MonthOf(d)
           n == MonthOf(e)
<1>1. m \in Months /\ n \in Months /\ d \in DaysOf(m) /\ e \in DaysOf(n)
  BY MonthOfDay
<1>2. m < n
  OBVIOUS
<1> HIDE DEF m, n
<1>3. FirstOf(m + 1) \in Int /\ FirstOf(n) \in Int /\ m + 1 \in Months /\ m + 1 <= n
  BY <1>1, <1>2, MonthLength DEF Months
<1>4. FirstOf(n) >= FirstOf(m + 1) + 28 * (n - (m + 1))
  BY <1>1, <1>3, MonthsApart
<1> QED BY <1>1, <1>3, <1>4 DEF DaysOf, Months, Days
-----------------------------------------------------------------------------
(* Dates of a schedule. *)

LEMMA Weekdays ==
  ASSUME NEW d \in Int
  PROVE  /\ Epoch \in Int /\ Weekday(d) \in 0..6
         /\ \A k \in Int : Weekday(d) + k \in 0..6 => Weekday(d + k) = Weekday(d) + k
<1>1. Epoch \in Int
  BY YearLength, CalendarAssumption DEF Epoch
<1>2. Weekday(d) \in 0..6
  BY <1>1 DEF Weekday
<1>3. ASSUME NEW k \in Int, Weekday(d) + k \in 0..6
      PROVE  Weekday(d + k) = Weekday(d) + k
  BY <1>1, <1>3 DEF Weekday
<1> QED BY <1>1, <1>2, <1>3

\* A weekend moves by at most two days to a workday, back only within its
\* month; a workday stays.
THEOREM WeekendsMoveToWorkdays ==
  ASSUME NEW d \in Int
  PROVE  /\ WeekdayWithinMonth(d) \in d - 2..d + 2
         /\ Workday(WeekdayWithinMonth(d))
         /\ Workday(d) => WeekdayWithinMonth(d) = d
         /\ WeekdayWithinMonth(d) < d => WeekdayWithinMonth(d) \in DaysOf(MonthOf(d))
<1>1. Weekday(d) \in 0..6 /\ Epoch \in Int
  BY Weekdays
<1>2. \/ WeekdayWithinMonth(d) = d /\ Workday(d)
      \/ /\ ~Workday(d) /\ WeekdayWithinMonth(d) = d - (Weekday(d) - 4)
         /\ d - (Weekday(d) - 4) \in DaysOf(MonthOf(d))
      \/ ~Workday(d) /\ WeekdayWithinMonth(d) = d + 7 - Weekday(d)
  BY DEF WeekdayWithinMonth
<1>3. ~Workday(d) => Weekday(d) \in {5, 6}
  BY <1>1 DEF Workday
<1>4. CASE WeekdayWithinMonth(d) = d /\ Workday(d)
  BY <1>4
<1>5. CASE /\ ~Workday(d) /\ WeekdayWithinMonth(d) = d - (Weekday(d) - 4)
           /\ d - (Weekday(d) - 4) \in DaysOf(MonthOf(d))
  <2>1. Weekday(d - (Weekday(d) - 4)) = 4
    BY <1>1, <1>3, <1>5 DEF Weekday
  <2> QED BY <1>1, <1>3, <1>5, <2>1 DEF Workday
<1>6. CASE ~Workday(d) /\ WeekdayWithinMonth(d) = d + 7 - Weekday(d)
  <2>1. Weekday(d + 7 - Weekday(d)) = 0
    BY <1>1, <1>3, <1>6 DEF Weekday
  <2>2. WeekdayWithinMonth(d) > d /\ WeekdayWithinMonth(d) \in d - 2..d + 2
    BY <1>1, <1>3, <1>6
  <2> QED BY <1>6, <2>1, <2>2 DEF Workday
<1> QED BY <1>2, <1>4, <1>5, <1>6

\* A day of a month that is moved stays in the month.  The days it passes are
\* weekends: those up to it, or all before it from the first.
LEMMA WeekendPassed ==
  ASSUME NEW m \in Months, NEW d \in DaysOf(m)
  PROVE  LET r == WeekdayWithinMonth(d)
         IN  /\ r \in DaysOf(m)
             /\ r <= d => \A e \in DaysOf(m) : r < e /\ e <= d => ~Workday(e)
             /\ r > d => /\ d + 1 < FirstOf(m + 1)
                         /\ \A e \in DaysOf(m) : e < r => ~Workday(e)
<1> DEFINE r == WeekdayWithinMonth(d)
           w == Weekday(d)
           F == FirstOf(m)
           L == FirstOf(m + 1)
<1>1. d \in Int /\ MonthOf(d) = m
  BY DayInMonth DEF Days
<1>2. F \in Int /\ L \in Int /\ L >= F + 28
  BY MonthLength
<1>3. \A e \in DaysOf(m) : e \in Int /\ F <= e /\ e < L
  BY <1>2 DEF DaysOf
<1>4. \A e \in Int : F <= e /\ e < L => e \in DaysOf(m)
  BY <1>2 DEF DaysOf
<1>5. w \in 0..6 /\ \A k \in Int : w + k \in 0..6 => Weekday(d + k) = w + k
  BY <1>1, Weekdays
<1>6. \/ Workday(d) /\ r = d
      \/ ~Workday(d) /\ d - (w - 4) \in DaysOf(m) /\ r = d - (w - 4)
      \/ ~Workday(d) /\ d - (w - 4) \notin DaysOf(m) /\ r = d + 7 - w
  BY <1>1 DEF WeekdayWithinMonth
<1>7. Workday(d) <=> w < 5
  BY DEF Workday
<1> HIDE DEF r, w, F, L
<1>8. \A e \in Int : w + (e - d) \in {5, 6} => ~Workday(e)
  <2> SUFFICES ASSUME NEW e \in Int, w + (e - d) \in {5, 6} PROVE ~Workday(e)
    OBVIOUS
  <2>1. e - d \in Int /\ d + (e - d) = e /\ w + (e - d) \in 0..6
    BY <1>1, <1>5
  <2>2. Weekday(e) = w + (e - d)
    BY <1>5, <2>1
  <2> QED BY <2>2 DEF Workday
<1>9. CASE r = d
  BY <1>1, <1>3, <1>9 DEF r, L
<1>10. CASE ~Workday(d) /\ d - (w - 4) \in DaysOf(m) /\ r = d - (w - 4)
  <2>1. w \in {5, 6}
    BY <1>5, <1>7, <1>10
  <2>2. \A e \in DaysOf(m) : r < e /\ e <= d => ~Workday(e)
    BY <1>1, <1>3, <1>8, <1>10, <2>1
  <2>3. r <= d
    BY <1>1, <1>10, <2>1
  <2> QED BY <1>1, <1>10, <2>1, <2>2, <2>3 DEF r
<1>11. CASE ~Workday(d) /\ d - (w - 4) \notin DaysOf(m) /\ r = d + 7 - w
  <2>1. w \in {5, 6}
    BY <1>5, <1>7, <1>11
  <2>2. d - (w - 4) < F
    BY <1>1, <1>2, <1>3, <1>4, <1>11, <2>1
  <2>3. F <= d /\ d < F + (w - 4) /\ r = d + 7 - w
    BY <1>1, <1>2, <1>3, <1>11, <2>1, <2>2
  <2>4. r \in DaysOf(m) /\ r > d /\ d + 1 < L
    BY <1>1, <1>2, <1>4, <2>1, <2>3
  <2>5. \A e \in DaysOf(m) : e < r => ~Workday(e)
    BY <1>1, <1>2, <1>3, <1>8, <2>1, <2>3
  <2> QED BY <1>1, <2>1, <2>3, <2>4, <2>5 DEF r, L
<1> QED BY <1>6, <1>9, <1>10, <1>11

\* The days of a month from 1 to 31.
LEMMA DaysOfAMonth ==
  ASSUME NEW d \in Days
  PROVE  DayOfMonth(d) \in 1..31
<1>1. MonthOf(d) \in Months /\ d \in DaysOf(MonthOf(d))
  BY MonthOfDay
<1>2. FirstOf(MonthOf(d)) \in Int /\ FirstOf(MonthOf(d) + 1) \in FirstOf(MonthOf(d))..FirstOf(MonthOf(d)) + 31
  BY <1>1, MonthLength
<1> QED BY <1>1, <1>2 DEF DayOfMonth, DaysOf

\* The run of an exact schedule in a month.
LEMMA AnchoredKeeps ==
  ASSUME NEW s, s.rule = "exact", s.start \in Days, NEW m \in Months
  PROVE  /\ AnchoredMonthDate(m, DayOfMonth(s.start)) \in DaysOf(m)
         /\ Keeps(s, m, AnchoredMonthDate(m, DayOfMonth(s.start)))
<1> DEFINE day == DayOfMonth(s.start)
           F == FirstOf(m)
           L == FirstOf(m + 1)
           t == F + Min({day, L - F}) - 1
           r == WeekdayWithinMonth(t)
           upTo == F + day - 1
<1>1. day \in 1..31
  BY DaysOfAMonth
<1>2. F \in Int /\ L \in Int /\ L >= F + 28
  BY MonthLength
<1>3. Min({day, L - F}) \in {day, L - F} /\ Min({day, L - F}) <= day /\ Min({day, L - F}) <= L - F
  <2>1. {day, L - F} \in SUBSET Nat /\ {day, L - F} # {}
    BY <1>1, <1>2
  <2> QED BY <2>1, LeastRow
<1>4. t \in Int /\ F <= t /\ t < L /\ t <= upTo /\ (t = upTo \/ t = L - 1)
  BY <1>1, <1>2, <1>3
<1>5. t \in DaysOf(m)
  BY <1>2, <1>4 DEF DaysOf
<1>6. r = AnchoredMonthDate(m, day)
  BY DEF AnchoredMonthDate
<1> HIDE DEF t
<1>7. /\ r \in DaysOf(m)
      /\ r <= t => \A e \in DaysOf(m) : r < e /\ e <= t => ~Workday(e)
      /\ r > t => t + 1 < L /\ \A e \in DaysOf(m) : e < r => ~Workday(e)
  BY <1>5, WeekendPassed
<1>8. t \in Int /\ Workday(r)
  BY <1>4, WeekendsMoveToWorkdays
<1> HIDE DEF r, F, L, day
<1>9. \A e : Fits(s, e) <=> Workday(e)
  <2>1. s.rule \notin DOMAIN FirstNamedWeekday
    BY DEF FirstNamedWeekday
  <2> QED BY <2>1 DEF Fits
<1>10. r \in Int /\ \A e \in DaysOf(m) : e \in Int /\ e < L
  BY <1>2, <1>7 DEF DaysOf, F, L
<1>11. CASE r <= t
  <2>1. r <= upTo
    BY <1>1, <1>2, <1>4, <1>10, <1>11
  <2>2. \A e \in r + 1..upTo : e \in DaysOf(m) => ~Workday(e)
    BY <1>1, <1>2, <1>4, <1>7, <1>10, <1>11
  <2> QED BY <1>6, <1>7, <1>8, <1>9, <2>1, <2>2 DEF Keeps, F, day
<1>12. CASE r > t
  <2>1. ~(r <= upTo)
    BY <1>1, <1>2, <1>4, <1>7, <1>10, <1>12
  <2> QED BY <1>6, <1>7, <1>8, <1>9, <1>12, <2>1 DEF Keeps, F, day
<1> QED BY <1>4, <1>10, <1>11, <1>12

\* The run on the first weekday of a month, or the first of one name.
LEMMA FirstKeeps ==
  ASSUME NEW s, s.rule \in DateRules \ {"exact"}, NEW m \in Months
  PROVE  /\ FirstMatchingWeekday(m, s.rule) \in DaysOf(m)
         /\ Keeps(s, m, FirstMatchingWeekday(m, s.rule))
<1> DEFINE F == FirstOf(m)
           L == FirstOf(m + 1)
           w == Weekday(F)
           S == {d \in DaysOf(m) : IF s.rule \in DOMAIN FirstNamedWeekday
                                   THEN Weekday(d) = FirstNamedWeekday[s.rule] ELSE Workday(d)}
           v == IF s.rule \in DOMAIN FirstNamedWeekday THEN FirstNamedWeekday[s.rule] ELSE 0
           day == F + (IF w <= v THEN v - w ELSE v + 7 - w)
<1>1. F \in Nat /\ L \in Int /\ L >= F + 28
  BY MonthLength, MonthStarts
<1>2. w \in 0..6 /\ Epoch \in Int
  BY <1>1, Weekdays
<1>3. \A d \in DaysOf(m) : d \in Nat
  BY DayInMonth DEF Days
<1>4. v \in 0..4
  BY DEF FirstNamedWeekday
<1>5. day \in DaysOf(m) /\ Weekday(day) = v
  <2> HIDE DEF v
  <2>1. day \in DaysOf(m)
    BY <1>1, <1>2, <1>4 DEF DaysOf
  <2>2. Weekday(day) = v
    BY <1>1, <1>2, <1>4 DEF Weekday
  <2> QED BY <2>1, <2>2
<1> HIDE DEF day
<1>6. day \in S
  BY <1>4, <1>5 DEF Workday
<1>7. Min(S) \in S /\ \A d \in S : Min(S) <= d
  BY <1>3, <1>6, LeastRow
<1>8. \A d \in DaysOf(m) : d \in S <=> Fits(s, d)
  BY <1>4 DEF Fits, Workday
<1>9. FirstMatchingWeekday(m, s.rule) = Min(S)
  BY DEF FirstMatchingWeekday
<1> DEFINE r == Min(S)
<1>10. r \in DaysOf(m)
  BY <1>7
<1>11. Fits(s, r) /\ \A d \in DaysOf(m) : Fits(s, d) => r <= d
  BY <1>7, <1>8, <1>10
<1> HIDE DEF r, S
<1>12. \A d \in DaysOf(m) : d < r => ~Fits(s, d)
  BY <1>3, <1>10, <1>11
<1> QED BY <1>9, <1>10, <1>11, <1>12 DEF Keeps, r

\* A schedule keeps one day of a month.
LEMMA KeepsOneDay ==
  ASSUME NEW s, s.start \in Days, NEW m \in Months, NEW d \in DaysOf(m), NEW e \in DaysOf(m),
         Keeps(s, m, d), Keeps(s, m, e)
  PROVE  d = e
<1> DEFINE upTo == FirstOf(m) + DayOfMonth(s.start) - 1
<1>1. d \in Int /\ e \in Int /\ upTo \in Int
  BY DayInMonth, DaysOfAMonth, MonthLength DEF Days
<1>2. /\ Fits(s, d)
      /\ IF s.rule = "exact" /\ d <= upTo
         THEN \A x \in d + 1..upTo : x \in DaysOf(m) => ~Fits(s, x)
         ELSE \A x \in DaysOf(m) : x < d => ~Fits(s, x)
  BY DEF Keeps
<1>3. /\ Fits(s, e)
      /\ IF s.rule = "exact" /\ e <= upTo
         THEN \A x \in e + 1..upTo : x \in DaysOf(m) => ~Fits(s, x)
         ELSE \A x \in DaysOf(m) : x < e => ~Fits(s, x)
  BY DEF Keeps
<1> HIDE DEF upTo
<1>4. ~(d < e)
  BY <1>1, <1>2, <1>3
<1>5. ~(e < d)
  BY <1>1, <1>2, <1>3
<1> QED BY <1>1, <1>4, <1>5

\* The run after one of a monthly, quarterly or yearly schedule depends on the
\* month of that one only: a run that a short month, a weekend or a moved
\* Monday brought to another day does not move those after it.
THEOREM RunsDoNotDrift ==
  ASSUME NEW s, NEW d \in Days, NEW e \in Days, MonthOf(d) = MonthOf(e),
         s.recurrence \notin {"once", "weekly"}
  PROVE  NextOccurrence(s, d) = NextOccurrence(s, e)
<1>1. NextMonth(s, d) = NextMonth(s, e)
  BY DEF NextMonth
<1>2. AnchorDay(s, d) = AnchorDay(s, e)
  BY DEF AnchorDay
<1>3. Unended(s, d) = Unended(s, e)
  BY <1>1, <1>2 DEF Unended
<1> QED BY <1>3 DEF NextOccurrence

\* A schedule as the service stores it.
Regular(s) ==
  /\ s.start \in Days /\ s.recurrence \in Recurrences /\ s.interval \in Nat \ {0}
  /\ s.rule \in DateRules /\ s.until \in Days \cup {NoDate}
  /\ s.rule # "exact" => s.recurrence # "weekly" /\ s.anchor \in 1..12

LEMMA Multiples ==
  ASSUME NEW c \in Nat \ {0}
  PROVE  /\ \A k \in Nat : k * c \in Nat /\ k <= k * c /\ (k + 1) * c = k * c + c
         /\ \A j, k \in Nat : j < k => j * c + c <= k * c
<1>1. ASSUME NEW k \in Nat PROVE k * c \in Nat /\ k <= k * c /\ (k + 1) * c = k * c + c
  OBVIOUS
<1>2. ASSUME NEW j \in Nat, NEW k \in Nat, j < k PROVE j * c + c <= k * c
  <2> DEFINE i == k - j - 1
  <2>1. i \in Nat /\ k = j + 1 + i
    BY <1>2
  <2> HIDE DEF i
  <2>2. k * c = j * c + c + i * c /\ i * c \in Nat
    BY <2>1
  <2> QED BY <2>2
<1> QED BY <1>1, <1>2

\* The months in which a schedule has its runs.
LEMMA MonthsOfRuns ==
  ASSUME NEW s, Regular(s), s.recurrence \in DOMAIN MonthsPerStep, NEW b \in Months
  PROVE  /\ \A k \in Nat \ {0} :
              PlannedMonth(s, b, k) \in Months /\ PlannedMonth(s, b, k) >= k
         /\ \A j, k \in Nat \ {0} : j < k => PlannedMonth(s, b, j) < PlannedMonth(s, b, k)
         /\ b < PlannedMonth(s, b, 1)
         /\ \A d : MonthOf(d) = b => NextMonth(s, d) = PlannedMonth(s, b, 1)
         /\ \A k \in Nat \ {0} : \A d :
              MonthOf(d) = PlannedMonth(s, b, k) => NextMonth(s, d) = PlannedMonth(s, b, k + 1)
<1>1. s.interval \in Nat \ {0} /\ b \in Nat \ {0}
  BY DEF Regular, Months
<1>2. CASE s.recurrence = "yearly" /\ s.rule # "exact"
  <2> DEFINE i == s.interval
             y == YearOf(b)
             a == s.anchor
  <2>1. a \in 1..12 /\ i \in Nat \ {0}
    BY <1>1, <1>2 DEF Regular
  <2>2. y \in Nat /\ b \in 12 * y + 1..12 * y + 12
    BY <1>1 DEF YearOf
  <2>3. \A k : PlannedMonth(s, b, k) = (y + k * i) * 12 + a
    BY <1>2 DEF PlannedMonth
  <2>4. \A d : NextMonth(s, d) = (YearOf(MonthOf(d)) + i) * 12 + a
    BY <1>2 DEF NextMonth
  <2>5. \A x \in Nat : YearOf(x * 12 + a) = x
    BY <2>1 DEF YearOf
  <2>6. \A d : MonthOf(d) = b => YearOf(MonthOf(d)) = y
    OBVIOUS
  <2> HIDE DEF i, y, a
  <2>7. \A k \in Nat : k * i \in Nat /\ k <= k * i /\ (k + 1) * i = k * i + i
    BY <2>1, Multiples
  <2>8. \A j, k \in Nat : j < k => j * i + i <= k * i
    BY <2>1, Multiples
  <2>9. 1 * i = i
    BY <2>1
  <2>10. ASSUME NEW k \in Nat \ {0}
         PROVE  PlannedMonth(s, b, k) \in Months /\ PlannedMonth(s, b, k) >= k
    <3>1. PlannedMonth(s, b, k) = (y + k * i) * 12 + a /\ k * i \in Nat /\ k <= k * i
      BY <2>3, <2>7
    <3> QED BY <2>1, <2>2, <3>1 DEF Months
  <2>11. ASSUME NEW j \in Nat \ {0}, NEW k \in Nat \ {0}, j < k
         PROVE  PlannedMonth(s, b, j) < PlannedMonth(s, b, k)
    <3>1. /\ PlannedMonth(s, b, j) = (y + j * i) * 12 + a
          /\ PlannedMonth(s, b, k) = (y + k * i) * 12 + a
          /\ j * i \in Nat /\ k * i \in Nat /\ j * i + i <= k * i
      BY <2>3, <2>7, <2>8, <2>11
    <3> QED BY <2>1, <2>2, <3>1
  <2>12. b < PlannedMonth(s, b, 1)
    <3>1. PlannedMonth(s, b, 1) = (y + i) * 12 + a
      BY <2>3, <2>9
    <3> QED BY <2>1, <2>2, <3>1
  <2>13. \A d : MonthOf(d) = b => NextMonth(s, d) = PlannedMonth(s, b, 1)
    BY <2>3, <2>4, <2>6, <2>9
  <2>14. ASSUME NEW k \in Nat \ {0}, NEW d, MonthOf(d) = PlannedMonth(s, b, k)
         PROVE  NextMonth(s, d) = PlannedMonth(s, b, k + 1)
    <3>1. k * i \in Nat /\ (k + 1) * i = k * i + i /\ y + k * i \in Nat
      BY <2>2, <2>7
    <3>2. YearOf(MonthOf(d)) = y + k * i
      BY <2>3, <2>5, <2>14, <3>1
    <3>3. NextMonth(s, d) = (y + k * i + i) * 12 + a
      BY <2>4, <3>2
    <3>4. PlannedMonth(s, b, k + 1) = (y + (k * i + i)) * 12 + a
      BY <2>3, <3>1
    <3> QED BY <2>1, <2>2, <3>1, <3>3, <3>4
  <2> QED BY <2>10, <2>11, <2>12, <2>13, <2>14
<1>3. CASE ~(s.recurrence = "yearly" /\ s.rule # "exact")
  <2> DEFINE c == MonthsPerStep[s.recurrence] * s.interval
  <2>1. MonthsPerStep[s.recurrence] \in {1, 3, 12}
    BY DEF MonthsPerStep
  <2>2. c \in Nat \ {0}
    BY <1>1, <2>1
  <2>3. \A k : PlannedMonth(s, b, k) = b + k * c
    BY <1>3 DEF PlannedMonth
  <2>4. \A d : NextMonth(s, d) = MonthOf(d) + c
    BY <1>3 DEF NextMonth
  <2> HIDE DEF c
  <2>5. \A k \in Nat : k * c \in Nat /\ k <= k * c /\ (k + 1) * c = k * c + c
    BY <2>2, Multiples
  <2>6. \A j, k \in Nat : j < k => j * c + c <= k * c
    BY <2>2, Multiples
  <2>7. 1 * c = c
    BY <2>2
  <2>8. ASSUME NEW k \in Nat \ {0}
        PROVE  PlannedMonth(s, b, k) \in Months /\ PlannedMonth(s, b, k) >= k
    <3>1. PlannedMonth(s, b, k) = b + k * c /\ k * c \in Nat /\ k <= k * c
      BY <2>3, <2>5
    <3> QED BY <1>1, <3>1 DEF Months
  <2>9. ASSUME NEW j \in Nat \ {0}, NEW k \in Nat \ {0}, j < k
        PROVE  PlannedMonth(s, b, j) < PlannedMonth(s, b, k)
    <3>1. /\ PlannedMonth(s, b, j) = b + j * c /\ PlannedMonth(s, b, k) = b + k * c
          /\ j * c \in Nat /\ k * c \in Nat /\ j * c + c <= k * c
      BY <2>3, <2>5, <2>6, <2>9
    <3> QED BY <1>1, <2>2, <3>1
  <2>10. b < PlannedMonth(s, b, 1)
    <3>1. PlannedMonth(s, b, 1) = b + c
      BY <2>3, <2>7
    <3> QED BY <1>1, <2>2, <3>1
  <2>11. \A d : MonthOf(d) = b => NextMonth(s, d) = PlannedMonth(s, b, 1)
    BY <2>3, <2>4, <2>7
  <2>12. ASSUME NEW k \in Nat \ {0}, NEW d, MonthOf(d) = PlannedMonth(s, b, k)
         PROVE  NextMonth(s, d) = PlannedMonth(s, b, k + 1)
    <3>1. k * c \in Nat /\ (k + 1) * c = k * c + c
      BY <2>5
    <3>2. NextMonth(s, d) = b + k * c + c
      BY <2>3, <2>4, <2>12
    <3>3. PlannedMonth(s, b, k + 1) = b + (k * c + c)
      BY <2>3, <3>1
    <3> QED BY <1>1, <2>2, <3>1, <3>2, <3>3
  <2> QED BY <2>8, <2>9, <2>10, <2>11, <2>12
<1> QED BY <1>2, <1>3

\* The run after one of a monthly, quarterly or yearly schedule is the day the
\* schedule keeps in the month it comes to.
LEMMA RunInMonth ==
  ASSUME NEW s, Regular(s), s.recurrence \in DOMAIN MonthsPerStep, NEW d,
         NextMonth(s, d) \in Months
  PROVE  /\ Unended(s, d) \in DaysOf(NextMonth(s, d))
         /\ Keeps(s, NextMonth(s, d), Unended(s, d))
<1>1. s.recurrence \notin {"once", "weekly"}
  BY DEF MonthsPerStep
<1>2. s.start \in Days /\ s.rule \in DateRules
  BY DEF Regular
<1>3. CASE s.rule = "exact"
  <2>1. Unended(s, d) = AnchoredMonthDate(NextMonth(s, d), DayOfMonth(s.start))
    BY <1>1, <1>3 DEF Unended, AnchorDay
  <2> QED BY <1>2, <1>3, <2>1, AnchoredKeeps
<1>4. CASE s.rule # "exact"
  <2>1. Unended(s, d) = FirstMatchingWeekday(NextMonth(s, d), s.rule)
    BY <1>1, <1>4 DEF Unended
  <2>2. s.rule \in DateRules \ {"exact"}
    BY <1>2, <1>4
  <2> QED BY <2>1, <2>2, FirstKeeps
<1> QED BY <1>3, <1>4

\* The run planned after one: monthly, quarterly and yearly.
LEMMA MonthlyStep ==
  ASSUME NEW s, Regular(s), s.recurrence \in DOMAIN MonthsPerStep,
         NEW base \in Days, NEW d \in Days, InPlan(s, base, d)
  PROVE  /\ Unended(s, d) \in Days /\ Unended(s, d) > d /\ InPlan(s, base, Unended(s, d))
         /\ \A e \in Days : InPlan(s, base, e) /\ e > d => Unended(s, d) <= e
<1> DEFINE b == MonthOf(base)
           P(k) == PlannedMonth(s, b, k)
           n == Unended(s, d)
           m == NextMonth(s, d)
           Monthly(e, k) == MonthOf(e) = P(k) /\ Keeps(s, P(k), e)
<1>1. s.recurrence # "weekly" /\ s.start \in Days
  BY DEF MonthsPerStep, Regular
<1>2. b \in Months /\ base \in DaysOf(b)
  BY MonthOfDay
<1>3. /\ \A k \in Nat \ {0} : P(k) \in Months /\ P(k) >= k
      /\ \A j, k \in Nat \ {0} : j < k => P(j) < P(k)
      /\ b < P(1)
      /\ MonthOf(d) = b => m = P(1)
      /\ \A k \in Nat \ {0} : MonthOf(d) = P(k) => m = P(k + 1)
  BY <1>2, MonthsOfRuns
<1>4. ASSUME NEW e \in Days, InPlan(s, base, e), e # base
      PROVE  e > base /\ \E k \in Nat \ {0} : Monthly(e, k)
  <2>1. /\ e > base /\ Keeps(s, MonthOf(e), e)
        /\ \E k \in 1..MonthOf(e) : MonthOf(e) = PlannedMonth(s, b, k)
    BY <1>1, <1>4 DEF InPlan
  <2>2. MonthOf(e) \in Months
    BY MonthOfDay
  <2>3. PICK k \in 1..MonthOf(e) : MonthOf(e) = P(k)
    BY <2>1
  <2>4. k \in Nat \ {0}
    BY <2>2 DEF Months
  <2> QED BY <2>1, <2>3, <2>4
<1>5. ASSUME NEW e \in Days, NEW k \in Nat \ {0}, e > base, Monthly(e, k)
      PROVE  InPlan(s, base, e)
  <2>1. MonthOf(e) = P(k) /\ Keeps(s, MonthOf(e), e)
    BY <1>5
  <2>2. k \in 1..MonthOf(e)
    BY <1>3, <2>1 DEF Months
  <2>3. Fits(s, e)
    BY <2>1 DEF Keeps
  <2> QED BY <1>5, <2>1, <2>2, <2>3 DEF InPlan
<1> HIDE DEF b, P, m
<1>6. \E k \in Nat : /\ m = P(k + 1) /\ MonthOf(d) < P(k + 1) /\ d >= base
                     /\ k = 0 => d = base
                     /\ k # 0 => Monthly(d, k)
  <2>1. CASE d = base
    <3>1. MonthOf(d) = b /\ m = P(0 + 1) /\ MonthOf(d) < P(0 + 1)
      BY <1>3, <2>1 DEF b
    <3> QED BY <2>1, <3>1 DEF Days
  <2>2. CASE d # base
    <3>1. PICK k \in Nat \ {0} : Monthly(d, k)
      BY <1>4, <2>2
    <3>2. d > base
      BY <1>4, <2>2
    <3>3. k + 1 \in Nat \ {0} /\ k < k + 1
      OBVIOUS
    <3>4. m = P(k + 1) /\ P(k) < P(k + 1)
      BY <1>3, <3>1, <3>3
    <3> QED BY <3>1, <3>2, <3>4 DEF Days
  <2> QED BY <2>1, <2>2
<1>7. PICK k \in Nat : /\ m = P(k + 1) /\ MonthOf(d) < P(k + 1) /\ d >= base
                       /\ k = 0 => d = base
                       /\ k # 0 => Monthly(d, k)
  BY <1>6
<1>8. k + 1 \in Nat \ {0} /\ P(k + 1) \in Months
  BY <1>3
<1>9. n \in DaysOf(P(k + 1)) /\ Keeps(s, P(k + 1), n)
  BY <1>7, <1>8, RunInMonth DEF m
<1> HIDE DEF n
<1>10. n \in Days /\ MonthOf(n) = P(k + 1)
  BY <1>8, <1>9, DayInMonth
<1>11. n > d
  BY <1>7, <1>10, EarlierMonth DEF Days
<1>12. InPlan(s, base, n)
  BY <1>5, <1>7, <1>8, <1>9, <1>10, <1>11 DEF Days
<1>13. ASSUME NEW e \in Days, InPlan(s, base, e), e > d PROVE n <= e
  <2>1. e # base
    BY <1>7, <1>13 DEF Days
  <2>2. PICK j \in Nat \ {0} : Monthly(e, j)
    BY <1>4, <1>13, <2>1
  <2> SUFFICES ASSUME e < n PROVE FALSE
    BY <1>10 DEF Days
  <2>3. ~(k + 1 < j)
    <3> SUFFICES ASSUME k + 1 < j PROVE FALSE
      OBVIOUS
    <3>1. P(k + 1) < P(j)
      BY <1>3, <1>8
    <3> QED BY <1>10, <2>2, <3>1, EarlierMonth DEF Days
  <2>4. j # k + 1
    <3> SUFFICES ASSUME j = k + 1 PROVE FALSE
      OBVIOUS
    <3>1. e \in DaysOf(P(k + 1)) /\ Keeps(s, P(k + 1), e)
      BY <2>2, MonthOfDay
    <3>2. e = n
      BY <1>1, <1>8, <1>9, <3>1, KeepsOneDay
    <3> QED BY <3>2 DEF Days
  <2>5. j <= k /\ k \in Nat \ {0}
    BY <2>3, <2>4
  <2>6. d \in DaysOf(P(k)) /\ Keeps(s, P(k), d) /\ P(k) \in Months /\ P(j) \in Months
    BY <1>3, <1>7, <2>5, MonthOfDay
  <2>7. CASE j = k
    <3>1. e \in DaysOf(P(k)) /\ Keeps(s, P(k), e)
      BY <2>2, <2>7, MonthOfDay
    <3>2. e = d
      BY <1>1, <2>6, <3>1, KeepsOneDay
    <3> QED BY <1>13, <3>2 DEF Days
  <2>8. CASE j < k
    <3>1. P(j) < P(k)
      BY <1>3, <2>5, <2>8
    <3>2. MonthOf(e) = P(j) /\ MonthOf(d) = P(k)
      BY <1>7, <2>2, <2>5
    <3> QED BY <1>13, <3>1, <3>2, EarlierMonth DEF Days
  <2> QED BY <2>5, <2>7, <2>8
<1> QED BY <1>10, <1>11, <1>12, <1>13 DEF n

\* The run planned after one: weekly.
LEMMA WeeklyStep ==
  ASSUME NEW s, Regular(s), s.recurrence = "weekly",
         NEW base \in Days, NEW d \in Days, InPlan(s, base, d)
  PROVE  /\ Unended(s, d) \in Days /\ Unended(s, d) >= d + 7 /\ InPlan(s, base, Unended(s, d))
         /\ \A e \in Days : InPlan(s, base, e) /\ e > d => Unended(s, d) <= e
<1> DEFINE c == 7 * s.interval
<1>1. c \in Nat /\ c >= 7
  BY DEF Regular
<1>2. Unended(s, d) = d + c
  BY DEF Unended
<1>3. \A e : InPlan(s, base, e) =>
        e = base \/ (e > base /\ \E k \in 1..e - base : e = base + k * c)
  BY DEF InPlan, MonthsPerStep
<1>4. \A e : e > base /\ (\E k \in 1..e - base : e = base + k * c) => InPlan(s, base, e)
  BY DEF InPlan
<1> HIDE DEF c
<1>5. \A k \in Nat : k * c \in Nat /\ k <= k * c /\ (k + 1) * c = k * c + c
  BY <1>1, Multiples
<1>6. \A j, k \in Nat : j < k => j * c + c <= k * c
  BY <1>1, Multiples
<1>7. ASSUME NEW e \in Days, InPlan(s, base, e)
      PROVE  \E k \in Nat : e = base + k * c
  <2>1. CASE e = base
    <3>1. base = base + 0 * c
      BY <1>1 DEF Days
    <3> QED BY <2>1, <3>1
  <2>2. CASE e # base
    BY <1>3, <1>7, <2>2 DEF Days
  <2> QED BY <2>1, <2>2
<1>8. PICK k \in Nat : d = base + k * c
  BY <1>7
<1>9. k * c \in Nat /\ (k + 1) * c = k * c + c /\ k + 1 <= (k + 1) * c
  BY <1>5
<1>10. d + c \in Days /\ d + c > base /\ d + c = base + (k + 1) * c /\ k + 1 \in 1..(d + c) - base
  BY <1>1, <1>8, <1>9 DEF Days
<1>11. InPlan(s, base, d + c)
  BY <1>4, <1>10
<1>12. ASSUME NEW e \in Days, InPlan(s, base, e), e > d PROVE d + c <= e
  <2>1. PICK j \in Nat : e = base + j * c
    BY <1>7, <1>12
  <2>2. j * c \in Nat
    BY <1>5
  <2>3. ~(j < k)
    <3> SUFFICES ASSUME j < k PROVE FALSE
      OBVIOUS
    <3>1. j * c + c <= k * c
      BY <1>6
    <3> QED BY <1>1, <1>8, <1>9, <1>12, <2>1, <2>2, <3>1 DEF Days
  <2>4. j # k
    BY <1>8, <1>12, <2>1 DEF Days
  <2>5. k * c + c <= j * c
    BY <1>6, <2>3, <2>4
  <2> QED BY <1>1, <1>8, <1>9, <2>1, <2>2, <2>5 DEF Days
<1> QED BY <1>1, <1>2, <1>10, <1>11, <1>12 DEF Days

\* Stepping from a planned run gives the planned run after it, and the end of
\* the schedule exactly when there is none: no run is passed over, none is
\* added, and the until date ends the plan where it says.
THEOREM StepsFollowThePlan ==
  ASSUME NEW s, Regular(s), NEW base \in Days, NEW d \in Days, Planned(s, base, d)
  PROVE  LET next == NextOccurrence(s, d)
         IN  /\ next # NoDate => next \in Days /\ next > d /\ Planned(s, base, next)
             /\ \A e \in Days :
                  Planned(s, base, e) /\ e > d => next # NoDate /\ next <= e
<1> DEFINE u == Unended(s, d)
           next == NextOccurrence(s, d)
<1>1. InPlan(s, base, d)
  BY DEF Planned
<1>2. next = IF Before(s.until, u) THEN NoDate ELSE u
  BY DEF NextOccurrence
<1>3. CASE s.recurrence = "once"
  <2>1. u = NoDate
    BY <1>3 DEF Unended
  <2>2. next = NoDate
    BY <1>2, <2>1
  <2>3. \A e : InPlan(s, base, e) => e = base
    BY <1>3 DEF InPlan, MonthsPerStep
  <2>4. \A e \in Days : Planned(s, base, e) => ~(e > d)
    BY <1>1, <2>3 DEF Planned, Days
  <2> QED BY <2>2, <2>4
<1>4. CASE s.recurrence # "once"
  <2>1. /\ u \in Days /\ u > d /\ InPlan(s, base, u)
        /\ \A e \in Days : InPlan(s, base, e) /\ e > d => u <= e
    <3>1. CASE s.recurrence = "weekly"
      <4>1. /\ u \in Days /\ u >= d + 7 /\ InPlan(s, base, u)
            /\ \A e \in Days : InPlan(s, base, e) /\ e > d => u <= e
        BY <1>1, <3>1, WeeklyStep
      <4> QED BY <4>1 DEF Days
    <3>2. CASE s.recurrence # "weekly"
      <4>1. s.recurrence \in DOMAIN MonthsPerStep
        BY <1>4, <3>2 DEF Regular, Recurrences
      <4> QED BY <1>1, <4>1, MonthlyStep
    <3> QED BY <3>1, <3>2
  <2> HIDE DEF u
  <2>2. CASE Before(s.until, u)
    <3>1. next = NoDate
      BY <1>2, <2>2
    <3>2. s.until # NoDate /\ s.until < u
      BY <2>2 DEF Before
    <3>3. s.until \in Days
      BY <3>2 DEF Regular
    <3>4. \A e \in Days : e # NoDate
      BY CalendarAssumption DEF Days
    <3>5. ASSUME NEW e \in Days, Planned(s, base, e), e > d PROVE FALSE
      <4>1. u <= e
        BY <2>1, <3>5 DEF Planned
      <4>2. s.until < e
        BY <2>1, <3>2, <3>3, <4>1 DEF Days
      <4> QED BY <3>2, <3>4, <3>5, <4>2 DEF Planned, Before
    <3> QED BY <3>1, <3>5
  <2>3. CASE ~Before(s.until, u)
    <3>1. next = u /\ Planned(s, base, u)
      BY <1>2, <2>1, <2>3 DEF Planned
    <3>2. u # NoDate
      BY <2>1, CalendarAssumption DEF Days
    <3> QED BY <2>1, <3>1, <3>2 DEF Planned
  <2> QED BY <2>2, <2>3
<1> QED BY <1>3, <1>4

\* The table FirstRun defines by recursion over the steps left.
StepsLeft(s, day, table, k) ==
  [d \in Days |->
     IF d >= day THEN d
     ELSE IF k = 0 \/ NextOccurrence(s, d) = NoDate THEN NoDate
     ELSE table[k - 1][NextOccurrence(s, d)]]

LEMMA RunTable ==
  ASSUME NEW s, NEW day, NEW max \in Nat
  PROVE  FirstRun(s, day, max) =
           [k \in 0..max |-> StepsLeft(s, day, FirstRun(s, day, max), k)]
<1> DEFINE Table(n, table) == table = [k \in 0..n |-> StepsLeft(s, day, table, k)]
           S == {n \in Nat : ~\E table : Table(n, table)}
<1>1. ASSUME NEW f, NEW g, NEW k, k = 0 \/ f[k - 1] = g[k - 1]
      PROVE  StepsLeft(s, day, f, k) = StepsLeft(s, day, g, k)
  BY <1>1 DEF StepsLeft
<1>2. \E table : Table(0, table)
  <2> DEFINE table == [k \in 0..0 |-> StepsLeft(s, day, <<>>, k)]
  <2>1. \A k \in 0..0 : StepsLeft(s, day, <<>>, k) = StepsLeft(s, day, table, k)
    BY <1>1
  <2>2. Table(0, table)
    BY <2>1
  <2> HIDE DEF table, Table
  <2> QED BY <2>2
<1>3. ASSUME NEW n \in Nat, NEW f, Table(n, f) PROVE \E table : Table(n + 1, table)
  <2> DEFINE Row(k) == IF k <= n THEN f[k] ELSE StepsLeft(s, day, f, k)
             table == [k \in 0..n + 1 |-> Row(k)]
  <2>1. \A k \in 0..n : f[k] = StepsLeft(s, day, f, k)
    BY <1>3
  <2> HIDE DEF Table
  <2>2. \A k \in 0..n + 1 : Row(k) = StepsLeft(s, day, f, k)
    BY <2>1
  <2>3. \A k \in 0..n + 1 : table[k] = Row(k)
    OBVIOUS
  <2>4. \A k \in 0..n : table[k] = f[k]
    OBVIOUS
  <2> HIDE DEF table, Row
  <2>5. \A k \in 0..n + 1 : StepsLeft(s, day, f, k) = StepsLeft(s, day, table, k)
    <3> SUFFICES ASSUME NEW k \in 0..n + 1
                 PROVE  StepsLeft(s, day, f, k) = StepsLeft(s, day, table, k)
      OBVIOUS
    <3>1. k = 0 \/ f[k - 1] = table[k - 1]
      BY <2>4
    <3> QED BY <1>1, <3>1
  <2>6. table = [k \in 0..n + 1 |-> StepsLeft(s, day, table, k)]
    <3>1. table = [k \in 0..n + 1 |-> Row(k)]
      BY DEF table
    <3> QED BY <2>2, <2>5, <3>1
  <2> QED BY <2>6 DEF Table
<1>4. S = {}
  <2> SUFFICES ASSUME S # {} PROVE FALSE
    OBVIOUS
  <2> HIDE DEF Table
  <2> DEFINE n == Min(S)
  <2>1. n \in S /\ \A k \in S : n <= k
    BY LeastRow
  <2> HIDE DEF n
  <2>2. n # 0
    BY <1>2, <2>1
  <2>3. n - 1 \in Nat /\ n - 1 \notin S /\ n - 1 + 1 = n
    BY <2>1, <2>2
  <2>4. \E table : Table(n - 1, table)
    BY <2>3
  <2>5. \E table : Table(n - 1 + 1, table)
    BY <1>3, <2>3, <2>4
  <2> QED BY <2>1, <2>3, <2>5
<1>5. \E table : Table(max, table)
  <2> HIDE DEF Table
  <2> QED BY <1>4
<1>6. FirstRun(s, day, max) = CHOOSE table : Table(max, table)
  BY DEF FirstRun, StepsLeft
<1> HIDE DEF Table
<1>7. Table(max, FirstRun(s, day, max))
  BY <1>5, <1>6
<1> QED BY <1>7 DEF Table

LEMMA RunStep ==
  ASSUME NEW s, NEW day, NEW max \in Nat, NEW k \in 0..max, NEW d \in Days
  PROVE  FirstRun(s, day, max)[k][d] =
           IF d >= day THEN d
           ELSE IF k = 0 \/ NextOccurrence(s, d) = NoDate THEN NoDate
           ELSE FirstRun(s, day, max)[k - 1][NextOccurrence(s, d)]
<1> DEFINE table == FirstRun(s, day, max)
<1>1. table = [j \in 0..max |-> StepsLeft(s, day, table, j)]
  BY RunTable
<1> HIDE DEF table
<1>2. table[k] = StepsLeft(s, day, table, k)
  BY <1>1
<1>3. table[k][d] = IF d >= day THEN d
                  ELSE IF k = 0 \/ NextOccurrence(s, d) = NoDate THEN NoDate
                  ELSE table[k - 1][NextOccurrence(s, d)]
  BY <1>2 DEF StepsLeft
<1> QED BY <1>3 DEF table

\* A step is a week or more, or comes to a later month.
LEMMA StepLength ==
  ASSUME NEW s, Regular(s), NEW d \in Days, NextOccurrence(s, d) # NoDate
  PROVE  /\ s.recurrence # "once"
         /\ s.recurrence = "weekly" => NextOccurrence(s, d) >= d + 7
         /\ s.recurrence # "weekly" => MonthOf(NextOccurrence(s, d)) > MonthOf(d)
<1>1. NextOccurrence(s, d) = Unended(s, d)
  BY DEF NextOccurrence
<1>2. s.recurrence # "once"
  BY <1>1 DEF Unended
<1>3. CASE s.recurrence = "weekly"
  <2>1. Unended(s, d) = d + 7 * s.interval
    BY <1>3 DEF Unended
  <2>2. 7 * s.interval >= 7 /\ 7 * s.interval \in Nat
    BY DEF Regular
  <2> QED BY <1>1, <1>2, <1>3, <2>1, <2>2 DEF Days
<1>4. CASE s.recurrence # "weekly"
  <2>1. s.recurrence \in DOMAIN MonthsPerStep
    BY <1>2, <1>4 DEF Regular, Recurrences
  <2> DEFINE b == MonthOf(d)
             m == NextMonth(s, d)
  <2>2. b \in Months
    BY MonthOfDay
  <2>3. m = PlannedMonth(s, b, 1) /\ b < PlannedMonth(s, b, 1) /\ PlannedMonth(s, b, 1) \in Months
    BY <2>1, <2>2, MonthsOfRuns
  <2>4. Unended(s, d) \in DaysOf(m) /\ m \in Months
    BY <2>1, <2>3, RunInMonth
  <2>5. MonthOf(Unended(s, d)) = m
    BY <2>4, DayInMonth
  <2> QED BY <1>1, <1>2, <1>4, <2>3, <2>5
<1> QED BY <1>3, <1>4

\* Whether so many steps from d pass the day.
Enough(s, day, k, d) ==
  \/ d >= day
  \/ IF s.recurrence = "weekly" THEN day - d <= 7 * k ELSE MonthOf(day) - MonthOf(d) < k

\* Stepping from a planned run gives the first one planned on the day or later,
\* and no run when there is none or the steps do not suffice.
LEMMA FirstPlannedRun ==
  ASSUME NEW s, Regular(s), NEW base \in Days, NEW day \in Days, NEW max \in Nat
  PROVE  \A k \in 0..max : \A d \in Days : Planned(s, base, d) =>
           LET r == FirstRun(s, day, max)[k][d]
           IN  /\ r # NoDate =>
                    /\ r \in Days /\ r >= day /\ r >= d /\ Planned(s, base, r)
                    /\ \A e \in Days : Planned(s, base, e) /\ e >= day /\ e >= d => r <= e
               /\ r = NoDate /\ Enough(s, day, k, d) =>
                    \A e \in Days : Planned(s, base, e) /\ e >= d => e < day
<1> DEFINE R(k, d) == FirstRun(s, day, max)[k][d]
           P(d) == Planned(s, base, d)
           Found(r, d) == /\ r \in Days /\ r >= day /\ r >= d /\ P(r)
                          /\ \A e \in Days : P(e) /\ e >= day /\ e >= d => r <= e
           None(d) == \A e \in Days : P(e) /\ e >= d => e < day
           Good(k) == \A d \in Days : P(d) =>
                        /\ R(k, d) # NoDate => Found(R(k, d), d)
                        /\ R(k, d) = NoDate /\ Enough(s, day, k, d) => None(d)
           S == {k \in Nat : k <= max /\ ~Good(k)}
<1>1. ASSUME NEW k \in 0..max, NEW d \in Days
      PROVE  R(k, d) = IF d >= day THEN d
                       ELSE IF k = 0 \/ NextOccurrence(s, d) = NoDate THEN NoDate
                       ELSE R(k - 1, NextOccurrence(s, d))
  BY RunStep
<1>2. ASSUME NEW d \in Days, P(d)
      PROVE  /\ NextOccurrence(s, d) # NoDate =>
                  /\ NextOccurrence(s, d) \in Days /\ NextOccurrence(s, d) > d
                  /\ P(NextOccurrence(s, d))
             /\ \A e \in Days : P(e) /\ e > d =>
                  NextOccurrence(s, d) # NoDate /\ NextOccurrence(s, d) <= e
  BY <1>2, StepsFollowThePlan
<1>3. ASSUME NEW d \in Days, NextOccurrence(s, d) # NoDate
      PROVE  /\ s.recurrence # "once"
             /\ s.recurrence = "weekly" => NextOccurrence(s, d) >= d + 7
             /\ s.recurrence # "weekly" => MonthOf(NextOccurrence(s, d)) > MonthOf(d)
  BY <1>3, StepLength
<1>4. \A d \in Days : MonthOf(d) \in Nat
  BY MonthOfDay DEF Months
<1>5. \A d \in Days : d \in Nat /\ d # NoDate
  BY CalendarAssumption DEF Days
<1> HIDE DEF R, P
<1>6. ASSUME NEW k \in 0..max, k = 0 \/ Good(k - 1) PROVE Good(k)
  <2> SUFFICES ASSUME NEW d \in Days, P(d)
               PROVE  /\ R(k, d) # NoDate => Found(R(k, d), d)
                      /\ R(k, d) = NoDate /\ Enough(s, day, k, d) => None(d)
    OBVIOUS
  <2> DEFINE n == NextOccurrence(s, d)
  <2>1. CASE d >= day
    <3>1. R(k, d) = d
      BY <1>1, <2>1
    <3>2. Found(d, d)
      BY <1>5, <2>1
    <3> QED BY <1>5, <3>1, <3>2
  <2>2. CASE ~(d >= day) /\ n = NoDate
    <3>1. R(k, d) = NoDate
      BY <1>1, <2>2
    <3>2. \A e \in Days : P(e) => ~(e > d)
      BY <1>2, <2>2
    <3>3. None(d)
      BY <1>5, <2>2, <3>2
    <3> QED BY <3>1, <3>3
  <2>3. CASE ~(d >= day) /\ n # NoDate /\ k = 0
    <3>1. R(k, d) = NoDate
      BY <1>1, <2>3
    <3>2. ~Enough(s, day, 0, d)
      <4>1. MonthOf(day) >= MonthOf(d)
        <5> SUFFICES ASSUME MonthOf(day) < MonthOf(d) PROVE FALSE
          BY <1>4
        <5> QED BY <1>5, <2>3, EarlierMonth
      <4>2. ~(MonthOf(day) - MonthOf(d) < 0)
        BY <1>4, <4>1
      <4>3. ~(day - d <= 7 * 0)
        BY <1>5, <2>3
      <4> QED BY <2>3, <4>2, <4>3 DEF Enough
    <3> QED BY <2>3, <3>1, <3>2
  <2>4. CASE ~(d >= day) /\ n # NoDate /\ k # 0
    <3>1. R(k, d) = R(k - 1, n)
      BY <1>1, <2>4
    <3>2. n \in Days /\ n > d /\ P(n) /\ \A e \in Days : P(e) /\ e > d => n <= e
      BY <1>2, <2>4
    <3>3. Good(k - 1)
      BY <1>6, <2>4
    <3>4. ASSUME Enough(s, day, k, d) PROVE Enough(s, day, k - 1, n)
      <4>1. CASE s.recurrence = "weekly"
        <5>1. day - d <= 7 * k
          BY <2>4, <3>4, <4>1 DEF Enough
        <5>2. n >= d + 7
          BY <1>3, <2>4, <4>1
        <5>3. day - n <= 7 * (k - 1)
          BY <1>5, <3>2, <5>1, <5>2
        <5> QED BY <4>1, <5>3 DEF Enough
      <4>2. CASE s.recurrence # "weekly"
        <5>1. MonthOf(day) - MonthOf(d) < k
          BY <2>4, <3>4, <4>2 DEF Enough
        <5>2. MonthOf(n) > MonthOf(d)
          BY <1>3, <2>4, <4>2
        <5>3. MonthOf(day) - MonthOf(n) < k - 1
          BY <1>4, <3>2, <5>1, <5>2
        <5> QED BY <4>2, <5>3 DEF Enough
      <4> QED BY <4>1, <4>2
    <3> HIDE DEF n
    <3>5. ASSUME NEW r, Found(r, n) PROVE Found(r, d)
      BY <1>5, <2>4, <3>2, <3>5
    <3>6. None(n) => None(d)
      BY <1>5, <2>4, <3>2
    <3>7. /\ R(k - 1, n) # NoDate => Found(R(k - 1, n), n)
          /\ R(k - 1, n) = NoDate /\ Enough(s, day, k - 1, n) => None(n)
      BY <3>2, <3>3
    <3> HIDE DEF Found, None
    <3> QED BY <3>1, <3>4, <3>5, <3>6, <3>7
  <2> QED BY <2>1, <2>2, <2>3, <2>4
<1> HIDE DEF Good
<1>7. S = {}
  <2> SUFFICES ASSUME S # {} PROVE FALSE
    OBVIOUS
  <2> DEFINE k == Min(S)
  <2>1. k \in S /\ \A j \in S : k <= j
    BY LeastRow
  <2> HIDE DEF k
  <2>2. k \in 0..max /\ ~Good(k)
    BY <2>1
  <2>3. k = 0 \/ Good(k - 1)
    <3>1. CASE k # 0
      <4>1. k - 1 \in Nat /\ k - 1 <= max /\ k - 1 \notin S
        BY <2>1, <2>2, <3>1
      <4> QED BY <4>1
    <3> QED BY <3>1
  <2> QED BY <1>6, <2>2, <2>3
<1>8. \A k \in 0..max : Good(k)
  BY <1>7
<1> QED BY <1>8 DEF Good, R, P

\* Skipping missed runs goes to the first run planned on the day or later, and
\* ends the schedule only when none is left or the steps are too few: 1000
\* weekly steps are 19 years.
THEOREM MissedRunsAreSkipped ==
  ASSUME NEW s, Regular(s), NEW base \in Days, NEW day \in Days, NEW max \in Nat,
         s.next \in Days, Planned(s, base, s.next)
  PROVE  LET r == AfterMissedRuns(s, day, max)
         IN  /\ r # NoDate =>
                  /\ r \in Days /\ r >= day /\ r >= s.next /\ Planned(s, base, r)
                  /\ \A e \in Days : Planned(s, base, e) /\ e >= day /\ e >= s.next => r <= e
             /\ r = NoDate /\ day < 7 * max =>
                  \A e \in Days : Planned(s, base, e) /\ e >= s.next => e < day
<1> DEFINE n == s.next
           r == FirstRun(s, day, max)[max][n]
           P(d) == Planned(s, base, d)
<1>1. AfterMissedRuns(s, day, max) = r
  BY DEF AfterMissedRuns
<1>2. n \in Days /\ P(n) /\ max \in 0..max /\ day \in Nat /\ n \in Nat
  BY DEF Days
<1>3. /\ r # NoDate =>
           /\ r \in Days /\ r >= day /\ r >= n /\ P(r)
           /\ \A e \in Days : P(e) /\ e >= day /\ e >= n => r <= e
      /\ r = NoDate /\ Enough(s, day, max, n) =>
           \A e \in Days : P(e) /\ e >= n => e < day
  BY <1>2, FirstPlannedRun
<1> HIDE DEF r, P
<1>4. ASSUME day < 7 * max PROVE Enough(s, day, max, n)
  <2>1. day - n <= 7 * max
    BY <1>2, <1>4
  <2>2. /\ MonthOf(day) \in Nat /\ MonthOf(day) <= day \div 28 + 1
        /\ MonthOf(n) \in Nat /\ MonthOf(n) >= 1
    BY <1>2, MonthOfDay DEF Months
  <2>3. day \div 28 < max
    BY <1>2, <1>4
  <2>4. MonthOf(day) - MonthOf(n) < max
    BY <1>2, <2>2, <2>3
  <2> QED BY <2>1, <2>4 DEF Enough
<1> QED BY <1>1, <1>3, <1>4 DEF P
-----------------------------------------------------------------------------
(* Audits of a schedule. *)

AuditRow == [date : Int, claimed : BOOLEAN, sent : Nat, failed : Nat]

\* Whatever the attendee got came of sends that failed.
Owed(row) == row.sent <= row.failed

\* A row whose send has come to its end stays claimed.
Settled(row) == row.sent <= 1 + row.failed /\ (~row.claimed => Owed(row))

AuditRows ==
  /\ audits \in Seq(AuditRow)
  /\ \A i \in DOMAIN audits : Settled(audits[i])

\* A schedule remembers the date of its last audit.
LastIsLatest ==
  Exists =>
    /\ "last" \in DOMAIN schedule
    /\ \A i \in DOMAIN audits : schedule.last \in Int /\ audits[i].date <= schedule.last

Mailing == [pc : {"rows", "mail", "release"}, rows : (SUBSET Nat) \ {{}}]
Mailings == [Mailers -> Mailing \cup {Idle}]

\* The task has claimed its next row and not yet mailed or released it.
Holds(w) == mailer[w].pc \in {"mail", "release"}

\* A row that a task holds is claimed, owed a send, and held by no other.
Held ==
  /\ mailer \in Mailings
  /\ \A w \in Mailers : mailer[w] # Idle => mailer[w].rows \subseteq DOMAIN audits
  /\ \A w \in Mailers :
       Holds(w) => audits[NextRow(w)].claimed /\ Owed(audits[NextRow(w)])
  /\ \A v, w \in Mailers : Holds(v) /\ Holds(w) /\ NextRow(v) = NextRow(w) => v = w

\* The rows whose task died between the claim and the mail.
LostRows ==
  {i \in DOMAIN audits :
     /\ audits[i].claimed /\ audits[i].sent = 0
     /\ ~\E w \in Mailers : Holds(w) /\ NextRow(w) = i}

Counts == [edits : Nat, outages : Nat, failures : Nat, deaths : Nat]
DeathsCounted == count \in Counts /\ Cardinality(LostRows) <= count.deaths

DatesInv == RunsMoveForward /\ LastIsLatest
ScheduleInv == AuditRows /\ DatesInv /\ Held /\ DeathsCounted

LEMMA RowsAreNumbers ==
  ASSUME AuditRows
  PROVE  /\ DOMAIN audits = 1..Len(audits) /\ Len(audits) \in Nat
         /\ \A i \in DOMAIN audits : audits[i] \in AuditRow
BY DEF AuditRows

\* The next row of a task that has rows is a row.
LEMMA NextRowIsRow ==
  ASSUME AuditRows, Held, NEW w \in Mailers, mailer[w] # Idle
  PROVE  /\ mailer[w] \in Mailing /\ mailer[w].rows \subseteq DOMAIN audits
         /\ NextRow(w) \in mailer[w].rows /\ NextRow(w) \in DOMAIN audits
<1>1. mailer[w] \in Mailing /\ mailer[w].rows \subseteq DOMAIN audits
  BY DEF Held, Mailings
<1>2. mailer[w].rows \in SUBSET Nat /\ mailer[w].rows # {}
  BY <1>1 DEF Mailing
<1>3. NextRow(w) \in mailer[w].rows
  BY <1>2, LeastRow DEF NextRow
<1> QED BY <1>1, <1>3

LEMMA HoldersWork ==
  ASSUME NEW w, NEW pc, mailer[w].pc = pc, pc # "idle"
  PROVE  mailer[w] # Idle
BY DEF Idle

\* Going on with some rows, or with none.
LEMMA GoRows ==
  ASSUME AuditRows, mailer \in Mailings, NEW w \in Mailers,
         NEW pc \in {"rows", "mail", "release"},
         NEW rows \in SUBSET DOMAIN audits, Go(w, pc, rows)
  PROVE  /\ mailer' \in Mailings
         /\ \A v \in Mailers \ {w} : mailer'[v] = mailer[v]
         /\ mailer'[w] # Idle => mailer'[w].rows \subseteq DOMAIN audits
         /\ pc = "rows" => ~Holds(w)'
         /\ rows # {} => mailer'[w] = [pc |-> pc, rows |-> rows]
<1> DEFINE go == IF rows = {} THEN Idle ELSE [pc |-> pc, rows |-> rows]
<1>1. rows \in SUBSET Nat
  BY RowsAreNumbers
<1>2. go \in Mailing \cup {Idle}
  BY <1>1 DEF Mailing
<1>3. mailer' = [mailer EXCEPT ![w] = go]
  BY DEF Go
<1> HIDE DEF go
<1>4. mailer' \in Mailings /\ mailer'[w] = go /\ \A v \in Mailers \ {w} : mailer'[v] = mailer[v]
  BY <1>2, <1>3 DEF Mailings
<1> USE DEF go
<1>5. mailer'[w] # Idle => mailer'[w].rows \subseteq DOMAIN audits
  BY <1>4
<1>6. pc = "rows" => ~Holds(w)'
  BY <1>4 DEF Holds, Idle
<1>7. rows # {} => mailer'[w] = [pc |-> pc, rows |-> rows]
  BY <1>4
<1> QED BY <1>4, <1>5, <1>6, <1>7

\* A step of one task on a row that no other task holds.
LEMMA RowStep ==
  ASSUME Held, mailer' \in Mailings, NEW w \in Mailers, NEW i \in DOMAIN audits,
         DOMAIN audits' = DOMAIN audits,
         \A k \in DOMAIN audits \ {i} : audits'[k] = audits[k],
         \A v \in Mailers \ {w} : mailer'[v] = mailer[v],
         \A v \in Mailers \ {w} : Holds(v) => NextRow(v) # i,
         Holds(w) => NextRow(w) = i,
         mailer'[w] # Idle => mailer'[w].rows \subseteq DOMAIN audits,
         Holds(w)' => NextRow(w)' = i /\ audits'[i].claimed /\ Owed(audits'[i]),
         AuditRows
  PROVE  Held' /\ LostRows' \subseteq LostRows \cup {i}
<1>1. \A v \in Mailers \ {w} : (Holds(v)' <=> Holds(v)) /\ NextRow(v)' = NextRow(v)
  BY DEF Holds, NextRow
<1>2. \A v \in Mailers \ {w} : Holds(v) => NextRow(v) \in DOMAIN audits \ {i}
  BY NextRowIsRow, HoldersWork DEF Holds
<1>3. \A v \in Mailers : mailer'[v] # Idle => mailer'[v].rows \subseteq DOMAIN audits'
  BY DEF Held
<1>4. \A v \in Mailers : Holds(v)' => audits'[NextRow(v)'].claimed /\ Owed(audits'[NextRow(v)'])
  <2> SUFFICES ASSUME NEW v \in Mailers, Holds(v)'
               PROVE  audits'[NextRow(v)'].claimed /\ Owed(audits'[NextRow(v)'])
    OBVIOUS
  <2>1. CASE v = w
    BY <2>1
  <2>2. CASE v # w
    BY <2>2, <1>1, <1>2 DEF Held
  <2> QED BY <2>1, <2>2
<1>5. \A u, v \in Mailers : Holds(u)' /\ Holds(v)' /\ NextRow(u)' = NextRow(v)' => u = v
  BY <1>1, <1>2 DEF Held
<1>6. Held'
  BY <1>3, <1>4, <1>5 DEF Held
<1>7. ASSUME NEW k \in LostRows', k # i
      PROVE  k \in LostRows
  <2>1. /\ k \in DOMAIN audits /\ audits[k].claimed /\ audits[k].sent = 0
        /\ \A v \in Mailers : Holds(v)' => NextRow(v)' # k
    BY <1>7 DEF LostRows
  <2>2. \A v \in Mailers : Holds(v) => NextRow(v) # k
    BY <1>1, <1>7, <2>1
  <2> QED BY <2>1, <2>2 DEF LostRows
<1> QED BY <1>6, <1>7

\* A step of one task that changes no row and holds none it did not hold.
LEMMA TaskStep ==
  ASSUME Held, AuditRows, mailer' \in Mailings, NEW w \in Mailers, audits' = audits,
         \A v \in Mailers \ {w} : mailer'[v] = mailer[v],
         mailer'[w] # Idle => mailer'[w].rows \subseteq DOMAIN audits,
         Holds(w)' => Holds(w) /\ NextRow(w)' = NextRow(w)
  PROVE  /\ Held'
         /\ LostRows' \subseteq LostRows \cup {NextRow(w)}
         /\ (Holds(w) => Holds(w)') => LostRows' \subseteq LostRows
<1>1. \A v \in Mailers \ {w} : (Holds(v)' <=> Holds(v)) /\ NextRow(v)' = NextRow(v)
  BY DEF Holds, NextRow
<1>2. \A v \in Mailers : Holds(v)' => Holds(v) /\ NextRow(v)' = NextRow(v)
  BY <1>1
<1>3. \A v \in Mailers : mailer'[v] # Idle => mailer'[v].rows \subseteq DOMAIN audits'
  BY DEF Held
<1>4. \A v \in Mailers : Holds(v)' => audits'[NextRow(v)'].claimed /\ Owed(audits'[NextRow(v)'])
  BY <1>2 DEF Held
<1>5. \A u, v \in Mailers : Holds(u)' /\ Holds(v)' /\ NextRow(u)' = NextRow(v)' => u = v
  BY <1>2 DEF Held
<1>6. Held'
  BY <1>3, <1>4, <1>5 DEF Held
<1>7. ASSUME NEW k \in LostRows', k = NextRow(w) => (Holds(w) => Holds(w)')
      PROVE  k \in LostRows
  <2>1. /\ k \in DOMAIN audits /\ audits[k].claimed /\ audits[k].sent = 0
        /\ \A v \in Mailers : Holds(v)' => NextRow(v)' # k
    BY DEF LostRows
  <2>2. \A v \in Mailers : Holds(v) => NextRow(v) # k
    BY <1>1, <1>2, <1>7, <2>1
  <2> QED BY <2>1, <2>2 DEF LostRows
<1> QED BY <1>6, <1>7

LEMMA LostFinite ==
  ASSUME AuditRows
  PROVE  IsFiniteSet(LostRows) /\ Cardinality(LostRows) \in Nat
<1>1. IsFiniteSet(DOMAIN audits)
  BY RowsAreNumbers, FS_Interval
<1> QED BY <1>1, FS_Subset, FS_CardinalityType DEF LostRows

LEMMA NoMoreLost ==
  ASSUME AuditRows, DeathsCounted, count' \in Counts, count'.deaths = count.deaths,
         LostRows' \subseteq LostRows
  PROVE  DeathsCounted'
<1>1. Cardinality(LostRows') <= Cardinality(LostRows) /\ Cardinality(LostRows') \in Nat
  BY LostFinite, FS_Subset, FS_CardinalityType
<1>2. Cardinality(LostRows) <= count'.deaths /\ count'.deaths \in Nat /\ Cardinality(LostRows) \in Nat
  BY LostFinite DEF DeathsCounted, Counts
<1> QED BY <1>1, <1>2 DEF DeathsCounted

\* Reminders move no audit.
LEMMA DatesStay ==
  ASSUME DatesInv, schedule' = schedule, DOMAIN audits' = DOMAIN audits,
         \A i \in DOMAIN audits : audits'[i].date = audits[i].date
  PROVE  DatesInv'
BY DEF DatesInv, RunsMoveForward, LastIsLatest, Exists
-----------------------------------------------------------------------------
(* Steps of a schedule. *)

LEMMA ScheduleInitInv == ScheduleInit => ScheduleInv
<1> SUFFICES ASSUME ScheduleInit PROVE ScheduleInv
  OBVIOUS
<1>1. audits = <<>> /\ DOMAIN audits = {}
  BY DEF ScheduleInit
<1>2. AuditRows
  BY <1>1 DEF AuditRows
<1>3. PICK p \in Payloads : schedule = Created(p)
  BY DEF ScheduleInit
<1>4. "last" \in DOMAIN schedule
  BY <1>3 DEF Created, Stored
<1>5. DatesInv
  BY <1>1, <1>4 DEF DatesInv, RunsMoveForward, LastIsLatest
<1>6. mailer \in Mailings /\ \A w \in Mailers : mailer[w] = Idle
  BY DEF ScheduleInit, Mailings
<1>7. \A w \in Mailers : ~Holds(w)
  BY <1>6 DEF Holds, Idle
<1>8. Held
  BY <1>6, <1>7 DEF Held
<1>9. count \in Counts /\ count.deaths = 0
  BY DEF ScheduleInit, Counts
<1>10. LostRows = {}
  BY <1>1 DEF LostRows
<1>11. DeathsCounted
  BY <1>9, <1>10, FS_EmptySet DEF DeathsCounted
<1> QED BY <1>2, <1>5, <1>8, <1>11 DEF ScheduleInv

\* What the steps that leave audits and reminders alone preserve.
LEMMA RemindersStay ==
  ASSUME ScheduleInv, UNCHANGED <<audits, mailer>>, count' \in Counts, count'.deaths = count.deaths
  PROVE  AuditRows' /\ Held' /\ DeathsCounted'
<1>1. AuditRows'
  BY DEF ScheduleInv, AuditRows
<1>2. Held'
  BY DEF ScheduleInv, Held, Holds, NextRow
<1>3. LostRows' = LostRows
  BY DEF LostRows, Holds, NextRow
<1> QED BY <1>1, <1>2, <1>3, NoMoreLost DEF ScheduleInv

LEMMA EditInv ==
  ASSUME ScheduleInv, NEW p, NEW fields, Edit(p, fields)
  PROVE  ScheduleInv'
<1>1. UNCHANGED <<audits, mailer>> /\ Exists
  BY DEF Edit
<1>2. count' = [count EXCEPT !.edits = @ + 1] /\ count \in Counts
  BY DEF Edit, ScheduleInv, DeathsCounted
<1>3. count' \in Counts /\ count'.deaths = count.deaths
  BY <1>2 DEF Counts
<1>4. "last" \in DOMAIN schedule' /\ schedule'.last = schedule.last
  BY DEF Edit, Stored
<1>5. DatesInv'
  BY <1>1, <1>4 DEF ScheduleInv, DatesInv, RunsMoveForward, LastIsLatest
<1> QED BY <1>1, <1>3, <1>5, RemindersStay DEF ScheduleInv

LEMMA DeleteInv ==
  ASSUME ScheduleInv, Delete
  PROVE  ScheduleInv'
<1>1. UNCHANGED <<audits, mailer>> /\ schedule' = NoRow
  BY DEF Delete
<1>2. count' = [count EXCEPT !.edits = @ + 1] /\ count \in Counts
  BY DEF Delete, ScheduleInv, DeathsCounted
<1>3. count' \in Counts /\ count'.deaths = count.deaths
  BY <1>2 DEF Counts
<1>4. DatesInv'
  BY <1>1 DEF ScheduleInv, DatesInv, RunsMoveForward, LastIsLatest, Exists
<1> QED BY <1>1, <1>3, <1>4, RemindersStay DEF ScheduleInv

LEMMA RestInv ==
  ASSUME ScheduleInv, UNCHANGED <<schedule, audits, mailer>>,
         count' \in Counts, count'.deaths = count.deaths
  PROVE  ScheduleInv'
<1>1. DatesInv'
  BY DatesStay DEF ScheduleInv
<1> QED BY <1>1, RemindersStay DEF ScheduleInv

\* An audit is created only for a date after the last one.
LEMMA MaterialiseInv ==
  ASSUME ScheduleInv, NEW t, Materialise(t)
  PROVE  ScheduleInv'
<1>1. mailer' = mailer /\ count' = count /\ count \in Counts
  BY DEF Materialise, ScheduleInv, DeathsCounted
<1>2. CASE UNCHANGED <<schedule, audits>>
  BY <1>1, <1>2, RestInv
<1>3. CASE audits' = audits /\ Exists /\ \E d : schedule' = [schedule EXCEPT !.next = d]
  <2>1. "last" \in DOMAIN schedule' /\ schedule'.last = schedule.last
    BY <1>3 DEF ScheduleInv, DatesInv, LastIsLatest
  <2>2. DatesInv'
    BY <1>3, <2>1 DEF ScheduleInv, DatesInv, RunsMoveForward, LastIsLatest
  <2> QED BY <1>1, <1>3, <2>2, RemindersStay DEF ScheduleInv
<1>4. CASE /\ Due /\ InWindow(RunDate) /\ ~AlreadyRun(RunDate)
           /\ schedule' = [schedule EXCEPT !.last = RunDate,
                                           !.next = NextOccurrence(schedule, RunDate)]
           /\ audits' = Append(audits, [date |-> RunDate, claimed |-> FALSE, sent |-> 0, failed |-> 0])
  <2> DEFINE row == [date |-> RunDate, claimed |-> FALSE, sent |-> 0, failed |-> 0]
             n == Len(audits) + 1
  <2>1. RunDate \in Int /\ row \in AuditRow
    BY <1>4 DEF InWindow, AuditRow
  <2>2. Exists /\ "last" \in DOMAIN schedule
    BY <1>4 DEF Due, ScheduleInv, DatesInv, LastIsLatest
  <2>3. \A i \in DOMAIN audits : audits[i].date \in Int /\ audits[i].date < RunDate
    <3> SUFFICES ASSUME NEW i \in DOMAIN audits
                 PROVE  audits[i].date \in Int /\ audits[i].date < RunDate
      OBVIOUS
    <3>1. schedule.last \in Int /\ audits[i].date <= schedule.last
      BY <2>2 DEF ScheduleInv, DatesInv, LastIsLatest
    <3>2. ~(schedule.last >= RunDate)
      BY <1>4, <3>1, CalendarAssumption DEF AlreadyRun
    <3>3. audits[i].date \in Int
      BY RowsAreNumbers DEF ScheduleInv, AuditRow
    <3> QED BY <2>1, <3>1, <3>2, <3>3
  <2>4. audits \in Seq(AuditRow) /\ audits' = Append(audits, row)
    BY <1>4 DEF ScheduleInv, AuditRows
  <2> HIDE DEF row
  <2>5. /\ audits' \in Seq(AuditRow) /\ DOMAIN audits' = 1..n /\ DOMAIN audits = 1..n - 1
        /\ n \in Nat \ {0} /\ audits'[n] = row /\ \A i \in DOMAIN audits : audits'[i] = audits[i]
    BY <2>1, <2>4
  <2> HIDE DEF n
  <2>6. DOMAIN audits' = DOMAIN audits \cup {n} /\ n \notin DOMAIN audits
    BY <2>5
  <2>7. row.date = RunDate /\ row.claimed = FALSE /\ row.sent = 0 /\ Settled(row)
    BY DEF row, Settled, Owed
  <2>8. AuditRows'
    BY <2>5, <2>6, <2>7 DEF ScheduleInv, AuditRows
  <2>9. RunsMoveForward'
    <3> SUFFICES ASSUME NEW i \in DOMAIN audits', NEW k \in DOMAIN audits', i < k
                 PROVE  audits'[i].date < audits'[k].date
      BY DEF RunsMoveForward
    <3>1. i \in DOMAIN audits
      BY <2>5
    <3>2. CASE k = n
      BY <2>3, <2>5, <2>7, <3>1, <3>2
    <3>3. CASE k # n
      BY <2>5, <2>6, <3>1, <3>3 DEF ScheduleInv, DatesInv, RunsMoveForward
    <3> QED BY <3>2, <3>3
  <2>10. schedule'.last = RunDate /\ "last" \in DOMAIN schedule'
    BY <1>4, <2>2
  <2>11. \A i \in DOMAIN audits' : audits'[i].date <= RunDate
    BY <2>1, <2>3, <2>5, <2>6, <2>7
  <2>12. LastIsLatest'
    BY <2>1, <2>10, <2>11 DEF LastIsLatest
  <2>13. Held'
    <3>1. \A w \in Mailers : (Holds(w)' <=> Holds(w)) /\ NextRow(w)' = NextRow(w)
      BY <1>1 DEF Holds, NextRow
    <3>2. \A w \in Mailers : Holds(w) => NextRow(w) \in DOMAIN audits
      BY NextRowIsRow, HoldersWork DEF Holds, ScheduleInv
    <3>3. \A w \in Mailers : mailer'[w] # Idle => mailer'[w].rows \subseteq DOMAIN audits'
      BY <1>1, <2>6 DEF ScheduleInv, Held
    <3>4. \A w \in Mailers :
            Holds(w)' => audits'[NextRow(w)'].claimed /\ Owed(audits'[NextRow(w)'])
      BY <2>5, <3>1, <3>2 DEF ScheduleInv, Held
    <3>5. \A v, w \in Mailers : Holds(v)' /\ Holds(w)' /\ NextRow(v)' = NextRow(w)' => v = w
      BY <3>1 DEF ScheduleInv, Held
    <3>6. mailer' \in Mailings
      BY <1>1 DEF ScheduleInv, Held
    <3> QED BY <3>3, <3>4, <3>5, <3>6 DEF Held
  <2>14. LostRows' \subseteq LostRows
    BY <1>1, <2>5, <2>6, <2>7 DEF LostRows, Holds, NextRow
  <2>15. DeathsCounted'
    BY <1>1, <2>14, NoMoreLost DEF ScheduleInv
  <2> QED BY <2>8, <2>9, <2>12, <2>13, <2>15 DEF ScheduleInv, DatesInv
<1>5. Due => Exists
  BY DEF Due
<1> QED BY <1>2, <1>3, <1>4, <1>5 DEF Materialise

LEMMA ReadRowsInv ==
  ASSUME ScheduleInv, NEW w \in Mailers, ReadRows(w)
  PROVE  ScheduleInv'
<1> DEFINE rows == {i \in DOMAIN audits :
                      ~audits[i].claimed /\ audits[i].date \in today..today + ReminderDays}
<1>1. /\ mailer[w] = Idle /\ mailer' = [mailer EXCEPT ![w] = [pc |-> "rows", rows |-> rows]]
      /\ rows # {} /\ UNCHANGED <<schedule, audits, count>>
  BY DEF ReadRows
<1>2. rows \subseteq DOMAIN audits /\ rows \in SUBSET Nat
  BY RowsAreNumbers DEF ScheduleInv
<1> HIDE DEF rows
<1>3. [pc |-> "rows", rows |-> rows] \in Mailing
  BY <1>1, <1>2 DEF Mailing
<1>4. mailer \in Mailings
  BY DEF ScheduleInv, Held
<1>5. /\ mailer' \in Mailings /\ mailer'[w] = [pc |-> "rows", rows |-> rows]
      /\ \A v \in Mailers \ {w} : mailer'[v] = mailer[v]
  BY <1>1, <1>3, <1>4 DEF Mailings
<1>6. ~Holds(w)' /\ ~Holds(w)
  BY <1>1, <1>5 DEF Holds, Idle
<1>7. Held' /\ LostRows' \subseteq LostRows
  BY <1>1, <1>2, <1>5, <1>6, TaskStep DEF ScheduleInv
<1>8. DeathsCounted'
  BY <1>1, <1>7, NoMoreLost DEF ScheduleInv, DeathsCounted
<1>9. AuditRows' /\ DatesInv'
  BY <1>1, DatesStay DEF ScheduleInv, AuditRows
<1> QED BY <1>7, <1>8, <1>9 DEF ScheduleInv

\* A task that has a row in hand goes on to the others.
LEMMA TaskRow ==
  ASSUME ScheduleInv, NEW w \in Mailers, mailer[w].pc \in {"rows", "mail", "release"}
  PROVE  /\ mailer[w] # Idle /\ mailer[w].rows # {}
         /\ mailer[w].rows \in SUBSET DOMAIN audits
         /\ mailer[w].rows \ {NextRow(w)} \in SUBSET DOMAIN audits
         /\ NextRow(w) \in DOMAIN audits
<1>1. mailer[w] # Idle
  BY DEF Idle
<1>2. mailer[w] \in Mailing /\ mailer[w].rows \subseteq DOMAIN audits /\ NextRow(w) \in DOMAIN audits
  BY <1>1, NextRowIsRow DEF ScheduleInv
<1> QED BY <1>1, <1>2 DEF Mailing

\* An audit whose reminder changes, and nothing else of it.
LEMMA RowChanges ==
  ASSUME AuditRows, NEW i \in DOMAIN audits, NEW row \in AuditRow,
         audits' = [audits EXCEPT ![i] = row],
         row.date = audits[i].date, Settled(row)
  PROVE  /\ AuditRows' /\ DOMAIN audits' = DOMAIN audits /\ audits'[i] = row
         /\ \A k \in DOMAIN audits \ {i} : audits'[k] = audits[k]
         /\ \A k \in DOMAIN audits : audits'[k].date = audits[k].date
<1>1. audits \in Seq(AuditRow)
  BY DEF AuditRows
<1>2. /\ audits' \in Seq(AuditRow) /\ DOMAIN audits' = DOMAIN audits /\ audits'[i] = row
      /\ \A k \in DOMAIN audits \ {i} : audits'[k] = audits[k]
  BY <1>1
<1> QED BY <1>2 DEF AuditRows

\* Claiming: the row was nobody's, for the row of a holder is claimed.
LEMMA ClaimInv ==
  ASSUME ScheduleInv, NEW w \in Mailers, ClaimReminder(w)
  PROVE  ScheduleInv'
<1> DEFINE i == NextRow(w)
<1>1. mailer[w].pc = "rows" /\ UNCHANGED <<schedule, count>>
  BY DEF ClaimReminder
<1>2. /\ mailer[w] # Idle /\ mailer[w].rows # {} /\ mailer[w].rows \in SUBSET DOMAIN audits
      /\ mailer[w].rows \ {i} \in SUBSET DOMAIN audits /\ i \in DOMAIN audits
  BY <1>1, TaskRow
<1>3. ~Holds(w)
  BY <1>1 DEF Holds
<1>4. AuditRows /\ DatesInv /\ Held /\ DeathsCounted /\ mailer \in Mailings
  BY DEF ScheduleInv, Held
<1>5. count' \in Counts /\ count'.deaths = count.deaths
  BY <1>1, <1>4 DEF DeathsCounted
<1>6. CASE Claimable(i)
  <2>1. audits' = [k \in DOMAIN audits |->
                     IF k \in {i} THEN [audits[k] EXCEPT !.claimed = TRUE] ELSE audits[k]]
    BY <1>6 DEF ClaimReminder, Taken
  <2>2. Go(w, "mail", mailer[w].rows)
    BY <1>6 DEF ClaimReminder
  <2> DEFINE row == [audits[i] EXCEPT !.claimed = TRUE]
  <2>3. /\ row \in AuditRow /\ row.date = audits[i].date /\ row.claimed = TRUE
        /\ row.sent = audits[i].sent /\ row.failed = audits[i].failed
    BY <1>2, <1>4, RowsAreNumbers DEF AuditRow
  <2>4. audits' = [audits EXCEPT ![i] = row]
    BY <2>1, <1>2
  <2> HIDE DEF row
  <2>4a. Settled(row) /\ Owed(row)
    BY <1>2, <1>4, <1>6, <2>3 DEF Claimable, AuditRows, Settled, Owed
  <2>5. /\ AuditRows' /\ DOMAIN audits' = DOMAIN audits /\ audits'[i] = row
        /\ \A k \in DOMAIN audits \ {i} : audits'[k] = audits[k]
        /\ \A k \in DOMAIN audits : audits'[k].date = audits[k].date
    BY <1>2, <1>4, <2>3, <2>4, <2>4a, RowChanges
  <2>6. /\ mailer' \in Mailings
        /\ \A v \in Mailers \ {w} : mailer'[v] = mailer[v]
        /\ mailer'[w] # Idle => mailer'[w].rows \subseteq DOMAIN audits
        /\ mailer'[w] = [pc |-> "mail", rows |-> mailer[w].rows]
    BY <1>2, <1>4, <2>2, GoRows
  <2>7. \A v \in Mailers \ {w} : Holds(v) => NextRow(v) # i
    BY <1>4, <1>6 DEF Held, Claimable
  <2>9. Holds(w)' /\ NextRow(w)' = i
    BY <2>6 DEF Holds, NextRow
  <2> HIDE DEF i
  <2>10. Held' /\ LostRows' \subseteq LostRows \cup {i}
    BY <1>2, <1>3, <1>4, <2>3, <2>4a, <2>5, <2>6, <2>7, <2>9, RowStep
  <2>11. i \notin LostRows'
    BY <2>9 DEF LostRows
  <2>12. DeathsCounted'
    BY <1>4, <1>5, <2>10, <2>11, NoMoreLost
  <2>13. DatesInv'
    BY <1>1, <1>4, <2>5, DatesStay
  <2> QED BY <2>5, <2>10, <2>12, <2>13 DEF ScheduleInv
<1>7. CASE ~Claimable(i)
  <2>1. audits' = audits /\ Go(w, "rows", mailer[w].rows \ {i})
    BY <1>7 DEF ClaimReminder
  <2>2. /\ mailer' \in Mailings
        /\ \A v \in Mailers \ {w} : mailer'[v] = mailer[v]
        /\ mailer'[w] # Idle => mailer'[w].rows \subseteq DOMAIN audits
        /\ ~Holds(w)'
    BY <1>2, <1>4, <2>1, GoRows
  <2>3. Held' /\ LostRows' \subseteq LostRows
    BY <1>3, <1>4, <2>1, <2>2, TaskStep
  <2>4. DeathsCounted'
    BY <1>4, <1>5, <2>3, NoMoreLost
  <2>5. AuditRows' /\ DatesInv'
    BY <1>1, <1>4, <2>1, DatesStay DEF AuditRows
  <2> QED BY <2>3, <2>4, <2>5 DEF ScheduleInv
<1> QED BY <1>6, <1>7

\* The mail goes out, or the claim is taken back: the row was this task's.
LEMMA LetGo ==
  ASSUME ScheduleInv, NEW w \in Mailers, mailer[w].pc \in {"mail", "release"},
         UNCHANGED <<schedule, count>>, Go(w, "rows", mailer[w].rows \ {NextRow(w)}),
         NEW row \in AuditRow, audits' = [audits EXCEPT ![NextRow(w)] = row],
         row.date = audits[NextRow(w)].date, Settled(row),
         row.sent # 0 \/ ~row.claimed
  PROVE  ScheduleInv'
<1> DEFINE i == NextRow(w)
<1>1. i \in DOMAIN audits /\ mailer[w].rows \ {i} \in SUBSET DOMAIN audits
  BY TaskRow
<1>2. Holds(w)
  BY DEF Holds
<1>3. AuditRows /\ DatesInv /\ Held /\ DeathsCounted /\ mailer \in Mailings
  BY DEF ScheduleInv, Held
<1>4. count' \in Counts /\ count'.deaths = count.deaths
  BY <1>3 DEF DeathsCounted
<1>5. /\ AuditRows' /\ DOMAIN audits' = DOMAIN audits /\ audits'[i] = row
      /\ \A k \in DOMAIN audits \ {i} : audits'[k] = audits[k]
      /\ \A k \in DOMAIN audits : audits'[k].date = audits[k].date
  BY <1>1, <1>3, RowChanges
<1>6. /\ mailer' \in Mailings
      /\ \A v \in Mailers \ {w} : mailer'[v] = mailer[v]
      /\ mailer'[w] # Idle => mailer'[w].rows \subseteq DOMAIN audits
      /\ ~Holds(w)'
  BY <1>1, <1>3, GoRows
<1>7. \A v \in Mailers \ {w} : Holds(v) => NextRow(v) # i
  BY <1>2, <1>3 DEF Held
<1>8. Holds(w) => NextRow(w) = i
  OBVIOUS
<1> HIDE DEF i
<1>9. Held' /\ LostRows' \subseteq LostRows \cup {i}
  BY <1>1, <1>3, <1>5, <1>6, <1>7, <1>8, RowStep
<1>10. i \notin LostRows'
  <2>1. audits'[i].sent # 0 \/ ~audits'[i].claimed
    BY <1>5
  <2> QED BY <2>1 DEF LostRows
<1>11. DeathsCounted'
  BY <1>3, <1>4, <1>9, <1>10, NoMoreLost
<1>12. DatesInv'
  BY <1>3, <1>5, DatesStay
<1> QED BY <1>5, <1>9, <1>11, <1>12 DEF ScheduleInv

LEMMA SendInv ==
  ASSUME ScheduleInv, NEW w \in Mailers, Send(w)
  PROVE  ScheduleInv'
<1> DEFINE i == NextRow(w)
           row == [audits[i] EXCEPT !.sent = @ + 1]
<1>1. mailer[w].pc = "mail"
  BY DEF Send
<1>2. i \in DOMAIN audits
  BY <1>1, TaskRow
<1>3. audits[i] \in AuditRow
  BY <1>2, RowsAreNumbers DEF ScheduleInv
<1>4. audits[i].claimed /\ Owed(audits[i])
  BY <1>1 DEF ScheduleInv, Held, Holds
<1>5. /\ row \in AuditRow /\ row.date = audits[i].date /\ row.claimed
      /\ row.sent = audits[i].sent + 1 /\ row.failed = audits[i].failed
  BY <1>3, <1>4 DEF AuditRow
<1>6. audits' = [audits EXCEPT ![i] = row]
  BY DEF Send
<1>7. UNCHANGED <<schedule, count>> /\ Go(w, "rows", mailer[w].rows \ {i})
  BY DEF Send
<1>8. Settled(row) /\ row.sent # 0
  BY <1>3, <1>4, <1>5 DEF AuditRow, Settled, Owed
<1> HIDE DEF row
<1> QED BY <1>1, <1>5, <1>6, <1>7, <1>8, LetGo

LEMMA ReleaseInv ==
  ASSUME ScheduleInv, NEW w \in Mailers, Release(w)
  PROVE  ScheduleInv'
<1> DEFINE i == NextRow(w)
           row == [audits[i] EXCEPT !.claimed = FALSE]
<1>1. mailer[w].pc = "release"
  BY DEF Release
<1>2. i \in DOMAIN audits
  BY <1>1, TaskRow
<1>3. audits[i] \in AuditRow
  BY <1>2, RowsAreNumbers DEF ScheduleInv
<1>4. Owed(audits[i])
  BY <1>1 DEF ScheduleInv, Held, Holds
<1>5. /\ row \in AuditRow /\ row.date = audits[i].date /\ row.claimed = FALSE
      /\ row.sent = audits[i].sent /\ row.failed = audits[i].failed
  BY <1>3 DEF AuditRow
<1>6. audits' = [audits EXCEPT ![i] = row]
  BY DEF Release
<1>7. UNCHANGED <<schedule, count>> /\ Go(w, "rows", mailer[w].rows \ {i})
  BY DEF Release
<1> HIDE DEF row
<1>8. Settled(row)
  BY <1>3, <1>4, <1>5 DEF AuditRow, Settled, Owed
<1> QED BY <1>1, <1>8, <1>5, <1>6, <1>7, LetGo

\* A send that fails is counted, whether the attendee got the mail or not; the
\* row stays with its task, which takes the claim back.
LEMMA SendFailsInv ==
  ASSUME ScheduleInv, NEW w \in Mailers, SendFails(w)
  PROVE  ScheduleInv'
<1> DEFINE i == NextRow(w)
<1>1. mailer[w].pc = "mail" /\ schedule' = schedule /\ Go(w, "release", mailer[w].rows)
  BY DEF SendFails
<1>2. AuditRows /\ DatesInv /\ Held /\ DeathsCounted /\ mailer \in Mailings
  BY DEF ScheduleInv, Held
<1>3. mailer[w].rows # {} /\ mailer[w].rows \in SUBSET DOMAIN audits /\ i \in DOMAIN audits
  BY <1>1, TaskRow
<1>4. /\ mailer' \in Mailings
      /\ \A v \in Mailers \ {w} : mailer'[v] = mailer[v]
      /\ mailer'[w] # Idle => mailer'[w].rows \subseteq DOMAIN audits
      /\ mailer'[w] = [pc |-> "release", rows |-> mailer[w].rows]
  BY <1>1, <1>2, <1>3, GoRows
<1>5. Holds(w) /\ Holds(w)' /\ NextRow(w)' = i
  BY <1>1, <1>4 DEF Holds, NextRow
<1>6. PICK taken \in {0, 1} :
        audits' = [audits EXCEPT ![i] = Tried(@, taken)]
  BY DEF SendFails
<1> DEFINE row == Tried(audits[i], taken)
<1>7. audits' = [audits EXCEPT ![i] = row]
  BY <1>6
<1>8. audits[i] \in AuditRow /\ audits[i].claimed /\ Owed(audits[i])
  BY <1>2, <1>3, <1>5, RowsAreNumbers DEF Held
<1>9. /\ row \in AuditRow /\ row.date = audits[i].date /\ row.claimed
      /\ row.sent = audits[i].sent + taken /\ row.failed = audits[i].failed + 1
  <2>1. audits[i].sent \in Nat /\ audits[i].failed \in Nat /\ taken \in Nat
    BY <1>6, <1>8 DEF AuditRow
  <2>2. audits[i].sent + taken \in Nat /\ audits[i].failed + 1 \in Nat
    BY <2>1
  <2> DEFINE s == audits[i].sent + taken
             f == audits[i].failed + 1
  <2>3. row = [audits[i] EXCEPT !.sent = s, !.failed = f]
    BY DEF Tried
  <2>4. s \in Nat /\ f \in Nat
    BY <2>2
  <2> HIDE DEF s, f, row
  <2>5. /\ row \in AuditRow /\ row.date = audits[i].date /\ row.claimed
        /\ row.sent = s /\ row.failed = f
    BY <1>8, <2>3, <2>4 DEF AuditRow
  <2> QED BY <2>5 DEF s, f
<1>10. Settled(row) /\ Owed(row)
  BY <1>8, <1>9 DEF AuditRow, Settled, Owed
<1> HIDE DEF row
<1>11. /\ AuditRows' /\ DOMAIN audits' = DOMAIN audits /\ audits'[i] = row
       /\ \A k \in DOMAIN audits \ {i} : audits'[k] = audits[k]
       /\ \A k \in DOMAIN audits : audits'[k].date = audits[k].date
  BY <1>2, <1>3, <1>7, <1>9, <1>10, RowChanges
<1>12. \A v \in Mailers \ {w} : Holds(v) => NextRow(v) # i
  BY <1>2, <1>5 DEF Held
<1> HIDE DEF i
<1>13. Held' /\ LostRows' \subseteq LostRows \cup {i}
  BY <1>2, <1>3, <1>4, <1>5, <1>9, <1>10, <1>11, <1>12, RowStep DEF i
<1>14. i \notin LostRows'
  BY <1>5 DEF LostRows
<1>15. count' = [count EXCEPT !.failures = @ + 1] /\ count \in Counts
  BY <1>2 DEF SendFails, DeathsCounted
<1>16. count' \in Counts /\ count'.deaths = count.deaths
  BY <1>15 DEF Counts
<1>17. DeathsCounted'
  BY <1>2, <1>13, <1>14, <1>16, NoMoreLost
<1>18. DatesInv'
  BY <1>1, <1>2, <1>11, DatesStay
<1> QED BY <1>11, <1>13, <1>17, <1>18 DEF ScheduleInv

\* A task that dies leaves at most the row it holds.
LEMMA MailerDiesInv ==
  ASSUME ScheduleInv, NEW w \in Mailers, MailerDies(w)
  PROVE  ScheduleInv'
<1> DEFINE i == NextRow(w)
<1>1. UNCHANGED <<schedule, audits>> /\ mailer' = [mailer EXCEPT ![w] = Idle]
  BY DEF MailerDies
<1>2. AuditRows /\ DatesInv /\ Held /\ DeathsCounted /\ mailer \in Mailings
  BY DEF ScheduleInv, Held
<1>3. /\ mailer' \in Mailings /\ mailer'[w] = Idle
      /\ \A v \in Mailers \ {w} : mailer'[v] = mailer[v]
  BY <1>1, <1>2 DEF Mailings
<1>4. ~Holds(w)'
  BY <1>3 DEF Holds, Idle
<1>5. Held' /\ LostRows' \subseteq LostRows \cup {i}
  BY <1>1, <1>2, <1>3, <1>4, TaskStep
<1>6. count' = [count EXCEPT !.deaths = @ + 1] /\ count \in Counts
  BY <1>2 DEF MailerDies, DeathsCounted
<1>7. count' \in Counts /\ count'.deaths = count.deaths + 1
  BY <1>6 DEF Counts
<1> HIDE DEF i
<1>8. IsFiniteSet(LostRows) /\ Cardinality(LostRows) \in Nat
  BY <1>2, LostFinite
<1>9. /\ IsFiniteSet(LostRows \cup {i})
      /\ Cardinality(LostRows \cup {i}) <= Cardinality(LostRows) + 1
      /\ Cardinality(LostRows \cup {i}) \in Nat
  <2>1. CASE i \in LostRows
    <3>1. LostRows \cup {i} = LostRows
      BY <2>1
    <3> QED BY <1>8, <3>1
  <2>2. CASE i \notin LostRows
    BY <1>8, <2>2, FS_AddElement
  <2> QED BY <2>1, <2>2
<1>10. Cardinality(LostRows') <= Cardinality(LostRows \cup {i}) /\ Cardinality(LostRows') \in Nat
  BY <1>5, <1>9, FS_Subset, FS_CardinalityType
<1>11. Cardinality(LostRows) <= count.deaths /\ count.deaths \in Nat
  BY <1>2 DEF DeathsCounted, Counts
<1>12. Cardinality(LostRows') <= count'.deaths
  BY <1>7, <1>8, <1>9, <1>10, <1>11
<1>13. DeathsCounted'
  BY <1>7, <1>12 DEF DeathsCounted
<1>14. AuditRows' /\ DatesInv'
  BY <1>1, <1>2, DatesStay DEF AuditRows
<1> QED BY <1>5, <1>13, <1>14 DEF ScheduleInv

LEMMA ScheduleNextInv == ScheduleInv /\ [ScheduleNext]_scheduleVars => ScheduleInv'
<1> SUFFICES ASSUME ScheduleInv, [ScheduleNext]_scheduleVars PROVE ScheduleInv'
  OBVIOUS
<1>1. count \in Counts
  BY DEF ScheduleInv, DeathsCounted
<1>2. CASE \E p \in Payloads, fields \in Changes : Edit(p, fields)
  BY <1>2, EditInv
<1>3. CASE Delete
  BY <1>3, DeleteInv
<1>4. ASSUME NEW t \in Tasks, ReadDue(t) \/ Materialise(t) \/ TaskDies(t)
      PROVE  ScheduleInv'
  <2>1. CASE Materialise(t)
    BY <2>1, MaterialiseInv
  <2>2. CASE ReadDue(t) \/ TaskDies(t)
    <3>1. UNCHANGED <<schedule, audits, mailer, count>>
      BY <2>2 DEF ReadDue, TaskDies
    <3> QED BY <1>1, <3>1, RestInv
  <2> QED BY <1>4, <2>1, <2>2
<1>5. ASSUME NEW w \in Mailers,
             \/ ReadRows(w) \/ ClaimReminder(w) \/ Send(w)
             \/ SendFails(w) \/ Release(w) \/ MailerDies(w)
      PROVE  ScheduleInv'
  BY <1>5, ReadRowsInv, ClaimInv, SendInv, SendFailsInv, ReleaseInv, MailerDiesInv
<1>6. CASE NextDay \/ WorkerStarts \/ UNCHANGED scheduleVars
  <2>1. UNCHANGED <<schedule, audits, mailer, count>>
    BY <1>6 DEF NextDay, WorkerStarts, scheduleVars
  <2> QED BY <1>1, <2>1, RestInv
<1>7. CASE WorkerStops
  <2>1. UNCHANGED <<schedule, audits, mailer>> /\ count' = [count EXCEPT !.outages = @ + 1]
    BY <1>7 DEF WorkerStops
  <2>2. count' \in Counts /\ count'.deaths = count.deaths
    BY <1>1, <2>1 DEF Counts
  <2> QED BY <2>1, <2>2, RestInv
<1> QED BY <1>2, <1>3, <1>4, <1>5, <1>6, <1>7 DEF ScheduleNext

\* Audits, their dates and the reminders in hand, for every schedule.
THEOREM ScheduleInvariant == ScheduleSpec => []ScheduleInv
<1>1. ScheduleInit => ScheduleInv
  BY ScheduleInitInv
<1>2. ScheduleInv /\ [ScheduleNext]_scheduleVars => ScheduleInv'
  BY ScheduleNextInv
<1> QED BY <1>1, <1>2, PTL DEF ScheduleSpec

\* However the tasks that create audits overlap and whatever is edited
\* between their two reads, no two audits have the same run date.
THEOREM AuditsMoveForward == ScheduleSpec => []RunsMoveForward
<1>1. ScheduleInv => RunsMoveForward
  BY DEF ScheduleInv, DatesInv
<1> QED BY <1>1, ScheduleInvariant, PTL

\* An attendee gets a second reminder only for a send that failed, which the
\* mail server may have taken all the same, and goes without only by a task
\* that died.
THEOREM RemindersAreBounded == ScheduleSpec => []RemindersBounded
<1>1. ScheduleInv => RemindersBounded
  <2> SUFFICES ASSUME ScheduleInv PROVE RemindersBounded
    OBVIOUS
  <2>1. \A i \in DOMAIN audits : audits[i].sent <= 1 + audits[i].failed
    BY DEF ScheduleInv, AuditRows, Settled
  <2>2. LostRows =
          {i \in DOMAIN audits :
             /\ audits[i].claimed /\ audits[i].sent = 0
             /\ ~\E w \in Mailers : mailer[w].pc \in {"mail", "release"} /\ NextRow(w) = i}
    BY DEF LostRows, Holds
  <2>3. Cardinality(LostRows) <= count.deaths
    BY DEF ScheduleInv, DeathsCounted
  <2> QED BY <2>1, <2>2, <2>3 DEF RemindersBounded
<1> QED BY <1>1, ScheduleInvariant, PTL
-----------------------------------------------------------------------------
(* The plan of a schedule. *)

ScheduleRow ==
  [start : Days, recurrence : Recurrences, interval : 1..120, rule : DateRules,
   anchor : 1..12 \cup {NoDate}, until : Days \cup {NoDate},
   next : Days \cup {NoDate}, last : Days \cup {NoDate}]

DailyRow == [up : BOOLEAN, done : BOOLEAN, missed : BOOLEAN]

PlanTypes ==
  /\ today \in 0..LastDay /\ daily \in DailyRow
  /\ plan.since \in Nat /\ plan.base \in Days
  /\ Exists => schedule \in ScheduleRow /\ Regular(schedule)

PlanInv == PlanTypes /\ KeepsThePlan

\* No run is to come up to d.
Past(d) == schedule.next = NoDate \/ d < schedule.next

\* What the daily task leaves behind: after its run nothing is due today, a
\* day without an outage leaves nothing behind it, and the next run is after
\* the last one since the dates were entered.
OnTime ==
  Exists =>
    /\ daily.done /\ plan.since <= today => Past(today)
    /\ ~daily.missed /\ plan.since < today => Past(today - 1)
    /\ schedule.last # NoDate /\ plan.since <= schedule.last => Past(schedule.last)

HasAudit(d) == \E i \in DOMAIN audits : audits[i].date = d

\* Every run planned that is not to come has its audit.
AuditsMade ==
  Exists /\ ~daily.missed =>
    \A d \in Days :
      plan.since <= d /\ Past(d) /\ Planned(schedule, plan.base, d) => HasAudit(d)

RunsInv == OnTime /\ AuditsMade

\* The steps suffice for the days that pass.
StepsSuffice == LastDay < 7 * MaxSteps

SameEntry(s, t) ==
  /\ s.start = t.start /\ s.recurrence = t.recurrence /\ s.interval = t.interval
  /\ s.rule = t.rule /\ s.anchor = t.anchor /\ s.until = t.until

LEMMA SamePlan ==
  ASSUME NEW s, NEW t, SameEntry(s, t)
  PROVE  /\ Regular(s) <=> Regular(t)
         /\ \A base, d : Planned(s, base, d) <=> Planned(t, base, d)
<1>1. /\ s.start = t.start /\ s.recurrence = t.recurrence /\ s.interval = t.interval
      /\ s.rule = t.rule /\ s.anchor = t.anchor /\ s.until = t.until
  BY DEF SameEntry
<1>2. Regular(s) <=> Regular(t)
  BY <1>1 DEF Regular
<1>3. \A d : Fits(s, d) <=> Fits(t, d)
  BY <1>1 DEF Fits
<1>4. \A m, d : Keeps(s, m, d) <=> Keeps(t, m, d)
  BY <1>1, <1>3 DEF Keeps
<1>5. \A m, k : PlannedMonth(s, m, k) = PlannedMonth(t, m, k)
  BY <1>1 DEF PlannedMonth
<1>6. \A base, d : InPlan(s, base, d) <=> InPlan(t, base, d)
  BY <1>1, <1>3, <1>4, <1>5 DEF InPlan
<1> QED BY <1>1, <1>2, <1>6 DEF Planned

\* The dates of a plan depend on the start of exact schedules only, on the
\* month of the others, and not on the until date.
SameDates(s, t) ==
  /\ s.recurrence = t.recurrence /\ s.interval = t.interval /\ s.rule = t.rule
  /\ IF s.rule = "exact" THEN s.start = t.start ELSE s.anchor = t.anchor

LEMMA SamePlanDates ==
  ASSUME NEW s, NEW t, SameDates(s, t)
  PROVE  \A base, d : InPlan(s, base, d) <=> InPlan(t, base, d)
<1>1. /\ s.recurrence = t.recurrence /\ s.interval = t.interval /\ s.rule = t.rule
      /\ s.rule = "exact" => s.start = t.start
      /\ s.rule # "exact" => s.anchor = t.anchor
  BY DEF SameDates
<1>2. \A d : Fits(s, d) <=> Fits(t, d)
  BY <1>1 DEF Fits
<1>3. \A m, d : Keeps(s, m, d) <=> Keeps(t, m, d)
  <2>1. CASE s.rule = "exact"
    BY <1>1, <1>2, <2>1 DEF Keeps
  <2>2. CASE s.rule # "exact"
    BY <1>1, <1>2, <2>2 DEF Keeps
  <2> QED BY <2>1, <2>2
<1>4. \A m, k : PlannedMonth(s, m, k) = PlannedMonth(t, m, k)
  <2>1. CASE s.rule = "exact"
    BY <1>1, <2>1 DEF PlannedMonth
  <2>2. CASE s.rule # "exact"
    BY <1>1, <2>2 DEF PlannedMonth
  <2> QED BY <2>1, <2>2
<1> QED BY <1>1, <1>2, <1>3, <1>4 DEF InPlan

LEMMA Settings ==
  /\ DaysAhead \in Nat /\ MaxSteps \in Nat /\ LastDay \in Nat /\ Payloads \subseteq Entries
  /\ NoDate \notin Int /\ \A d \in Days : d \in Nat /\ d # NoDate
BY SettingsAssumption, CalendarAssumption DEF Days

LEMMA StartIsADate ==
  ASSUME NEW start \in Days, NEW rule \in DateRules, NEW anchor, rule # "exact" => anchor \in 1..12
  PROVE  ScheduleStartForRule(start, rule, anchor) \in Days
<1>1. CASE rule = "exact"
  BY <1>1 DEF ScheduleStartForRule
<1>2. CASE rule # "exact"
  <2> DEFINE m == YearOf(MonthOf(start)) * 12 + anchor
             s == [rule |-> rule]
  <2>1. MonthOf(start) \in Months
    BY MonthOfDay
  <2>2. m \in Months
    BY <1>2, <2>1 DEF YearOf, Months
  <2>3. s.rule \in DateRules \ {"exact"} /\ s.rule = rule
    BY <1>2
  <2> HIDE DEF m, s
  <2>4. FirstMatchingWeekday(m, s.rule) \in DaysOf(m)
    BY <2>2, <2>3, FirstKeeps
  <2>5. FirstMatchingWeekday(m, rule) \in Days
    BY <2>2, <2>3, <2>4, DayInMonth
  <2> QED BY <1>2, <2>5 DEF ScheduleStartForRule, m
<1> QED BY <1>1, <1>2

\* A row that is stored is a row, and regular.
LEMMA StoredIsRegular ==
  ASSUME NEW p, NEW start \in Days, NEW next \in Days, NEW last \in Days \cup {NoDate},
         p.recurrence \in Recurrences, p.interval \in 1..120, p.rule \in DateRules,
         p.rule # "exact" => p.anchor \in 1..12, p.until \in Days \cup {NoDate},
         Accepted(p, next)
  PROVE  LET s == Stored(start, p, next, last)
         IN  /\ s \in ScheduleRow /\ Regular(s) /\ s.next = next /\ s.last = last
             /\ Planned(s, next, next)
<1> DEFINE s == Stored(start, p, next, last)
<1>1. /\ s.start = start /\ s.recurrence = p.recurrence /\ s.interval = p.interval
      /\ s.rule = p.rule /\ s.until = p.until /\ s.next = next /\ s.last = last
      /\ p.rule = "exact" => s.anchor = NoDate
      /\ p.rule # "exact" => s.anchor = p.anchor
  BY DEF Stored
<1>2. (IF p.rule = "exact" THEN NoDate ELSE p.anchor) \in 1..12 \cup {NoDate}
  OBVIOUS
<1>3. s \in ScheduleRow
  BY <1>2 DEF Stored, ScheduleRow
<1>4. p.rule # "exact" => p.recurrence # "weekly"
  BY DEF Accepted
<1> HIDE DEF s
<1>5. Regular(s)
  BY <1>1, <1>4 DEF Regular
<1>6. InPlan(s, next, next) /\ ~Before(s.until, next)
  BY <1>1 DEF InPlan, Accepted
<1> QED BY <1>1, <1>3, <1>5, <1>6 DEF Planned, s

LEMMA PlanInit ==
  ASSUME ScheduleInit
  PROVE  PlanInv /\ RunsInv
<1>1. PICK p \in Payloads : schedule = Created(p) /\ Accepted(p, Created(p).start)
  BY DEF ScheduleInit
<1> DEFINE start == ScheduleStartForRule(p.start, p.rule, p.anchor)
<1>2. /\ p.start \in Days /\ p.recurrence \in Recurrences /\ p.interval \in 1..120
      /\ p.rule \in DateRules /\ p.anchor \in 1..12 /\ p.until \in Days \cup {NoDate}
  BY Settings DEF Entries
<1>3. start \in Days
  BY <1>2, StartIsADate
<1>4. schedule = Stored(start, p, start, NoDate) /\ schedule.start = start
  BY <1>1 DEF Created, Stored
<1>5. Accepted(p, start)
  BY <1>1, <1>4
<1> HIDE DEF start
<1>6. /\ schedule \in ScheduleRow /\ Regular(schedule) /\ schedule.next = start
      /\ schedule.last = NoDate /\ Planned(schedule, start, start)
  BY <1>2, <1>3, <1>4, <1>5, StoredIsRegular
<1>7. /\ today = 0 /\ daily = [up |-> TRUE, done |-> FALSE, missed |-> FALSE]
      /\ plan = [since |-> 0, base |-> schedule.start] /\ audits = <<>>
  BY DEF ScheduleInit
<1>8. plan.since = 0 /\ plan.base = start /\ ~daily.done /\ daily \in DailyRow
  BY <1>4, <1>7 DEF DailyRow
<1>9. PlanTypes
  BY <1>3, <1>6, <1>7, <1>8, Settings DEF PlanTypes
<1>10. KeepsThePlan
  BY <1>6, <1>8 DEF KeepsThePlan
<1>11. OnTime
  BY <1>6, <1>7, <1>8 DEF OnTime
<1>12. \A d : Planned(schedule, start, d) => d = start \/ d > start
  BY DEF Planned, InPlan
<1>13. AuditsMade
  BY <1>3, <1>6, <1>8, <1>12, Settings DEF AuditsMade, Past
<1> QED BY <1>9, <1>10, <1>11, <1>13 DEF PlanInv, RunsInv

\* An edit that enters dates or a recurrence starts a plan; runs already due,
\* or before the last audit, are not part of it.  Any other goes on with the
\* plan it finds, up to the until date it sets.
LEMMA EditPlan ==
  ASSUME PlanInv, NEW p \in Payloads, NEW fields, Edit(p, fields)
  PROVE  PlanInv' /\ (RunsInv => RunsInv')
<1> DEFINE merged == Merged(p, fields)
           start == ScheduleStartForRule(IF "start" \in fields THEN p.start ELSE schedule.start,
                                         merged.rule, merged.anchor)
           next == RevisedNext(fields, start)
<1>1. /\ Exists /\ Accepted(merged, next) /\ UNCHANGED <<today, audits>>
      /\ schedule' = Stored(start, merged, next, schedule.last)
      /\ plan' = Promised(fields, start)
      /\ daily' = IF NewPlan(fields) THEN [daily EXCEPT !.missed = FALSE] ELSE daily
  BY DEF Edit
<1>2. /\ p.start \in Days /\ p.recurrence \in Recurrences /\ p.interval \in 1..120
      /\ p.rule \in DateRules /\ p.anchor \in 1..12 /\ p.until \in Days \cup {NoDate}
  BY Settings DEF Entries
<1>3. schedule \in ScheduleRow /\ Regular(schedule) /\ today \in Nat /\ daily \in DailyRow
  BY <1>1, Settings DEF PlanInv, PlanTypes
<1>4. /\ schedule.start \in Days /\ schedule.recurrence \in Recurrences
      /\ schedule.interval \in 1..120 /\ schedule.rule \in DateRules
      /\ schedule.until \in Days \cup {NoDate}
      /\ schedule.next \in Days \cup {NoDate} /\ schedule.last \in Days \cup {NoDate}
  BY <1>3 DEF ScheduleRow
<1>5. schedule.rule # "exact" => schedule.anchor \in 1..12
  BY <1>3 DEF Regular
<1>6. /\ merged.recurrence \in Recurrences /\ merged.interval \in 1..120
      /\ merged.rule \in DateRules /\ merged.until \in Days \cup {NoDate}
  BY <1>2, <1>4 DEF Merged
<1>7. merged.rule # "exact" => merged.anchor \in 1..12
  BY <1>2, <1>5 DEF Merged
<1>8. ~NewPlan(fields) =>
        /\ merged.recurrence = schedule.recurrence /\ merged.interval = schedule.interval
        /\ merged.rule = schedule.rule /\ merged.anchor = schedule.anchor
        /\ schedule.rule = "exact" => start = schedule.start
  BY DEF NewPlan, NewDates, Merged, ScheduleStartForRule
<1> HIDE DEF merged
<1>9. start \in Days
  BY <1>2, <1>4, <1>6, <1>7, StartIsADate
<1> HIDE DEF start
<1>10. next \in Days /\ (NewDates(fields) => next = start) /\ (~NewDates(fields) => next = schedule.next)
  BY <1>4, <1>9 DEF RevisedNext, NewDates
<1> HIDE DEF next
<1>11. /\ schedule' \in ScheduleRow /\ Regular(schedule') /\ schedule'.next = next
       /\ schedule'.last = schedule.last /\ Planned(schedule', next, next)
  BY <1>1, <1>4, <1>6, <1>7, <1>9, <1>10, StoredIsRegular
<1>12. daily' \in DailyRow
  BY <1>1, <1>3 DEF DailyRow
<1>13. today' \in 0..LastDay
  BY <1>1 DEF PlanInv, PlanTypes
<1>14. CASE NewPlan(fields)
  <2>1. plan'.base = next /\ plan'.since = Later(schedule.last, today) + 1
    BY <1>1, <1>10, <1>14 DEF Promised
  <2>2. /\ plan'.since \in Nat /\ plan'.since > today
        /\ schedule.last # NoDate => plan'.since > schedule.last
    BY <1>3, <1>4, <2>1, Settings DEF Later
  <2>3. PlanTypes'
    BY <1>10, <1>11, <1>12, <1>13, <2>1, <2>2 DEF PlanTypes
  <2>4. KeepsThePlan'
    BY <1>11, <2>1 DEF KeepsThePlan
  <2>5. today' = today /\ ~(plan'.since <= today)
        /\ (schedule.last # NoDate => ~(plan'.since <= schedule.last))
    BY <1>1, <1>3, <1>4, <2>2, Settings
  <2>6. OnTime'
    BY <1>3, <1>11, <2>2, <2>5 DEF OnTime
  <2>7. \A d : Planned(schedule', next, d) => d = next \/ d > next
    BY DEF Planned, InPlan
  <2>8. AuditsMade'
    BY <1>10, <1>11, <2>1, <2>7, Settings DEF AuditsMade, Past
  <2> QED BY <2>3, <2>4, <2>6, <2>8 DEF PlanInv, RunsInv
<1>15. CASE ~NewPlan(fields)
  <2>1. plan' = plan /\ daily' = daily /\ next = schedule.next /\ schedule.next \in Days
    BY <1>1, <1>10, <1>15 DEF Promised, NewPlan
  <2>2. /\ schedule'.recurrence = merged.recurrence /\ schedule'.interval = merged.interval
        /\ schedule'.rule = merged.rule /\ schedule'.start = start
        /\ merged.rule # "exact" => schedule'.anchor = merged.anchor
    BY <1>1 DEF Stored
  <2>3. SameDates(schedule', schedule)
    BY <1>8, <1>15, <2>2 DEF SameDates
  <2>4. \A d : InPlan(schedule', plan.base, d) <=> InPlan(schedule, plan.base, d)
    BY <2>3, SamePlanDates
  <2>5. PlanTypes'
    BY <1>11, <1>12, <1>13, <2>1 DEF PlanInv, PlanTypes
  <2>6. Planned(schedule, plan.base, schedule.next) /\ schedule.next # NoDate
    BY <1>1, <2>1, Settings DEF PlanInv, KeepsThePlan
  <2>7. KeepsThePlan'
    BY <1>11, <2>1, <2>4, <2>6 DEF KeepsThePlan, Planned
  <2>8. Exists' /\ \A d : Past(d)' = Past(d)
    BY <1>3, <1>11, <2>1 DEF Past, Exists, NoRow, ScheduleRow
  <2>9. RunsInv => OnTime'
    BY <1>1, <1>11, <2>1, <2>8 DEF RunsInv, OnTime, Past
  <2>10. \A d \in Days : Past(d) /\ Planned(schedule', plan.base, d)
                          => Planned(schedule, plan.base, d)
    BY <1>4, <2>1, <2>4, <2>6, Settings DEF Past, Planned, Before
  <2>11. RunsInv => AuditsMade'
    BY <1>1, <2>1, <2>8, <2>10 DEF RunsInv, AuditsMade, Past, HasAudit
  <2> QED BY <2>5, <2>7, <2>9, <2>11 DEF PlanInv, RunsInv
<1> QED BY <1>14, <1>15

LEMMA DeletePlan ==
  ASSUME PlanInv, Delete
  PROVE  PlanInv' /\ RunsInv'
<1>1. ~Exists' /\ UNCHANGED <<today, daily, plan>>
  BY DEF Delete, Exists
<1> QED BY <1>1 DEF PlanInv, PlanTypes, KeepsThePlan, RunsInv, OnTime, AuditsMade

\* Steps that leave the schedule, its plan and the dates of the audits alone.
LEMMA PlanStays ==
  ASSUME PlanInv, UNCHANGED <<schedule, plan, today>>, daily' \in DailyRow
  PROVE  PlanInv'
BY DEF PlanInv, PlanTypes, KeepsThePlan, Exists

LEMMA RunsStay ==
  ASSUME RunsInv, UNCHANGED <<schedule, plan, today>>,
         daily'.missed = daily.missed, daily'.done = daily.done,
         \A d : HasAudit(d) => HasAudit(d)'
  PROVE  RunsInv'
<1>1. Exists' = Exists /\ \A d : Past(d)' = Past(d)
  BY DEF Exists, Past
<1>2. OnTime'
  BY <1>1 DEF RunsInv, OnTime, Past
<1>3. AuditsMade'
  BY <1>1 DEF RunsInv, AuditsMade, Past
<1> QED BY <1>2, <1>3 DEF RunsInv

\* A task that finds nothing due has run the daily task.
LEMMA NothingDue ==
  ASSUME PlanInv, ~Due, UNCHANGED <<schedule, audits, plan, today>>,
         daily' = [daily EXCEPT !.done = TRUE]
  PROVE  PlanInv' /\ (RunsInv => RunsInv')
<1>1. daily \in DailyRow /\ today \in Nat
  BY Settings DEF PlanInv, PlanTypes
<1>2. daily' \in DailyRow /\ daily'.missed = daily.missed
  BY <1>1 DEF DailyRow
<1>3. PlanInv'
  BY <1>2, PlanStays
<1>4. Exists => Past(today)
  <2> SUFFICES ASSUME Exists PROVE Past(today)
    OBVIOUS
  <2>1. schedule.next \in Days \cup {NoDate}
    BY DEF PlanInv, PlanTypes, ScheduleRow
  <2>2. schedule.next = NoDate \/ ~(schedule.next <= today + DaysAhead)
    BY <2>1, Settings DEF Due, InWindow, Latest
  <2> QED BY <1>1, <2>1, <2>2, Settings DEF Past
<1>5. Exists' = Exists /\ \A d : Past(d)' = Past(d)
  BY DEF Exists, Past
<1>6. RunsInv => OnTime'
  BY <1>2, <1>4, <1>5 DEF RunsInv, OnTime, Past
<1>7. RunsInv => AuditsMade'
  BY <1>2, <1>5 DEF RunsInv, AuditsMade, Past, HasAudit
<1> QED BY <1>3, <1>6, <1>7 DEF RunsInv

LEMMA ReadDuePlan ==
  ASSUME PlanInv, NEW t, ReadDue(t)
  PROVE  PlanInv' /\ (RunsInv => RunsInv')
<1>1. UNCHANGED <<schedule, audits, plan, today>>
  BY DEF ReadDue
<1>2. CASE Due
  <2>1. daily' = daily
    BY <1>2 DEF ReadDue
  <2>2. daily' \in DailyRow
    BY <2>1 DEF PlanInv, PlanTypes
  <2>3. \A d : HasAudit(d) => HasAudit(d)'
    BY <1>1 DEF HasAudit
  <2> QED BY <1>1, <2>1, <2>2, <2>3, PlanStays, RunsStay
<1>3. CASE ~Due
  <2>1. daily' = [daily EXCEPT !.done = TRUE]
    BY <1>3 DEF ReadDue
  <2> QED BY <1>1, <1>3, <2>1, NothingDue
<1> QED BY <1>2, <1>3

\* The day ends: what was due today is done, or a day is missed.
LEMMA NextDayPlan ==
  ASSUME PlanInv, NextDay
  PROVE  PlanInv' /\ (RunsInv => RunsInv')
<1>1. /\ today < LastDay /\ today' = today + 1 /\ UNCHANGED <<schedule, audits, plan>>
      /\ daily' = [daily EXCEPT !.done = FALSE,
                                !.missed = @ \/ (~daily.done /\ today >= plan.since)]
  BY DEF NextDay
<1>2. /\ daily \in DailyRow /\ today \in Nat /\ plan.since \in Nat
      /\ Exists => schedule.next \in Days \cup {NoDate}
  BY Settings DEF PlanInv, PlanTypes, ScheduleRow
<1>3. (daily.missed \/ (~daily.done /\ today >= plan.since)) \in BOOLEAN
  OBVIOUS
<1>4. daily' \in DailyRow /\ daily'.done = FALSE
  BY <1>1, <1>2, <1>3 DEF DailyRow
<1>5. daily'.missed = (daily.missed \/ (~daily.done /\ today >= plan.since))
  BY <1>1, <1>2, <1>3 DEF DailyRow
<1>6. ~daily'.missed => ~daily.missed /\ (plan.since <= today => daily.done)
  BY <1>2, <1>5
<1>7. Exists' = Exists /\ \A d : Past(d)' = Past(d)
  BY <1>1 DEF Exists, Past
<1>8. PlanTypes'
  <2>1. today' \in 0..LastDay
    BY <1>1, <1>2, Settings
  <2> QED BY <1>1, <1>4, <1>7, <2>1 DEF PlanInv, PlanTypes
<1>9. KeepsThePlan'
  BY <1>1, <1>7 DEF PlanInv, KeepsThePlan
<1>10. plan.since < today' => plan.since <= today
  BY <1>1, <1>2
<1>11. today' - 1 = today
  BY <1>1, <1>2
<1>12. RunsInv => OnTime'
  <2>1. RunsInv /\ Exists /\ ~daily'.missed /\ plan.since < today' => Past(today' - 1)
    BY <1>6, <1>10, <1>11 DEF RunsInv, OnTime
  <2>2. RunsInv /\ Exists /\ schedule.last # NoDate /\ plan.since <= schedule.last => Past(schedule.last)
    BY DEF RunsInv, OnTime
  <2> QED BY <1>1, <1>4, <1>7, <2>1, <2>2 DEF OnTime, Past
<1>13. RunsInv => AuditsMade'
  BY <1>1, <1>6, <1>7 DEF RunsInv, AuditsMade, Past, HasAudit
<1> QED BY <1>8, <1>9, <1>12, <1>13 DEF PlanInv, RunsInv

\* Steps of the worker and of the tasks that leave the schedule alone.
LEMMA OthersPlan ==
  ASSUME PlanInv, UNCHANGED <<schedule, plan, today>>, DOMAIN audits' = DOMAIN audits,
         \A i \in DOMAIN audits : audits'[i].date = audits[i].date,
         \/ daily' = daily \/ daily' = [daily EXCEPT !.up = FALSE]
         \/ daily' = [daily EXCEPT !.up = TRUE]
  PROVE  PlanInv' /\ (RunsInv => RunsInv')
<1>1. daily \in DailyRow
  BY DEF PlanInv, PlanTypes
<1>2. daily' \in DailyRow /\ daily'.missed = daily.missed /\ daily'.done = daily.done
  BY <1>1 DEF DailyRow
<1>3. \A d : HasAudit(d) => HasAudit(d)'
  BY DEF HasAudit
<1> QED BY <1>2, <1>3, PlanStays, RunsStay

LEMMA MailKeepsDates ==
  ASSUME AuditRows, NEW w, ClaimReminder(w) \/ Send(w) \/ SendFails(w) \/ Release(w)
  PROVE  DOMAIN audits' = DOMAIN audits /\ \A i \in DOMAIN audits : audits'[i].date = audits[i].date
<1>1. \A i \in DOMAIN audits : audits[i] \in AuditRow
  BY RowsAreNumbers
<1>2. CASE ClaimReminder(w)
  <2>1. \/ audits' = audits
        \/ audits' = [i \in DOMAIN audits |->
             IF i \in Taken(w) THEN [audits[i] EXCEPT !.claimed = TRUE] ELSE audits[i]]
    BY <1>2 DEF ClaimReminder
  <2> QED BY <1>1, <2>1 DEF AuditRow
<1>3. CASE Send(w)
  <2> DEFINE row == [audits[NextRow(w)] EXCEPT !.sent = @ + 1]
  <2>1. audits' = [audits EXCEPT ![NextRow(w)] = row]
    BY <1>3 DEF Send
  <2>2. NextRow(w) \in DOMAIN audits => row.date = audits[NextRow(w)].date
    BY <1>1 DEF AuditRow
  <2> HIDE DEF row
  <2> QED BY <2>1, <2>2
<1>4. CASE Release(w)
  <2> DEFINE row == [audits[NextRow(w)] EXCEPT !.claimed = FALSE]
  <2>1. audits' = [audits EXCEPT ![NextRow(w)] = row]
    BY <1>4 DEF Release
  <2>2. NextRow(w) \in DOMAIN audits => row.date = audits[NextRow(w)].date
    BY <1>1 DEF AuditRow
  <2> HIDE DEF row
  <2> QED BY <2>1, <2>2
<1>5. CASE SendFails(w)
  <2>1. PICK taken \in {0, 1} :
          audits' = [audits EXCEPT ![NextRow(w)] = Tried(@, taken)]
    BY <1>5 DEF SendFails
  <2> DEFINE row == Tried(audits[NextRow(w)], taken)
  <2>2. audits' = [audits EXCEPT ![NextRow(w)] = row]
    BY <2>1
  <2>3. NextRow(w) \in DOMAIN audits => row.date = audits[NextRow(w)].date
    BY <1>1 DEF AuditRow, Tried
  <2> HIDE DEF row
  <2> QED BY <2>2, <2>3
<1> QED BY <1>2, <1>3, <1>4, <1>5

\* The run a task turns to is the first planned today or later; when there is
\* none the schedule has ended, if the steps suffice.
LEMMA RunDateIsPlanned ==
  ASSUME PlanInv, Due
  PROVE  /\ RunDate # NoDate =>
              /\ RunDate \in Days /\ RunDate >= today /\ RunDate >= schedule.next
              /\ Planned(schedule, plan.base, RunDate)
              /\ \A e \in Days :
                   Planned(schedule, plan.base, e) /\ e >= today /\ e >= schedule.next
                     => RunDate <= e
         /\ RunDate = NoDate /\ StepsSuffice =>
              \A e \in Days : Planned(schedule, plan.base, e) /\ e >= schedule.next => e < today
<1> DEFINE n == schedule.next
           P(d) == Planned(schedule, plan.base, d)
<1>1. /\ Exists /\ Regular(schedule) /\ plan.base \in Days /\ today \in Days /\ today <= LastDay
      /\ schedule.next \in Days \cup {NoDate}
  BY Settings DEF Due, PlanInv, PlanTypes, ScheduleRow, Days
<1>2. n \in Days /\ n # NoDate /\ P(n)
  BY <1>1, Settings DEF Due, InWindow, PlanInv, KeepsThePlan
<1>3. CASE ~(n < today)
  <2>1. RunDate = n /\ n >= today /\ n >= n
    BY <1>1, <1>2, <1>3, Settings DEF RunDate
  <2> QED BY <1>2, <2>1
<1>4. CASE n < today
  <2> DEFINE r == AfterMissedRuns(schedule, today, MaxSteps)
  <2>1. RunDate = r
    BY <1>4 DEF RunDate
  <2>2. MaxSteps \in Nat /\ (StepsSuffice => today < 7 * MaxSteps)
    BY <1>1, Settings DEF StepsSuffice
  <2>3. /\ r # NoDate =>
             /\ r \in Days /\ r >= today /\ r >= n /\ P(r)
             /\ \A e \in Days : P(e) /\ e >= today /\ e >= n => r <= e
        /\ r = NoDate /\ today < 7 * MaxSteps =>
             \A e \in Days : P(e) /\ e >= n => e < today
    BY <1>1, <1>2, <2>2, MissedRunsAreSkipped
  <2> HIDE DEF r, P
  <2> QED BY <2>1, <2>2, <2>3 DEF P
<1> QED BY <1>3, <1>4

\* A task moves the next run, and perhaps the last, within the plan.
LEMMA PlanAdvances ==
  ASSUME PlanInv, Exists, UNCHANGED <<plan, today>>, daily' = [daily EXCEPT !.done = TRUE],
         schedule' \in ScheduleRow, SameEntry(schedule', schedule),
         schedule'.next # NoDate => Planned(schedule, plan.base, schedule'.next)
  PROVE  PlanInv'
<1>1. daily' \in DailyRow
  BY DEF PlanInv, PlanTypes, DailyRow
<1>2. Regular(schedule')
  BY SamePlan DEF PlanInv, PlanTypes
<1>3. PlanTypes'
  BY <1>1, <1>2 DEF PlanInv, PlanTypes
<1>4. KeepsThePlan'
  BY SamePlan DEF KeepsThePlan
<1> QED BY <1>3, <1>4 DEF PlanInv

\* What the three ways of a task with a due schedule have in common.
LEMMA RunsAdvance ==
  ASSUME PlanInv, RunsInv, Exists, UNCHANGED <<plan, today>>,
         daily' = [daily EXCEPT !.done = TRUE],
         schedule' \in ScheduleRow, SameEntry(schedule', schedule),
         Past(today)',
         schedule'.last # NoDate /\ plan.since <= schedule'.last => Past(schedule.last)',
         \A d : HasAudit(d) => HasAudit(d)',
         ~daily.missed =>
           \A d \in Days : plan.since <= d /\ ~Past(d) /\ Past(d)'
                             /\ Planned(schedule, plan.base, d) => HasAudit(d)'
  PROVE  RunsInv'
<1>1. daily \in DailyRow /\ today \in Nat /\ schedule'.next \in Days \cup {NoDate}
  BY Settings DEF PlanInv, PlanTypes, ScheduleRow
<1>2. daily'.missed = daily.missed
  BY <1>1 DEF DailyRow
<1>3. Past(today - 1)'
  BY <1>1, Settings DEF Past
<1>4. OnTime'
  BY <1>3 DEF OnTime
<1>5. \A d : Planned(schedule', plan.base, d) <=> Planned(schedule, plan.base, d)
  BY SamePlan
<1>6. AuditsMade'
  BY <1>2, <1>5 DEF RunsInv, AuditsMade
<1> QED BY <1>4, <1>6 DEF RunsInv

LEMMA MaterialisePlan ==
  ASSUME PlanInv, NEW t, Materialise(t)
  PROVE  /\ PlanInv'
         /\ StepsSuffice /\ RunsInv /\ AuditRows => RunsInv'
<1>1. UNCHANGED <<today, plan>> /\ daily' = [daily EXCEPT !.done = TRUE]
  BY DEF Materialise
<1>2. CASE ~Due /\ UNCHANGED <<schedule, audits>>
  <2>1. daily' \in DailyRow
    BY <1>1 DEF PlanInv, PlanTypes, DailyRow
  <2> QED BY <1>1, <1>2, <2>1, PlanStays, NothingDue
<1> DEFINE r == RunDate
           n == NextOccurrence(schedule, r)
           P(d) == Planned(schedule, plan.base, d)
<1>3. /\ Due => Exists /\ schedule \in ScheduleRow /\ Regular(schedule)
      /\ plan.base \in Days /\ plan.since \in Nat /\ today \in Nat /\ Latest \in Nat /\ today <= Latest
  BY Settings DEF Due, PlanInv, PlanTypes, Latest
<1>4. Due => /\ r # NoDate =>
                  /\ r \in Days /\ r >= today /\ r >= schedule.next /\ P(r)
                  /\ \A e \in Days : P(e) /\ e >= today /\ e >= schedule.next => r <= e
             /\ r = NoDate /\ StepsSuffice => \A e \in Days : P(e) /\ e >= schedule.next => e < today
  BY RunDateIsPlanned
<1>5. Due /\ InWindow(r) =>
        /\ n # NoDate => n \in Days /\ n > r /\ P(n)
        /\ \A e \in Days : P(e) /\ e > r => n # NoDate /\ n <= e
  <2> SUFFICES ASSUME Due, InWindow(r)
               PROVE  /\ n # NoDate => n \in Days /\ n > r /\ P(n)
                      /\ \A e \in Days : P(e) /\ e > r => n # NoDate /\ n <= e
    OBVIOUS
  <2>1. r \in Days /\ P(r)
    BY <1>4, Settings DEF InWindow
  <2> QED BY <1>3, <2>1, StepsFollowThePlan
<1>6. Due => /\ schedule.next \in Days /\ schedule.next # NoDate
             /\ schedule.last \in Days \cup {NoDate}
             /\ \A d : ~Past(d) <=> ~(d < schedule.next)
  BY <1>3, Settings DEF Due, InWindow, ScheduleRow, Past
\* Runs passed over are before today, and the plan began no earlier.
<1>7. ASSUME Due, RunsInv, ~daily.missed, NEW d \in Days, plan.since <= d, d < today, ~Past(d)
      PROVE  FALSE
  <2>1. Past(today - 1)
    BY <1>3, <1>7, Settings DEF RunsInv, OnTime
  <2> QED BY <1>3, <1>6, <1>7, <2>1, Settings DEF Past
\* The last run is before the plan or before the next one.
<1>8. ASSUME Due, RunsInv, schedule.last # NoDate, plan.since <= schedule.last
      PROVE  schedule.last < schedule.next
  BY <1>3, <1>6, <1>8 DEF RunsInv, OnTime, Past
<1> HIDE DEF r, n, P
<1>9. CASE Due /\ ~InWindow(r) /\ schedule' = [schedule EXCEPT !.next = r] /\ UNCHANGED audits
  <2>1. r \in Days \cup {NoDate} /\ (r # NoDate => r > Latest)
    BY <1>3, <1>4, <1>9, Settings DEF InWindow
  <2>2. /\ schedule' \in ScheduleRow /\ SameEntry(schedule', schedule)
        /\ schedule'.next = r /\ schedule'.last = schedule.last
    BY <1>3, <1>9, <2>1 DEF ScheduleRow, SameEntry
  <2>3. PlanInv'
    BY <1>1, <1>3, <1>4, <1>9, <2>2, PlanAdvances DEF P
  <2>4. ASSUME StepsSuffice, RunsInv PROVE RunsInv'
    <3>1. \A d : Past(d)' <=> r = NoDate \/ d < r
      BY <2>2 DEF Past
    <3>2. Past(today)'
      BY <1>1, <1>3, <2>1, <3>1, Settings DEF Past
    <3>3. schedule'.last # NoDate /\ plan.since <= schedule'.last => Past(schedule.last)'
      <4> SUFFICES ASSUME schedule.last # NoDate, plan.since <= schedule.last, r # NoDate
                   PROVE  schedule.last < r
        BY <2>2 DEF Past
      <4>1. schedule.last < schedule.next
        BY <1>8, <1>9, <2>4
      <4> QED BY <1>4, <1>6, <1>9, <4>1, Settings
    <3>4. ASSUME NEW d \in Days, ~daily.missed, plan.since <= d, ~Past(d), Past(d)', P(d) PROVE FALSE
      <4>1. d >= schedule.next
        BY <1>6, <1>9, <3>4, Settings
      <4>2. d < today
        BY <1>3, <1>4, <1>9, <2>1, <2>4, <3>1, <3>4, <4>1, Settings
      <4> QED BY <1>7, <1>9, <2>4, <3>4, <4>2
    <3>5. \A d : HasAudit(d) => HasAudit(d)'
      BY <1>9 DEF HasAudit
    <3> QED BY <1>1, <1>3, <1>9, <2>2, <2>4, <3>2, <3>3, <3>4, <3>5, RunsAdvance DEF P
  <2> QED BY <2>3, <2>4
\* A run in the window: the next is the one after it.
<1>10. ASSUME Due, InWindow(r), NEW last \in Days \cup {NoDate},
              schedule' \in ScheduleRow, SameEntry(schedule', schedule),
              schedule'.next = n, schedule'.last = last,
              \A d : HasAudit(d) => HasAudit(d)',
              \/ last = r /\ \A d : d = r => HasAudit(d)'
              \/ last = schedule.last /\ AlreadyRun(r)
       PROVE  /\ PlanInv' /\ (RunsInv => RunsInv')
  <2>1. r \in Days /\ r >= today /\ r >= schedule.next /\ P(r)
        /\ \A e \in Days : P(e) /\ e >= today /\ e >= schedule.next => r <= e
    BY <1>4, <1>10, Settings DEF InWindow
  <2>2. /\ n # NoDate => n \in Days /\ n > r /\ P(n)
        /\ \A e \in Days : P(e) /\ e > r => n # NoDate /\ n <= e
    BY <1>5, <1>10
  <2>3. PlanInv'
    BY <1>1, <1>3, <1>10, <2>2, PlanAdvances DEF P
  <2>4. ASSUME RunsInv PROVE RunsInv'
    <3>1. \A d : Past(d)' <=> n = NoDate \/ d < n
      BY <1>10 DEF Past
    <3>2. Past(today)'
      BY <1>1, <1>3, <2>1, <2>2, <3>1, Settings DEF Past
    <3>3. AlreadyRun(r) => schedule.last # NoDate /\ schedule.last >= r
      BY DEF AlreadyRun
    <3>4. AlreadyRun(r) => schedule.last < plan.since
      <4> SUFFICES ASSUME schedule.last # NoDate, schedule.last >= r, plan.since <= schedule.last
                   PROVE  FALSE
        BY <1>3, <1>6, <1>10, <3>3, Settings
      <4>1. schedule.last < schedule.next
        BY <1>8, <1>10, <2>4
      <4> QED BY <1>6, <1>10, <2>1, <4>1, Settings
    <3>5. schedule'.last # NoDate /\ plan.since <= schedule'.last => Past(schedule.last)'
      <4>1. CASE last = r
        BY <1>10, <2>2, <4>1 DEF Past
      <4>2. CASE last = schedule.last /\ AlreadyRun(r)
        BY <1>3, <1>6, <1>10, <3>3, <3>4, <4>2, Settings
      <4> QED BY <1>10, <4>1, <4>2
    <3>6. ASSUME NEW d \in Days, ~daily.missed, plan.since <= d, ~Past(d), Past(d)', P(d)
          PROVE  HasAudit(d)'
      <4>1. d >= schedule.next
        BY <1>6, <1>10, <3>6, Settings
      <4>2. ~(d < today)
        BY <1>7, <1>10, <2>4, <3>6
      <4>3. r <= d
        BY <1>3, <2>1, <3>6, <4>1, <4>2, Settings
      <4>4. ~(d > r)
        BY <2>2, <3>1, <3>6, Settings
      <4>5. d = r
        BY <2>1, <4>3, <4>4, Settings
      <4>6. ~AlreadyRun(r)
        BY <1>3, <1>6, <1>10, <2>1, <3>3, <3>4, <3>6, <4>5, Settings
      <4> QED BY <1>10, <4>5, <4>6
    <3> QED BY <1>1, <1>3, <1>10, <2>4, <3>2, <3>5, <3>6, RunsAdvance DEF P
  <2> QED BY <2>3, <2>4
<1>11. CASE Due /\ InWindow(r) /\ AlreadyRun(r) /\ schedule' = [schedule EXCEPT !.next = n]
            /\ UNCHANGED audits
  <2>1. n \in Days \cup {NoDate}
    BY <1>5, <1>11
  <2>2. /\ schedule' \in ScheduleRow /\ SameEntry(schedule', schedule)
        /\ schedule'.next = n /\ schedule'.last = schedule.last
    BY <1>3, <1>11, <2>1 DEF ScheduleRow, SameEntry
  <2>3. \A d : HasAudit(d) => HasAudit(d)'
    BY <1>11 DEF HasAudit
  <2> QED BY <1>6, <1>10, <1>11, <2>2, <2>3
<1>12. CASE /\ Due /\ InWindow(r)
            /\ schedule' = [schedule EXCEPT !.last = r, !.next = n]
            /\ audits' = Append(audits, [date |-> r, claimed |-> FALSE, sent |-> 0, failed |-> 0])
  <2>1. n \in Days \cup {NoDate} /\ r \in Days
    BY <1>4, <1>5, <1>12, Settings DEF InWindow
  <2>2. /\ schedule' \in ScheduleRow /\ SameEntry(schedule', schedule)
        /\ schedule'.next = n /\ schedule'.last = r
    BY <1>3, <1>12, <2>1 DEF ScheduleRow, SameEntry
  <2>3. PlanInv'
    BY <1>1, <1>3, <1>5, <1>12, <2>2, PlanAdvances DEF P
  <2>4. ASSUME AuditRows PROVE \A d : d = r \/ HasAudit(d) => HasAudit(d)'
    <3> DEFINE row == [date |-> r, claimed |-> FALSE, sent |-> 0, failed |-> 0]
               k == Len(audits) + 1
    <3>1. row.date = r
      OBVIOUS
    <3>2. audits \in Seq(AuditRow) /\ audits' = Append(audits, row)
      BY <1>12, <2>4 DEF AuditRows
    <3> HIDE DEF row
    <3>3. /\ DOMAIN audits' = 1..k /\ DOMAIN audits = 1..k - 1 /\ k \in Nat \ {0}
          /\ audits'[k] = row /\ \A i \in DOMAIN audits : audits'[i] = audits[i]
      BY <3>2
    <3> HIDE DEF k
    <3>4. k \in DOMAIN audits' /\ DOMAIN audits \subseteq DOMAIN audits'
      BY <3>3
    <3> QED BY <3>1, <3>3, <3>4 DEF HasAudit
  <2> QED BY <1>10, <1>12, <2>1, <2>2, <2>3, <2>4
<1> QED BY <1>2, <1>9, <1>11, <1>12 DEF Materialise, r, n

LEMMA PlanStep ==
  ASSUME AuditRows, PlanInv, [ScheduleNext]_scheduleVars
  PROVE  PlanInv' /\ (StepsSuffice /\ RunsInv => RunsInv')
<1>1. CASE \E p \in Payloads, fields \in Changes : Edit(p, fields)
  BY <1>1, EditPlan
<1>2. CASE Delete
  BY <1>2, DeletePlan
<1>3. ASSUME NEW t \in Tasks, ReadDue(t) \/ Materialise(t) \/ TaskDies(t)
      PROVE  PlanInv' /\ (StepsSuffice /\ RunsInv => RunsInv')
  <2>1. CASE TaskDies(t)
    <3>1. UNCHANGED <<schedule, plan, today, audits, daily>>
      BY <2>1 DEF TaskDies
    <3> QED BY <3>1, OthersPlan
  <2> QED BY <1>3, <2>1, ReadDuePlan, MaterialisePlan
<1>4. ASSUME NEW w \in Mailers,
             \/ ReadRows(w) \/ ClaimReminder(w) \/ Send(w)
             \/ SendFails(w) \/ Release(w) \/ MailerDies(w)
      PROVE  PlanInv' /\ (StepsSuffice /\ RunsInv => RunsInv')
  <2>1. UNCHANGED <<schedule, plan, today, daily>>
    BY <1>4 DEF ReadRows, ClaimReminder, Send, SendFails, Release, MailerDies
  <2>2. CASE ClaimReminder(w) \/ Send(w) \/ SendFails(w) \/ Release(w)
    BY <2>1, <2>2, MailKeepsDates, OthersPlan
  <2>3. CASE ReadRows(w) \/ MailerDies(w)
    <3>1. audits' = audits
      BY <2>3 DEF ReadRows, MailerDies
    <3> QED BY <2>1, <3>1, OthersPlan
  <2> QED BY <1>4, <2>2, <2>3
<1>5. CASE NextDay
  BY <1>5, NextDayPlan
<1>6. CASE WorkerStops \/ WorkerStarts \/ UNCHANGED scheduleVars
  <2>1. /\ UNCHANGED <<schedule, plan, today, audits>>
        /\ \/ daily' = daily \/ daily' = [daily EXCEPT !.up = FALSE]
           \/ daily' = [daily EXCEPT !.up = TRUE]
    BY <1>6 DEF WorkerStops, WorkerStarts, scheduleVars
  <2> QED BY <2>1, OthersPlan
<1> QED BY <1>1, <1>2, <1>3, <1>4, <1>5, <1>6 DEF ScheduleNext

\* However a run is skipped, moved off a weekend or a short month, or already
\* done, and whatever is edited, the next run is one of the plan.
THEOREM SchedulesKeepThePlan == ScheduleSpec => []KeepsThePlan
<1>1. ScheduleInit => PlanInv
  BY PlanInit
<1>2. AuditRows /\ PlanInv /\ [ScheduleNext]_scheduleVars => PlanInv'
  BY PlanStep
<1>3. ScheduleInv => AuditRows
  BY DEF ScheduleInv
<1>4. PlanInv => KeepsThePlan
  BY DEF PlanInv
<1> QED BY <1>1, <1>2, <1>3, <1>4, ScheduleInvariant, PTL DEF ScheduleSpec

\* While the daily task runs every day, every run of the plan has its audit, as
\* long as the steps past missed runs suffice for the days that pass.
THEOREM NoPlannedRunIsMissed ==
  ASSUME LastDay < 7 * MaxSteps
  PROVE  ScheduleSpec => []NoRunIsMissed
<1>1. ScheduleInit => PlanInv /\ RunsInv
  BY PlanInit
<1>2. StepsSuffice
  BY DEF StepsSuffice
<1>3. AuditRows /\ PlanInv /\ RunsInv /\ [ScheduleNext]_scheduleVars => PlanInv' /\ RunsInv'
  BY <1>2, PlanStep
<1>4. ScheduleInv => AuditRows
  BY DEF ScheduleInv
<1>5. PlanInv /\ RunsInv => NoRunIsMissed
  <2> SUFFICES ASSUME PlanInv, RunsInv, Exists, ~daily.missed,
                      NEW d \in plan.since..today - 1,
                      Planned(schedule, plan.base, d)
               PROVE  \E i \in DOMAIN audits : audits[i].date = d
    BY DEF NoRunIsMissed
  <2>1. plan.since \in Nat /\ today \in Nat /\ schedule.next \in Days \cup {NoDate}
    BY Settings DEF PlanInv, PlanTypes, ScheduleRow
  <2>2. d \in Days /\ plan.since <= d /\ d <= today - 1
    BY <2>1 DEF Days
  <2>3. Past(today - 1)
    BY <2>1, <2>2, Settings DEF RunsInv, OnTime
  <2>4. Past(d)
    BY <2>1, <2>2, <2>3 DEF Past, Days
  <2> QED BY <2>2, <2>4 DEF RunsInv, AuditsMade, HasAudit
<1> QED BY <1>1, <1>3, <1>4, <1>5, ScheduleInvariant, PTL DEF ScheduleSpec
===============================================================================
