-------------------------- MODULE EvidencePurge_proofs -------------------------
(***************************************************************************)
(* Proofs about EvidencePurge, for every number of events, sessions,       *)
(* workers and requests.                                                   *)
(*                                                                         *)
(* What a completed purge of all promised to remove is gone because its    *)
(* last batch found no candidate while no transaction was open; the pause  *)
(* holds because every job that has run a batch leaves ingestion paused    *)
(* and no session between its check of the pause and its commit.           *)
(***************************************************************************)
EXTENDS EvidencePurge, TLAPS, FiniteSetTheorems, WellFoundedInduction

JobRecords == [status : {"queued", "running"}, mode : {"all", "limit"}, keep : Nat,
               automatic : BOOLEAN, covers : SUBSET Events]

(* The automatic job is never a purge of all, and a job covers events      *)
(* created before it.                                                      *)
Proper(j) ==
  j # NoJob => (j.automatic => j.mode = "limit") /\ j.covers \subseteq created

Adding(s) == session[s].pc \in {"receiving", "inserted"}

(* From its first batch, a manual job keeps ingestion paused, and nobody   *)
(* is between the check of the pause and the commit.                       *)
DrainedIsPaused == drained => Paused /\ \A s \in Sessions : ~ Adding(s)

(* Two transactions never insert the same event. *)
OwnEvents ==
  \A s \in Sessions, t \in Sessions :
    session[s].pc = "inserted" /\ session[t].pc = "inserted"
      /\ session[s].event = session[t].event => s = t

PurgeInv ==
  /\ TypeOK
  /\ OwnEvents
  /\ Proper(job)
  /\ DrainedIsPaused
  /\ PurgedIsGone
-----------------------------------------------------------------------------
(* Operators. *)

(* A set of natural numbers has a least one. *)
LEMMA LeastOf ==
  ASSUME NEW S \in SUBSET Nat, S # {}
  PROVE  \E x \in S : \A y \in S : x <= y
<1> DEFINE R == OpToRel(<, Nat)
<1>1. IsWellFoundedOn(R, Nat)
  BY NatLessThanWellFounded
<1> HIDE DEF R
<1>2. PICK x \in S : \A y \in S : ~(<<y, x>> \in R)
  BY <1>1, WFMin
<1>3. \A y \in S : y < x => <<y, x>> \in R
  BY DEF R, OpToRel
<1>4. \A y \in S : ~(y < x)
  BY <1>2, <1>3
<1>5. x \in Nat /\ \A y \in S : y \in Nat
  OBVIOUS
<1>6. \A y \in S : x <= y
  BY <1>4, <1>5
<1> QED BY <1>6

LEMMA EventsAreNumbers == Events \in SUBSET Nat
BY LastEventAssumption DEF Events

LEMMA NoJobIsNone ==
  /\ NoJob.status = "none" /\ NoJob \notin JobRecords
  /\ Jobs = {NoJob} \cup JobRecords
<1>1. \A j \in JobRecords : j.status # "none"
  BY DEF JobRecords
<1> QED BY <1>1 DEF NoJob, Jobs, JobRecords

LEMMA NewJobType ==
  ASSUME TypeOK, NEW mode \in {"all", "limit"}, NEW keep \in Nat, NEW automatic \in BOOLEAN
  PROVE  /\ NewJob(mode, keep, automatic) \in JobRecords
         /\ NewJob(mode, keep, automatic).mode = mode
         /\ NewJob(mode, keep, automatic).automatic = automatic
         /\ NewJob(mode, keep, automatic).covers = created
BY DEF TypeOK, NewJob, JobRecords

LEMMA CurrentJobType ==
  ASSUME TypeOK, Proper(job), CurrentJob # NoJob
  PROVE  /\ CurrentJob \in JobRecords
         /\ Proper(CurrentJob)
         /\ Manual(job) => CurrentJob = job
         /\ Manual(CurrentJob) => CurrentJob = job
<1>1. CASE ActiveJob
  BY <1>1, NoJobIsNone DEF CurrentJob, ActiveJob, TypeOK
<1>2. CASE ~ ActiveJob
  <2>1. policy \in Nat /\ CurrentJob = NewJob("limit", policy, TRUE)
    BY <1>2, LimitsAssumption DEF CurrentJob, TypeOK
  <2>2. /\ CurrentJob \in JobRecords /\ CurrentJob.mode = "limit" /\ CurrentJob.automatic = TRUE
        /\ CurrentJob.covers = created
    BY <2>1, NewJobType
  <2> QED BY <1>2, <2>2 DEF Proper, Manual, ActiveJob
<1> QED BY <1>1, <1>2

(* Only stored events that no audit holds are candidates. *)
LEMMA BatchOfCandidates ==
  ASSUME TypeOK, NEW j
  PROVE  Batch(j) \subseteq Candidates(j) /\ Candidates(j) \subseteq stored \ held
<1>1. Batch(j) \subseteq Candidates(j)
  BY DEF Batch
<1>2. CASE j.mode = "all"
  BY <1>1, <1>2 DEF Candidates
<1>3. CASE j.mode # "all"
  BY <1>1, <1>3 DEF Candidates
<1> QED BY <1>2, <1>3

(* A batch selects nothing only when there is no candidate. *)
LEMMA EmptyBatch ==
  ASSUME TypeOK, NEW j, Batch(j) = {}
  PROVE  Candidates(j) = {}
<1> SUFFICES ASSUME Candidates(j) # {} PROVE FALSE
  OBVIOUS
<1>1. Candidates(j) \in SUBSET Nat
  BY BatchOfCandidates, EventsAreNumbers DEF TypeOK
<1>2. PICK e \in Candidates(j) : \A f \in Candidates(j) : e <= f
  BY <1>1, LeastOf
<1>3. {f \in Candidates(j) : f < e} = {}
  BY <1>1, <1>2
<1>4. Cardinality({f \in Candidates(j) : f < e}) < BatchSize
  BY <1>3, FS_EmptySet, BatchSizeAssumption
<1> QED BY <1>2, <1>4 DEF Batch

(* Then a purge of all has removed what it covers, held events and the     *)
(* diary apart.                                                            *)
LEMMA NothingLeft ==
  ASSUME NEW j, j.mode = "all", Candidates(j) = {}
  PROVE  (j.covers \ (held \cup Diary)) \cap stored = {}
BY DEF Candidates
-----------------------------------------------------------------------------
(* What the steps of a worker do. *)

LEMMA CompletedEffect ==
  ASSUME TypeOK, NEW j \in JobRecords, Completed(j)
  PROVE  /\ job' = NoJob
         /\ checked' \in BOOLEAN /\ cooling' \in BOOLEAN /\ unapplied' \in BOOLEAN
         /\ cooling => cooling'
         /\ ~ j.automatic => cooling'
         /\ purged' \subseteq purged \cup (j.covers \ (held \cup Diary))
         /\ j.mode # "all" => purged' = purged
<1>1. checked \in BOOLEAN /\ cooling \in BOOLEAN /\ unapplied \in BOOLEAN
  BY DEF TypeOK
<1>2. j.automatic \in BOOLEAN
  BY DEF JobRecords
<1> QED BY <1>1, <1>2 DEF Completed

(* A look for a job finds none, ends the automatic one, or starts a batch. *)
LEMMA SettleCases ==
  ASSUME TypeOK, Proper(job), NEW k \in Runners, Settle(k)
  PROVE  /\ UNCHANGED <<policy, stores, requests, drained>>
         /\ \/ UNCHANGED <<job, checked, cooling, runner, purged, unapplied>>
            \/ /\ CurrentJob \in JobRecords /\ CurrentJob.automatic
               /\ CurrentJob.mode = "limit"
               /\ Completed(CurrentJob) /\ UNCHANGED runner
            \/ /\ CurrentJob # NoJob /\ job' = CurrentJob
               /\ runner' = [runner EXCEPT ![k] = "waiting"]
               /\ UNCHANGED <<checked, cooling, purged, unapplied>>
<1>1. CASE CurrentJob = NoJob
  BY <1>1 DEF Settle
<1>2. CASE CurrentJob # NoJob
  <2>1. CurrentJob \in JobRecords /\ (CurrentJob.automatic => CurrentJob.mode = "limit")
    BY <1>2, CurrentJobType DEF Proper
  <2> QED BY <1>2, <2>1 DEF Settle
<1> QED BY <1>1, <1>2

(* A batch runs while no transaction is open. *)
LEMMA BatchCases ==
  ASSUME TypeOK, Proper(job), NEW k \in Runners, RunBatch(k)
  PROVE  /\ Quiet
         /\ runner' = [runner EXCEPT ![k] = "idle"]
         /\ UNCHANGED <<policy, created, held, session, requests>>
         /\ \/ UNCHANGED <<job, checked, cooling, stored, purged, drained, unapplied>>
            \/ /\ CurrentJob \in JobRecords
               /\ stored' = stored \ Batch(CurrentJob)
               /\ job' = [CurrentJob EXCEPT !.status = "running"]
               /\ drained' = (drained \/ Manual(CurrentJob))
               /\ UNCHANGED <<checked, cooling, purged, unapplied>>
            \/ /\ CurrentJob \in JobRecords
               /\ Batch(CurrentJob) = {} /\ Completed(CurrentJob)
               /\ drained' = (drained \/ Manual(CurrentJob))
               /\ UNCHANGED stored
<1>1. CASE CurrentJob = NoJob
  BY <1>1 DEF RunBatch, Delete
<1>2. CASE CurrentJob # NoJob
  <2>1. CurrentJob \in JobRecords
    BY <1>2, CurrentJobType
  <2> QED BY <1>2, <2>1 DEF RunBatch, Delete
<1> QED BY <1>1, <1>2

LEMMA RunningJob ==
  ASSUME NEW j \in JobRecords
  PROVE  /\ [j EXCEPT !.status = "running"] \in JobRecords
         /\ [j EXCEPT !.status = "running"].mode = j.mode
         /\ [j EXCEPT !.status = "running"].automatic = j.automatic
         /\ [j EXCEPT !.status = "running"].covers = j.covers
         /\ [j EXCEPT !.status = "running"].status # "none"
BY DEF JobRecords

LEMMA QuietInFlight ==
  ASSUME Quiet
  PROVE  InFlight = {} /\ \A s \in Sessions : ~ Adding(s)
BY DEF Quiet, InFlight, Idle, Adding
-----------------------------------------------------------------------------
(* The invariant in two halves: what concerns jobs, and what concerns      *)
(* events and the transactions that add them.                              *)

SessionRecords == [pc : {"idle", "open", "nesting", "receiving", "inserted"},
                   event : Events \cup {0}]

JobsType ==
  /\ policy \in Limits \cup {Disabled}
  /\ job \in Jobs
  /\ checked \in BOOLEAN /\ cooling \in BOOLEAN
  /\ runner \in [Runners -> {"idle", "waiting"}]
  /\ requests \in 0..MaxRequests
  /\ drained \in BOOLEAN /\ unapplied \in BOOLEAN

StoresType ==
  /\ stored \subseteq created /\ created \subseteq Events
  /\ held \subseteq stored
  /\ session \in [Sessions -> SessionRecords]
  /\ \A s \in Sessions : session[s].pc = "inserted" => session[s].event \in created \ stored
  /\ purged \subseteq created

(* PurgedIsGone, event by event. *)
Gone ==
  \A e \in purged :
    e \notin stored /\ \A s \in Sessions : session[s].pc = "inserted" => session[s].event # e

JobsInv == JobsType /\ Proper(job)
StoresInv == StoresType /\ OwnEvents /\ Gone

LEMMA Halves == PurgeInv <=> JobsInv /\ StoresInv /\ DrainedIsPaused
<1>1. TypeOK <=> JobsType /\ StoresType
  BY DEF TypeOK, JobsType, StoresType, SessionRecords
<1>2. PurgedIsGone <=> Gone
  BY DEF PurgedIsGone, Gone, InFlight
<1> QED BY <1>1, <1>2 DEF PurgeInv, JobsInv, StoresInv

LEMMA HalvesNext == PurgeInv' <=> JobsInv' /\ StoresInv' /\ DrainedIsPaused'
<1>1. TypeOK' <=> JobsType' /\ StoresType'
  BY DEF TypeOK, JobsType, StoresType, SessionRecords
<1>2. PurgedIsGone' <=> Gone'
  BY DEF PurgedIsGone, Gone, InFlight
<1> QED BY <1>1, <1>2 DEF PurgeInv, JobsInv, StoresInv

LEMMA InitialInv == Init => PurgeInv
<1> SUFFICES ASSUME Init PROVE JobsInv /\ StoresInv /\ DrainedIsPaused
  BY Halves
<1>1. JobsInv
  <2>1. Proper(job)
    BY DEF Init, Proper
  <2>2. job \in Jobs /\ requests \in 0..MaxRequests
    BY NoJobIsNone, MaxRequestsAssumption DEF Init
  <2> QED BY <2>1, <2>2 DEF Init, JobsInv, JobsType
<1>2. Idle \in SessionRecords /\ Idle.pc = "idle"
  BY DEF Idle, SessionRecords
<1>3. StoresInv
  BY <1>2 DEF Init, StoresInv, StoresType, OwnEvents, Gone
<1> QED BY <1>1, <1>3 DEF Init, DrainedIsPaused
-----------------------------------------------------------------------------
(* Sessions and audits. *)

LEMMA JobsFrame ==
  ASSUME JobsInv, created \subseteq created',
         UNCHANGED <<policy, job, checked, cooling, runner, requests, drained, unapplied>>
  PROVE  JobsInv'
BY DEF JobsInv, JobsType, Proper

LEMMA StoresFrame ==
  ASSUME StoresInv, UNCHANGED <<stores, purged>>
  PROVE  StoresInv'
BY DEF StoresInv, StoresType, OwnEvents, Gone, stores

(* A step of one session to a transaction that has inserted nothing. *)
LEMMA SessionMoves ==
  ASSUME StoresInv, NEW s \in Sessions, NEW r \in SessionRecords, r.pc # "inserted",
         session' = [session EXCEPT ![s] = r],
         UNCHANGED <<created, stored, held, purged>>
  PROVE  StoresInv'
<1>1. session \in [Sessions -> SessionRecords]
  BY DEF StoresInv, StoresType
<1>2. \A t \in Sessions : session'[t] = IF t = s THEN r ELSE session[t]
  BY <1>1
<1>3. session' \in [Sessions -> SessionRecords]
  BY <1>1
<1>4. \A t \in Sessions : session'[t].pc = "inserted" => t # s /\ session'[t] = session[t]
  BY <1>2
<1>5. StoresType'
  BY <1>3, <1>4 DEF StoresInv, StoresType
<1>6. OwnEvents'
  BY <1>4 DEF StoresInv, OwnEvents
<1>7. Gone'
  BY <1>4 DEF StoresInv, Gone
<1> QED BY <1>5, <1>6, <1>7 DEF StoresInv

(* The record of a session whose position changes. *)
LEMMA Moved ==
  ASSUME StoresInv, NEW s \in Sessions, NEW p \in {"open", "nesting", "receiving"}
  PROVE  /\ [session[s] EXCEPT !.pc = p] \in SessionRecords
         /\ [session[s] EXCEPT !.pc = p].pc = p
         /\ [session EXCEPT ![s].pc = p] = [session EXCEPT ![s] = [session[s] EXCEPT !.pc = p]]
<1>1. session[s] \in SessionRecords
  BY DEF StoresInv, StoresType
<1> QED BY <1>1 DEF SessionRecords

(* No session starts to add events, the pause stays. *)
LEMMA NobodyStarts ==
  ASSUME StoresInv, DrainedIsPaused, NEW s \in Sessions, NEW r \in SessionRecords,
         r.pc \notin {"receiving", "inserted"},
         session' = [session EXCEPT ![s] = r],
         UNCHANGED <<job, cooling, drained>>
  PROVE  DrainedIsPaused'
<1>1. session \in [Sessions -> SessionRecords]
  BY DEF StoresInv, StoresType
<1>2. \A t \in Sessions : Adding(t)' => Adding(t)
  BY <1>1 DEF Adding
<1>3. Paused => Paused'
  BY DEF Paused, Manual
<1> QED BY <1>2, <1>3 DEF DrainedIsPaused

LEMMA IdleRecord == Idle \in SessionRecords /\ Idle.pc = "idle"
BY DEF Idle, SessionRecords

LEMMA SessionSteps ==
  ASSUME PurgeInv, NEW s \in Sessions,
         Begin(s) \/ Nest(s) \/ Nested(s) \/ Close(s)
  PROVE  PurgeInv'
<1>1. JobsInv /\ StoresInv /\ DrainedIsPaused
  BY Halves
<1>2. JobsInv'
  BY <1>1, JobsFrame DEF Begin, Nest, Nested, Close, history
<1>3. UNCHANGED <<job, cooling, drained, created, stored, held, purged>>
  BY DEF Begin, Nest, Nested, Close, history
<1>4. \E r \in SessionRecords :
         r.pc \notin {"receiving", "inserted"} /\ session' = [session EXCEPT ![s] = r]
  <2>1. CASE Begin(s) \/ Nested(s)
    BY <1>1, <2>1, Moved DEF Begin, Nested
  <2>2. CASE Nest(s)
    BY <1>1, <2>2, Moved DEF Nest
  <2>3. CASE Close(s)
    BY <2>3, IdleRecord DEF Close
  <2> QED BY <2>1, <2>2, <2>3
<1>5. PICK r \in SessionRecords :
         r.pc \notin {"receiving", "inserted"} /\ session' = [session EXCEPT ![s] = r]
  BY <1>4
<1>6. StoresInv'
  BY <1>1, <1>3, <1>5, SessionMoves
<1>7. DrainedIsPaused'
  BY <1>1, <1>3, <1>5, NobodyStarts
<1> QED BY <1>2, <1>6, <1>7, HalvesNext

(* An event is only received while nothing pauses ingestion. *)
LEMMA ReceiveStep ==
  ASSUME PurgeInv, NEW s \in Sessions, Receive(s)
  PROVE  PurgeInv'
<1>1. JobsInv /\ StoresInv /\ DrainedIsPaused
  BY Halves
<1>2. JobsInv'
  BY <1>1, JobsFrame DEF Receive, history
<1>3. StoresInv'
  BY <1>1, Moved, SessionMoves DEF Receive, history
<1>4. ~ drained'
  BY <1>1 DEF Receive, DrainedIsPaused, history
<1> QED BY <1>2, <1>3, <1>4, HalvesNext DEF DrainedIsPaused

LEMMA InsertStep ==
  ASSUME PurgeInv, NEW s \in Sessions, NEW e \in Events, Insert(s, e)
  PROVE  PurgeInv'
<1>1. JobsInv /\ StoresInv /\ DrainedIsPaused
  BY Halves
<1>2. JobsInv'
  BY <1>1, JobsFrame DEF Insert, history
<1>3. StoresInv'
  <2> DEFINE r == [pc |-> "inserted", event |-> e]
  <2>1. session \in [Sessions -> SessionRecords] /\ r \in SessionRecords
    BY <1>1 DEF StoresInv, StoresType, SessionRecords
  <2>2. \A t \in Sessions : session'[t] = IF t = s THEN r ELSE session[t]
    BY <2>1 DEF Insert
  <2>3. /\ session' \in [Sessions -> SessionRecords]
        /\ created' = created \cup {e} /\ e \notin created
        /\ stored' = stored /\ held' = held /\ purged' = purged
    BY <2>1 DEF Insert, history
  <2>4. r.pc = "inserted" /\ r.event = e
    OBVIOUS
  <2>5. StoresType'
    BY <1>1, <2>2, <2>3, <2>4 DEF StoresInv, StoresType
  <2>6. \A t \in Sessions : session[t].pc = "inserted" => session[t].event # e
    BY <1>1, <2>3 DEF StoresInv, StoresType
  <2>7. OwnEvents'
    BY <1>1, <2>2, <2>4, <2>6 DEF StoresInv, OwnEvents
  <2>8. e \notin purged
    BY <1>1, <2>3 DEF StoresInv, StoresType
  <2>9. Gone'
    BY <1>1, <2>2, <2>3, <2>4, <2>8 DEF StoresInv, Gone
  <2> QED BY <2>5, <2>7, <2>9 DEF StoresInv
<1>4. ~ drained'
  BY <1>1 DEF Insert, DrainedIsPaused, Adding, history
<1> QED BY <1>2, <1>3, <1>4, HalvesNext DEF DrainedIsPaused

LEMMA CommitStep ==
  ASSUME PurgeInv, NEW s \in Sessions, Commit(s)
  PROVE  PurgeInv'
<1>1. JobsInv /\ StoresInv /\ DrainedIsPaused
  BY Halves
<1>2. JobsInv'
  BY <1>1, JobsFrame DEF Commit, history
<1>3. StoresInv'
  <2>1. session \in [Sessions -> SessionRecords]
    BY <1>1 DEF StoresInv, StoresType
  <2>2. \A t \in Sessions : session'[t] = IF t = s THEN Idle ELSE session[t]
    BY <2>1 DEF Commit
  <2>3. /\ session' \in [Sessions -> SessionRecords]
        /\ created' = created /\ stored' = stored \cup {session[s].event}
        /\ held' = held /\ purged' = purged /\ session[s].pc = "inserted"
    BY <2>1, IdleRecord DEF Commit, history
  <2>4. \A t \in Sessions :
           session'[t].pc = "inserted" => t # s /\ session'[t] = session[t]
    BY <2>2, IdleRecord
  <2>5. \A t \in Sessions : session'[t].pc = "inserted" => session[t].event # session[s].event
    BY <1>1, <2>3, <2>4 DEF StoresInv, OwnEvents
  <2>6. session[s].event \in created \ stored /\ session[s].event \notin purged
    BY <1>1, <2>3 DEF StoresInv, StoresType, Gone
  <2>7. StoresType'
    BY <1>1, <2>3, <2>4, <2>5, <2>6 DEF StoresInv, StoresType
  <2>8. OwnEvents'
    BY <1>1, <2>4 DEF StoresInv, OwnEvents
  <2>9. Gone'
    BY <1>1, <2>3, <2>4, <2>6 DEF StoresInv, Gone
  <2> QED BY <2>7, <2>8, <2>9 DEF StoresInv
<1>4. ~ drained'
  BY <1>1 DEF Commit, DrainedIsPaused, Adding, history
<1> QED BY <1>2, <1>3, <1>4, HalvesNext DEF DrainedIsPaused

LEMMA DrainedFrame ==
  ASSUME DrainedIsPaused, UNCHANGED session, drained' => drained, Paused => Paused'
  PROVE  DrainedIsPaused'
BY DEF DrainedIsPaused, Adding

LEMMA AuditSteps ==
  ASSUME PurgeInv, NEW e \in Events, Hold(e) \/ Release(e)
  PROVE  PurgeInv'
<1>1. JobsInv /\ StoresInv /\ DrainedIsPaused
  BY Halves
<1>2. JobsInv'
  BY <1>1, JobsFrame DEF Hold, Release, history
<1>3. held' \subseteq stored /\ UNCHANGED <<created, stored, session, purged, drained, job, cooling>>
  BY <1>1 DEF Hold, Release, history, StoresInv, StoresType
<1>4. StoresInv'
  BY <1>1, <1>3 DEF StoresInv, StoresType, OwnEvents, Gone
<1>5. DrainedIsPaused'
  BY <1>1, <1>3, DrainedFrame DEF Paused, Manual
<1> QED BY <1>2, <1>4, <1>5, HalvesNext
-----------------------------------------------------------------------------
(* Administrators and the clock. *)

LEMMA RequestCounts ==
  ASSUME JobsInv, Request
  PROVE  requests' \in 0..MaxRequests
BY MaxRequestsAssumption DEF JobsInv, JobsType, Request

(* A job that is cancelled leaves its pause behind. *)
LEMMA CancelledEffect ==
  ASSUME JobsInv, Cancelled
  PROVE  /\ job' \in Jobs /\ Proper(job)' /\ cooling' \in BOOLEAN
         /\ Paused => Paused'
<1>1. job' = NoJob /\ cooling' = (cooling \/ Manual(job)) /\ cooling \in BOOLEAN
  BY DEF Cancelled, JobsInv, JobsType
<1>2. job' \in Jobs /\ Proper(job)'
  BY <1>1, NoJobIsNone DEF Proper
<1>3. cooling' \in BOOLEAN
  BY <1>1
<1>4. Paused => Paused'
  BY <1>1 DEF Paused
<1> QED BY <1>2, <1>3, <1>4

(* A step that leaves events and transactions alone. *)
LEMMA JobStep ==
  ASSUME PurgeInv, JobsType', Proper(job)', UNCHANGED <<stores, purged>>,
         drained' => drained, drained' /\ Paused => Paused'
  PROVE  PurgeInv'
<1>1. StoresInv' /\ DrainedIsPaused
  BY Halves, StoresFrame
<1>2. DrainedIsPaused'
  BY <1>1 DEF DrainedIsPaused, Adding, stores
<1> QED BY <1>1, <1>2, HalvesNext DEF JobsInv

LEMMA SetPolicyStep ==
  ASSUME PurgeInv, NEW p \in Limits \cup {Disabled}, SetPolicy(p)
  PROVE  PurgeInv'
<1>1. JobsInv
  BY Halves
<1>2. /\ job' \in Jobs /\ Proper(job)' /\ cooling' \in BOOLEAN
      /\ Paused => Paused'
  <2>1. CASE Cancelled
    BY <1>1, <2>1, CancelledEffect
  <2>2. CASE UNCHANGED <<job, cooling>>
    BY <1>1, <2>2 DEF JobsInv, JobsType, Proper, Paused, Manual, SetPolicy, stores
  <2> QED BY <2>1, <2>2 DEF SetPolicy
<1>3. requests' \in 0..MaxRequests
  BY <1>1, RequestCounts DEF SetPolicy
<1>4. /\ policy' \in Limits \cup {Disabled} /\ checked' \in BOOLEAN /\ unapplied' \in BOOLEAN
      /\ UNCHANGED <<stores, runner, purged, drained>>
  BY DEF SetPolicy
<1>5. JobsType'
  BY <1>1, <1>2, <1>3, <1>4 DEF JobsInv, JobsType
<1> QED BY <1>2, <1>4, <1>5, JobStep

LEMMA PurgeStep ==
  ASSUME PurgeInv, NEW mode \in {"all", "limit"}, Purge(mode)
  PROVE  PurgeInv'
<1>1. JobsInv /\ TypeOK
  BY Halves DEF PurgeInv
<1> DEFINE keep == IF mode = "all" THEN 0 ELSE policy
<1>2. keep \in Nat
  BY <1>1, LimitsAssumption DEF Purge, TypeOK
<1> HIDE DEF keep
<1>3. job' = NewJob(mode, keep, FALSE) /\ ~ ActiveJob
  BY DEF Purge, keep
<1>4. job' \in JobRecords /\ job'.automatic = FALSE /\ job'.covers = created
  BY <1>1, <1>2, <1>3, NewJobType
<1>5. job' \in Jobs /\ Proper(job)'
  BY <1>4, NoJobIsNone DEF Proper, Purge, stores
<1>6. Paused => Paused'
  BY <1>3 DEF Paused, Manual, ActiveJob, Purge
<1>7. requests' \in 0..MaxRequests
  BY <1>1, RequestCounts DEF Purge
<1>8. UNCHANGED <<policy, checked, cooling, stores, runner, purged, drained, unapplied>>
  BY DEF Purge, history
<1>9. JobsType'
  BY <1>1, <1>5, <1>7, <1>8 DEF JobsInv, JobsType
<1> QED BY <1>5, <1>6, <1>8, <1>9, JobStep

LEMMA CancelStep ==
  ASSUME PurgeInv, Cancel
  PROVE  PurgeInv'
<1>1. JobsInv
  BY Halves
<1>2. /\ job' \in Jobs /\ Proper(job)' /\ cooling' \in BOOLEAN
      /\ Paused => Paused'
  BY <1>1, CancelledEffect DEF Cancel
<1>3. requests' \in 0..MaxRequests
  BY <1>1, RequestCounts DEF Cancel
<1>4. UNCHANGED <<policy, checked, stores, runner, purged, drained, unapplied>>
  BY DEF Cancel, history
<1>5. JobsType'
  BY <1>1, <1>2, <1>3, <1>4 DEF JobsInv, JobsType
<1> QED BY <1>2, <1>4, <1>5, JobStep

(* The pause of a job ends, unless another job began. *)
LEMMA ClockSteps ==
  ASSUME PurgeInv, CooldownEnds \/ HourPasses
  PROVE  PurgeInv'
<1>1. JobsInv
  BY Halves
<1>2. /\ UNCHANGED <<policy, job, stores, runner, requests, purged, unapplied>>
      /\ checked' \in BOOLEAN /\ cooling' \in BOOLEAN
      /\ drained' \in BOOLEAN /\ (drained' => drained)
      /\ drained' /\ Paused => Paused'
  <2>1. CASE CooldownEnds
    <3>1. drained' = (drained /\ Manual(job)) /\ drained \in BOOLEAN
      BY <1>1, <2>1 DEF CooldownEnds, JobsInv, JobsType
    <3>2. drained' \in BOOLEAN /\ (drained' => drained)
      BY <3>1
    <3>3. drained' /\ Paused => Paused'
      BY <2>1, <3>1 DEF CooldownEnds, Paused, Manual
    <3> QED BY <1>1, <2>1, <3>2, <3>3 DEF CooldownEnds, JobsInv, JobsType
  <2>2. CASE HourPasses
    BY <1>1, <2>2 DEF HourPasses, history, JobsInv, JobsType, Paused, Manual
  <2> QED BY <2>1, <2>2
<1>3. Proper(job)'
  BY <1>1, <1>2 DEF JobsInv, Proper, stores
<1>4. JobsType'
  BY <1>1, <1>2 DEF JobsInv, JobsType
<1> QED BY <1>2, <1>3, <1>4, JobStep
-----------------------------------------------------------------------------
(* The worker. *)

LEMMA RunnerType ==
  ASSUME JobsInv, NEW k \in Runners, NEW p \in {"idle", "waiting"},
         runner' = [runner EXCEPT ![k] = p]
  PROVE  runner' \in [Runners -> {"idle", "waiting"}]
BY DEF JobsInv, JobsType

(* A job completed outside a batch is automatic: it neither promised to    *)
(* remove anything nor paused ingestion.                                   *)
LEMMA SettleStep ==
  ASSUME PurgeInv, NEW k \in Runners, Settle(k)
  PROVE  PurgeInv'
<1>1. JobsInv /\ TypeOK /\ Proper(job)
  BY Halves DEF PurgeInv
<1>2. UNCHANGED <<policy, stores, requests, drained>>
  BY <1>1, SettleCases
<1>3. CASE UNCHANGED <<job, checked, cooling, runner, purged, unapplied>>
  <2>1. JobsType' /\ Proper(job)'
    BY <1>1, <1>2, <1>3 DEF JobsInv, JobsType, Proper, stores
  <2>2. Paused => Paused'
    BY <1>3 DEF Paused, Manual
  <2> QED BY <1>2, <1>3, <2>1, <2>2, JobStep
<1>4. CASE /\ CurrentJob \in JobRecords /\ CurrentJob.automatic
           /\ CurrentJob.mode = "limit"
           /\ Completed(CurrentJob) /\ UNCHANGED runner
  <2>1. /\ job' = NoJob /\ purged' = purged /\ (cooling => cooling')
        /\ checked' \in BOOLEAN /\ cooling' \in BOOLEAN /\ unapplied' \in BOOLEAN
    BY <1>1, <1>4, CompletedEffect
  <2>2. JobsType' /\ Proper(job)'
    <3>1. job' \in Jobs /\ Proper(job)'
      BY <2>1, NoJobIsNone DEF Proper
    <3>2. JobsType'
      BY <1>1, <1>2, <1>4, <2>1, <3>1 DEF JobsInv, JobsType
    <3> QED BY <3>1, <3>2
  <2>3. ~ Manual(job)
    <3>1. CurrentJob # NoJob
      BY <1>4, NoJobIsNone
    <3>2. Manual(job) => CurrentJob = job
      BY <1>1, <3>1, CurrentJobType
    <3> QED BY <1>4, <3>2 DEF Manual
  <2>4. Paused => Paused'
    <3>1. Paused => cooling
      BY <2>3 DEF Paused
    <3>2. cooling' => Paused'
      BY DEF Paused
    <3> QED BY <2>1, <3>1, <3>2
  <2> QED BY <1>2, <2>1, <2>2, <2>4, JobStep
<1>5. CASE /\ CurrentJob # NoJob /\ job' = CurrentJob
           /\ runner' = [runner EXCEPT ![k] = "waiting"]
           /\ UNCHANGED <<checked, cooling, purged, unapplied>>
  <2>1. CurrentJob \in JobRecords /\ Proper(CurrentJob) /\ (Manual(job) => CurrentJob = job)
    BY <1>1, <1>5, CurrentJobType
  <2>2. job' \in Jobs /\ Proper(job)'
    BY <1>2, <1>5, <2>1, NoJobIsNone DEF Proper, stores
  <2>3. runner' \in [Runners -> {"idle", "waiting"}]
    BY <1>1, <1>5, RunnerType
  <2>4. JobsType'
    BY <1>1, <1>2, <1>5, <2>2, <2>3 DEF JobsInv, JobsType
  <2>5. Paused => Paused'
    BY <1>5, <2>1 DEF Paused, Manual
  <2> QED BY <1>2, <1>5, <2>2, <2>4, <2>5, JobStep
<1> QED BY <1>1, <1>3, <1>4, <1>5, SettleCases

(* What a batch leaves of the events, while no transaction is open. *)
LEMMA BatchStores ==
  ASSUME StoresInv, Quiet, UNCHANGED <<created, held, session>>,
         held \subseteq stored', stored' \subseteq stored,
         purged' \subseteq created, purged' \cap stored' = {}
  PROVE  StoresInv'
<1>1. \A s \in Sessions : session[s].pc # "inserted"
  BY DEF Quiet, Idle
<1> QED BY <1>1 DEF StoresInv, StoresType, OwnEvents, Gone

LEMMA RunBatchStep ==
  ASSUME PurgeInv, NEW k \in Runners, RunBatch(k)
  PROVE  PurgeInv'
<1>1. JobsInv /\ TypeOK /\ Proper(job) /\ StoresInv /\ DrainedIsPaused
  BY Halves DEF PurgeInv
<1>2. /\ Quiet /\ runner' = [runner EXCEPT ![k] = "idle"]
      /\ UNCHANGED <<policy, created, held, session, requests>>
  BY <1>1, BatchCases
<1>3. runner' \in [Runners -> {"idle", "waiting"}]
  BY <1>1, <1>2, RunnerType
<1>4. \A s \in Sessions : ~ Adding(s)'
  BY <1>2, QuietInFlight DEF Adding
<1>5. held \subseteq stored /\ purged \subseteq created /\ purged \cap stored = {}
  BY <1>1 DEF StoresInv, StoresType, Gone
<1>6. CASE UNCHANGED <<job, checked, cooling, stored, purged, drained, unapplied>>
  <2>1. JobsInv'
    BY <1>1, <1>2, <1>3, <1>6 DEF JobsInv, JobsType, Proper
  <2>2. StoresInv'
    BY <1>1, <1>2, <1>5, <1>6, BatchStores
  <2>3. DrainedIsPaused'
    BY <1>1, <1>2, <1>6, DrainedFrame DEF Paused, Manual
  <2> QED BY <2>1, <2>2, <2>3, HalvesNext
<1>7. CASE /\ CurrentJob \in JobRecords
           /\ stored' = stored \ Batch(CurrentJob)
           /\ job' = [CurrentJob EXCEPT !.status = "running"]
           /\ drained' = (drained \/ Manual(CurrentJob))
           /\ UNCHANGED <<checked, cooling, purged, unapplied>>
  <2>1. CurrentJob # NoJob
    BY <1>7, NoJobIsNone
  <2>2. Proper(CurrentJob) /\ (Manual(job) => CurrentJob = job)
    BY <1>1, <2>1, CurrentJobType
  <2>3. /\ job' \in JobRecords /\ job'.mode = CurrentJob.mode
        /\ job'.automatic = CurrentJob.automatic /\ job'.status # "none"
        /\ job'.covers = CurrentJob.covers
    BY <1>7, RunningJob
  <2>4. job' \in Jobs /\ Proper(job)'
    BY <1>2, <2>1, <2>2, <2>3, NoJobIsNone DEF Proper
  <2>5. drained' \in BOOLEAN
    BY <1>7
  <2>6. JobsInv'
    BY <1>1, <1>2, <1>3, <1>7, <2>4, <2>5 DEF JobsInv, JobsType
  <2>7. Batch(CurrentJob) \subseteq stored \ held
    BY <1>1, BatchOfCandidates
  <2>8. StoresInv'
    BY <1>1, <1>2, <1>5, <1>7, <2>7, BatchStores
  <2>9. Manual(CurrentJob) => Manual(job)'
    BY <2>3 DEF Manual
  <2>10. drained' => Paused'
    BY <1>1, <1>7, <2>2, <2>9 DEF DrainedIsPaused, Paused
  <2> QED BY <1>4, <2>6, <2>8, <2>10, HalvesNext DEF DrainedIsPaused
<1>8. CASE /\ CurrentJob \in JobRecords
           /\ Batch(CurrentJob) = {} /\ Completed(CurrentJob)
           /\ drained' = (drained \/ Manual(CurrentJob))
           /\ UNCHANGED stored
  <2>1. /\ job' = NoJob
        /\ checked' \in BOOLEAN /\ cooling' \in BOOLEAN /\ unapplied' \in BOOLEAN
        /\ cooling => cooling'
        /\ ~ CurrentJob.automatic => cooling'
        /\ purged' \subseteq purged \cup (CurrentJob.covers \ (held \cup Diary))
        /\ CurrentJob.mode # "all" => purged' = purged
    BY <1>1, <1>8, CompletedEffect
  <2>2. CurrentJob # NoJob
    BY <1>8, NoJobIsNone
  <2>3. Manual(job) => CurrentJob = job
    BY <1>1, <2>2, CurrentJobType
  <2>4. job' \in Jobs /\ Proper(job)'
    BY <2>1, NoJobIsNone DEF Proper
  <2>5. drained' \in BOOLEAN
    BY <1>8
  <2>6. JobsInv'
    BY <1>1, <1>2, <1>3, <2>1, <2>4, <2>5 DEF JobsInv, JobsType
  <2>7. Candidates(CurrentJob) = {}
    BY <1>1, <1>8, EmptyBatch
  <2>8. purged' \cap stored = {}
    BY <1>5, <2>1, <2>7, NothingLeft
  <2>9. CurrentJob.covers \subseteq created
    BY <1>1, <2>2, CurrentJobType DEF Proper
  <2>10. StoresInv'
    BY <1>1, <1>2, <1>5, <1>8, <2>1, <2>8, <2>9, BatchStores
  <2>11. drained' => Paused'
    BY <1>1, <1>8, <2>1, <2>3 DEF DrainedIsPaused, Paused, Manual
  <2> QED BY <1>4, <2>6, <2>10, <2>11, HalvesNext DEF DrainedIsPaused
<1> QED BY <1>1, <1>6, <1>7, <1>8, BatchCases

LEMMA TimeOutStep ==
  ASSUME PurgeInv, NEW k \in Runners, TimeOut(k)
  PROVE  PurgeInv'
<1>1. JobsInv
  BY Halves
<1>2. UNCHANGED <<policy, job, checked, cooling, stores, requests, purged, drained, unapplied>>
  BY DEF TimeOut, history
<1>3. runner' \in [Runners -> {"idle", "waiting"}]
  BY <1>1, RunnerType DEF TimeOut
<1>4. JobsType'
  BY <1>1, <1>2, <1>3 DEF JobsInv, JobsType
<1>5. Proper(job)'
  BY <1>1, <1>2 DEF JobsInv, Proper, stores
<1>6. Paused => Paused'
  BY <1>2 DEF Paused, Manual
<1> QED BY <1>2, <1>4, <1>5, <1>6, JobStep
-----------------------------------------------------------------------------
(* Every step. *)

LEMMA InvStep == PurgeInv /\ [Next]_vars => PurgeInv'
<1> SUFFICES ASSUME PurgeInv, [Next]_vars PROVE PurgeInv'
  OBVIOUS
<1>1. ASSUME NEW s \in Sessions, Begin(s) \/ Nest(s) \/ Nested(s) \/ Close(s)
      PROVE  PurgeInv'
  BY <1>1, SessionSteps
<1>2. ASSUME NEW s \in Sessions, Receive(s) PROVE PurgeInv'
  BY <1>2, ReceiveStep
<1>3. ASSUME NEW s \in Sessions, Commit(s) PROVE PurgeInv'
  BY <1>3, CommitStep
<1>4. ASSUME NEW s \in Sessions, NEW e \in Events, Insert(s, e) PROVE PurgeInv'
  BY <1>4, InsertStep
<1>5. ASSUME NEW e \in Events, Hold(e) \/ Release(e) PROVE PurgeInv'
  BY <1>5, AuditSteps
<1>6. ASSUME NEW p \in Limits \cup {Disabled}, SetPolicy(p) PROVE PurgeInv'
  BY <1>6, SetPolicyStep
<1>7. ASSUME NEW mode \in {"all", "limit"}, Purge(mode) PROVE PurgeInv'
  BY <1>7, PurgeStep
<1>8. CASE Cancel
  BY <1>8, CancelStep
<1>9. CASE CooldownEnds \/ HourPasses
  BY <1>9, ClockSteps
<1>10. ASSUME NEW k \in Runners, Settle(k) PROVE PurgeInv'
  BY <1>10, SettleStep
<1>11. ASSUME NEW k \in Runners, RunBatch(k) PROVE PurgeInv'
  BY <1>11, RunBatchStep
<1>12. ASSUME NEW k \in Runners, TimeOut(k) PROVE PurgeInv'
  BY <1>12, TimeOutStep
<1>13. CASE UNCHANGED vars
  <2>1. JobsInv' /\ StoresInv' /\ DrainedIsPaused
    BY <1>13, Halves, JobsFrame, StoresFrame DEF vars, stores, history
  <2>2. DrainedIsPaused'
    BY <1>13, <2>1, DrainedFrame DEF vars, stores, history, Paused, Manual
  <2> QED BY <2>1, <2>2, HalvesNext
<1> QED BY <1>1, <1>2, <1>3, <1>4, <1>5, <1>6, <1>7, <1>8, <1>9, <1>10, <1>11, <1>12, <1>13
        DEF Next

THEOREM Invariant == Spec => []PurgeInv
<1>1. Init => PurgeInv
  BY InitialInv
<1>2. PurgeInv /\ [Next]_vars => PurgeInv'
  BY InvStep
<1> QED BY <1>1, <1>2, PTL DEF Spec

(* Each variable has its type, an open transaction's event is not          *)
(* committed, and what an audit holds is there: a batch selects among the  *)
(* UNPROTECTED events only (candidates).                                   *)
THEOREM TypeCorrect == Spec => []TypeOK
<1>1. PurgeInv => TypeOK
  BY DEF PurgeInv
<1> QED BY <1>1, Invariant, PTL

(* Once a purge of all has completed, none of the events it promised to    *)
(* remove is stored or on its way: its last batch selected nothing while   *)
(* it held the ingestion lease alone (database_batch).                     *)
THEOREM PurgeIsComplete == Spec => []PurgedIsGone
<1>1. PurgeInv => PurgedIsGone
  BY DEF PurgeInv
<1> QED BY <1>1, Invariant, PTL

(* An event is added by a commit only, and that needs a session between    *)
(* its check of the pause and its commit: after the first batch of a       *)
(* manual job there is none until ingestion resumes.                       *)
LEMMA PauseStep == PurgeInv /\ [Next]_vars => [drained => stored' \subseteq stored]_vars
<1> SUFFICES ASSUME PurgeInv, Next, drained PROVE stored' \subseteq stored
  OBVIOUS
<1>1. \A s \in Sessions : ~ Adding(s)
  BY DEF PurgeInv, DrainedIsPaused
<1>2. ASSUME NEW s \in Sessions,
             Begin(s) \/ Nest(s) \/ Nested(s) \/ Receive(s) \/ Close(s)
      PROVE  stored' \subseteq stored
  BY <1>2 DEF Begin, Nest, Nested, Receive, Close
<1>3. ASSUME NEW s \in Sessions, Commit(s) PROVE FALSE
  BY <1>1, <1>3 DEF Commit, Adding
<1>4. ASSUME NEW s \in Sessions, NEW e \in Events, Insert(s, e) PROVE FALSE
  BY <1>1, <1>4 DEF Insert, Adding
<1>5. ASSUME NEW e \in Events, Hold(e) \/ Release(e) PROVE stored' \subseteq stored
  BY <1>5 DEF Hold, Release
<1>6. ASSUME NEW p \in Limits \cup {Disabled}, SetPolicy(p) PROVE stored' \subseteq stored
  BY <1>6 DEF SetPolicy, stores
<1>7. ASSUME NEW mode \in {"all", "limit"}, Purge(mode) PROVE stored' \subseteq stored
  BY <1>7 DEF Purge, stores
<1>8. CASE Cancel \/ CooldownEnds \/ HourPasses
  BY <1>8 DEF Cancel, CooldownEnds, HourPasses, stores
<1>9. ASSUME NEW k \in Runners, Settle(k) \/ TimeOut(k) PROVE stored' \subseteq stored
  BY <1>9 DEF Settle, TimeOut, stores
<1>10. ASSUME NEW k \in Runners, RunBatch(k) PROVE stored' \subseteq stored
  <2>1. TypeOK /\ Proper(job)
    BY DEF PurgeInv
  <2> QED BY <1>10, <2>1, BatchCases
<1> QED BY <1>2, <1>3, <1>4, <1>5, <1>6, <1>7, <1>8, <1>9, <1>10 DEF Next

THEOREM PauseIsKept == Spec => PauseHolds
<1>1. PurgeInv /\ [Next]_vars => [drained => stored' \subseteq stored]_vars
  BY PauseStep
<1> QED BY <1>1, Invariant, PTL DEF Spec, PauseHolds
-----------------------------------------------------------------------------
(* The allowance of a limit. *)

(* The newest n of a set of events. *)
LastOf(R, n) == {e \in R : Cardinality({f \in R : f > e}) < n}

LEMMA SetsOfEvents ==
  ASSUME NEW R \in SUBSET Events
  PROVE  IsFiniteSet(R) /\ Cardinality(R) \in Nat /\ \A e \in R : e \in Int
<1>1. IsFiniteSet(Events) /\ \A e \in Events : e \in Int
  BY LastEventAssumption, FS_Interval DEF Events
<1>2. IsFiniteSet(R)
  BY <1>1, FS_Subset
<1> QED BY <1>1, <1>2, FS_CardinalityType

(* A set of events has a newest. *)
LEMMA NewestOf ==
  ASSUME NEW R \in SUBSET Events, R # {}
  PROVE  \E x \in R : \A y \in R : y <= x
<1> DEFINE S == {LastEvent - t : t \in R}
<1>1. \A t \in R : t \in Int /\ LastEvent - t \in Nat
  BY LastEventAssumption DEF Events
<1>2. S \in SUBSET Nat /\ S # {}
  BY <1>1
<1>3. PICK x \in S : \A y \in S : x <= y
  BY <1>2, LeastOf
<1>4. PICK t \in R : x = LastEvent - t
  OBVIOUS
<1>5. \A y \in R : LastEvent - t <= LastEvent - y
  BY <1>3, <1>4
<1> HIDE DEF S
<1>6. \A y \in R : y <= t
  BY <1>1, <1>5, LastEventAssumption
<1> QED BY <1>6

(* What is newer than one of the newest is one of the newest. *)
LEMMA LastIsSuffix ==
  ASSUME NEW R \in SUBSET Events, NEW n \in Nat, NEW x \in LastOf(R, n),
         NEW e \in R, e >= x
  PROVE  e \in LastOf(R, n)
<1> DEFINE newer(y) == {f \in R : f > y}
<1>1. x \in R /\ Cardinality(newer(x)) < n
  BY DEF LastOf
<1>2. \A d \in R : d \in Int
  BY SetsOfEvents
<1>3. \A f \in newer(e) : f \in newer(x)
  BY <1>1, <1>2
<1>4. newer(e) \in SUBSET newer(x) /\ newer(x) \in SUBSET Events /\ newer(e) \in SUBSET Events
  BY <1>3
<1> HIDE DEF newer
<1>5. /\ IsFiniteSet(newer(x)) /\ Cardinality(newer(x)) \in Nat
      /\ Cardinality(newer(e)) \in Nat
  BY <1>4, SetsOfEvents
<1>6. Cardinality(newer(e)) <= Cardinality(newer(x))
  BY <1>4, <1>5, FS_Subset
<1>7. Cardinality(newer(e)) < n
  BY <1>1, <1>5, <1>6
<1> QED BY <1>7 DEF LastOf, newer

(* Where there are not n of them, they are all there are. *)
LEMMA LastAreAll ==
  ASSUME NEW R \in SUBSET Events, NEW n \in Nat, Cardinality(LastOf(R, n)) < n
  PROVE  LastOf(R, n) = R
<1> DEFINE L == LastOf(R, n)
           newer(y) == {f \in R : f > y}
<1> SUFFICES ASSUME R \ L # {} PROVE FALSE
  BY DEF LastOf
<1>1. L \in SUBSET Events /\ R \ L \in SUBSET Events /\ L \subseteq R
  BY DEF LastOf
<1>2. \A y \in R : y \in L <=> Cardinality(newer(y)) < n
  BY DEF LastOf
<1>3. \A y : newer(y) \in SUBSET Events /\ newer(y) \subseteq R
  OBVIOUS
<1>4. \A y : \A f \in newer(y) : f > y
  OBVIOUS
<1> HIDE DEF newer, L
<1>5. /\ IsFiniteSet(L) /\ Cardinality(L) \in Nat
      /\ \A y : Cardinality(newer(y)) \in Nat
  BY <1>1, <1>3, SetsOfEvents
<1>6. PICK y \in R \ L : \A z \in R \ L : z <= y
  BY <1>1, NewestOf
<1>7. \A f \in R : f \in Int
  BY SetsOfEvents
<1>8. newer(y) \in SUBSET L
  <2> SUFFICES ASSUME NEW f \in newer(y), f \notin L PROVE FALSE
    OBVIOUS
  <2>1. f \in R /\ f > y
    BY <1>3, <1>4
  <2>2. f <= y
    BY <1>6, <2>1
  <2> QED BY <1>6, <1>7, <2>1, <2>2
<1>9. Cardinality(newer(y)) >= n
  BY <1>2, <1>5, <1>6
<1>10. Cardinality(newer(y)) <= Cardinality(L)
  BY <1>5, <1>8, FS_Subset
<1>11. Cardinality(L) < n
  BY DEF L
<1> QED BY <1>5, <1>9, <1>10, <1>11

(* A batch of a limit leaves the newest events that the limit allows, all  *)
(* of them newer than what it deletes.                                     *)
LEMMA NewestStay ==
  ASSUME TypeOK, NEW j \in JobRecords, j.mode = "limit", NEW e \in Batch(j)
  PROVE  Cardinality({f \in (stored \ Batch(j)) \ held : f > e}) >= j.keep
<1> DEFINE free == (stored \cap j.covers) \ held
           stay == {f \in (stored \ Batch(j)) \ held : f > e}
<1>1. free \in SUBSET Events /\ stay \in SUBSET Events
  BY DEF TypeOK
<1>2. Newest(j.keep, j) = LastOf(free, j.keep) /\ j.keep \in Nat
  BY DEF Newest, LastOf, JobRecords
<1>3. Batch(j) \subseteq Candidates(j)
  BY BatchOfCandidates
<1>4. Candidates(j) = ((stored \cap j.covers) \ (held \cup Diary)) \ Newest(j.keep, j)
  BY DEF Candidates
<1>5. e \in free /\ e \notin Newest(j.keep, j)
  BY <1>3, <1>4
<1>6. Newest(j.keep, j) \subseteq free /\ Newest(j.keep, j) \cap Batch(j) = {}
  BY <1>3, <1>4 DEF Newest
<1>7. /\ \A f \in free : f \in stored /\ f \notin held
      /\ \A f \in stored : f \notin held /\ f \notin Batch(j) /\ f > e => f \in stay
  OBVIOUS
<1> HIDE DEF free, stay
<1>8. ASSUME NEW f \in Newest(j.keep, j) PROVE f > e
  <2> SUFFICES ASSUME ~ (f > e) PROVE FALSE
    OBVIOUS
  <2>1. f \in free /\ f \in Int /\ e \in Int
    BY <1>1, <1>5, <1>6, SetsOfEvents
  <2>2. e >= f
    BY <2>1
  <2>3. f \in LastOf(free, j.keep)
    BY <1>2
  <2>4. e \in LastOf(free, j.keep)
    BY <1>1, <1>2, <1>5, <2>2, <2>3, LastIsSuffix
  <2> QED BY <1>2, <1>5, <2>4
<1>9. Newest(j.keep, j) \in SUBSET stay
  <2> SUFFICES ASSUME NEW f \in Newest(j.keep, j) PROVE f \in stay
    OBVIOUS
  <2>1. f > e /\ f \in free /\ f \notin Batch(j)
    BY <1>6, <1>8
  <2> QED BY <1>7, <2>1
<1>10. /\ IsFiniteSet(stay) /\ Cardinality(stay) \in Nat
       /\ Cardinality(Newest(j.keep, j)) \in Nat
  <2>1. Newest(j.keep, j) \in SUBSET Events
    BY <1>1, <1>6
  <2> QED BY <1>1, <2>1, SetsOfEvents
<1>11. Cardinality(Newest(j.keep, j)) <= Cardinality(stay)
  BY <1>9, <1>10, FS_Subset
<1>12. ~ (Cardinality(Newest(j.keep, j)) < j.keep)
  BY <1>1, <1>2, <1>5, LastAreAll
<1>13. Cardinality(stay) >= j.keep
  BY <1>2, <1>10, <1>11, <1>12
<1> QED BY <1>13 DEF stay

LEMMA AllowanceStep ==
  PurgeInv /\ [Next]_vars =>
    [\A e \in stored \ stored' :
       CurrentJob.mode = "limit" =>
         Cardinality({f \in stored' \ held : f > e}) >= CurrentJob.keep]_vars
<1> SUFFICES ASSUME PurgeInv, Next, NEW e \in stored \ stored', CurrentJob.mode = "limit"
             PROVE  Cardinality({f \in stored' \ held : f > e}) >= CurrentJob.keep
  OBVIOUS
<1>1. TypeOK /\ Proper(job)
  BY DEF PurgeInv
<1>2. ~ (stored \subseteq stored')
  OBVIOUS
<1>3. PICK k \in Runners : RunBatch(k)
  <2>1. ASSUME NEW s \in Sessions,
               \/ Begin(s) \/ Nest(s) \/ Nested(s) \/ Receive(s) \/ Commit(s) \/ Close(s)
               \/ \E d \in Events : Insert(s, d)
        PROVE  stored \subseteq stored'
    BY <2>1 DEF Begin, Nest, Nested, Receive, Commit, Close, Insert
  <2>2. ASSUME NEW d \in Events, Hold(d) \/ Release(d) PROVE stored \subseteq stored'
    BY <2>2 DEF Hold, Release
  <2>3. ASSUME NEW p \in Limits \cup {Disabled}, SetPolicy(p) PROVE stored \subseteq stored'
    BY <2>3 DEF SetPolicy, stores
  <2>4. ASSUME NEW mode \in {"all", "limit"}, Purge(mode) PROVE stored \subseteq stored'
    BY <2>4 DEF Purge, stores
  <2>5. ASSUME Cancel \/ CooldownEnds \/ HourPasses PROVE stored \subseteq stored'
    BY <2>5 DEF Cancel, CooldownEnds, HourPasses, stores
  <2>6. ASSUME NEW k \in Runners, Settle(k) \/ TimeOut(k) PROVE stored \subseteq stored'
    BY <2>6 DEF Settle, TimeOut, stores
  <2> QED BY <1>2, <2>1, <2>2, <2>3, <2>4, <2>5, <2>6 DEF Next
<1>4. CurrentJob \in JobRecords /\ stored' = stored \ Batch(CurrentJob)
  BY <1>1, <1>2, <1>3, BatchCases
<1>5. e \in Batch(CurrentJob)
  BY <1>4
<1>6. PICK j \in JobRecords : j = CurrentJob
  BY <1>4
<1>7. Cardinality({f \in (stored \ Batch(j)) \ held : f > e}) >= j.keep
  BY <1>1, <1>5, <1>6, NewestStay
<1> QED BY <1>4, <1>6, <1>7

(* A limit deletes an event only while as many newer ones stay as it       *)
(* allows, not counting what audits hold (candidates): also when a batch   *)
(* of many events is deleted at once.                                      *)
THEOREM AllowanceIsKept == Spec => AllowanceKept
<1>1. PurgeInv /\ [Next]_vars =>
        [\A e \in stored \ stored' :
           CurrentJob.mode = "limit" =>
             Cardinality({f \in stored' \ held : f > e}) >= CurrentJob.keep]_vars
  BY AllowanceStep
<1> QED BY <1>1, Invariant, PTL DEF Spec, AllowanceKept
=============================================================================
