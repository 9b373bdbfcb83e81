----------------------------- MODULE AgentChain ------------------------------
(***************************************************************************)
(* Evidence of one agent on its way into KEEN: the agent's durable queue   *)
(* and hash chain, batches that are sent, lost, delayed and sent again,    *)
(* and the API's handler of a batch, which places each envelope in the     *)
(* agent's chain (app/services/ueu_evidence.py, persist_batch in           *)
(* app/services/agents.py).                                                *)
(*                                                                         *)
(* The agent itself is a program outside this repository: it is modelled   *)
(* from what the API and its help pages say of it.  An envelope is named   *)
(* by its place in the agent's chain, and stands for its own hash too.     *)
(* Envelopes are well formed and batches correctly signed (the check of    *)
(* both comes before anything is written).  A new epoch begins when the    *)
(* agent's state directory is cleared.                                     *)
(***************************************************************************)
EXTENDS Integers, FiniteSets

CONSTANTS
  MaxEpoch,   \* bound on how often the agent's state directory is cleared
  MaxSeq,     \* bound on the envelopes of an epoch
  BatchSize,  \* envelopes in a batch
  Lines,      \* the envelopes that are whole log lines (log.line.collected)
  Slots,      \* requests under way at once, the agent's own and abandoned ones
  MaxAbandoned, \* bound on the requests the agent stops waiting for
  None        \* no request

ASSUME MaxEpochAssumption == MaxEpoch \in Nat \ {0}
ASSUME MaxSeqAssumption == MaxSeq \in Nat \ {0}
ASSUME BatchSizeAssumption == BatchSize \in Nat \ {0}
ASSUME MaxAbandonedAssumption == MaxAbandoned \in Nat
ASSUME NoneAssumption == None \notin Slots

Envelopes == [epoch : 1..MaxEpoch, seq : 1..MaxSeq]
Previous(e) == [e EXCEPT !.seq = @ - 1]
NoEnvelope == [epoch |-> 0, seq |-> 0]

ASSUME LinesAssumption == Lines \subseteq Envelopes

Statuses == {"started", "continuous", "broken", "restarted", "gap", "out_of_order"}
Rows == [env : Envelopes, chain : Statuses]

VARIABLES
  epoch,     \* the agent's current chain
  next,      \* the sequence number of its next envelope
  queue,     \* envelopes the agent has not seen acknowledged
  written,   \* history: every envelope it committed to its queue
  discarded, \* history: envelopes it gave up
  request,   \* the request in each slot
  waiting,   \* the slot of the request the agent waits for
  abandoned, \* how often it stopped waiting
  head,      \* ueu_last_sequence and ueu_last_hash of the agent's row
  rows,      \* ueu_evidence
  withheld,  \* history: whole lines KEEN was sent and does not keep
  ceiling,   \* whether evidence_mode_ceiling lets whole lines in
  holder     \* the request that holds the lock on the agent's row

agent == <<epoch, next, queue, written, discarded>>
row == <<head, rows, withheld>>
vars == <<agent, request, waiting, abandoned, row, ceiling, holder>>

Free == [state |-> "free", batch |-> {}, todo |-> {},
         head |-> NoEnvelope, rows |-> {}, withheld |-> {}]

StoredIn(rs) == {r.env : r \in rs}
Stored == StoredIn(rows)
Received == Stored \cup withheld

TypeOK ==
  /\ epoch \in 1..MaxEpoch
  /\ next \in 1..(MaxSeq + 1)
  /\ written \subseteq Envelopes
  /\ queue \subseteq written
  /\ discarded \subseteq written
  /\ request \in [Slots -> [state : {"free", "sent", "open", "answered"},
                            batch : SUBSET Envelopes, todo : SUBSET Envelopes,
                            head : Envelopes \cup {NoEnvelope}, rows : SUBSET Rows,
                            withheld : SUBSET Envelopes]]
  /\ waiting \in Slots \cup {None}
  /\ abandoned \in 0..MaxAbandoned
  /\ head \in Envelopes \cup {NoEnvelope}
  /\ rows \subseteq Rows
  /\ withheld \subseteq Envelopes
  /\ ceiling \in BOOLEAN
  /\ holder \in Slots \cup {None}

Init ==
  /\ epoch = 1
  /\ next = 1
  /\ queue = {}
  /\ written = {}
  /\ discarded = {}
  /\ request = [s \in Slots |-> Free]
  /\ waiting = None
  /\ abandoned = 0
  /\ head = NoEnvelope
  /\ rows = {}
  /\ withheld = {}
  /\ ceiling \in BOOLEAN
  /\ holder = None
-----------------------------------------------------------------------------
(* The agent. *)

NewEnvelope == [epoch |-> epoch, seq |-> next]

(* An envelope is committed to the queue with its place in the chain. *)
Collect ==
  /\ next <= MaxSeq
  /\ queue' = queue \cup {NewEnvelope}
  /\ written' = written \cup {NewEnvelope}
  /\ next' = next + 1
  /\ UNCHANGED <<abandoned, epoch, discarded, request, waiting, row, ceiling, holder>>

(* The n oldest envelopes of the queue. *)
Oldest(n) ==
  {e \in queue : Cardinality({d \in queue : d.seq < e.seq}) < n}

(* Queue expiry gives up the oldest envelopes and writes an envelope,      *)
(* evidence.records.discarded, that covers them.                           *)
Discard ==
  /\ next <= MaxSeq
  /\ NewEnvelope \notin Lines
  /\ \E n \in 1..MaxSeq :
       /\ n <= Cardinality(queue)
       /\ queue' = (queue \ Oldest(n)) \cup {NewEnvelope}
       /\ discarded' = discarded \cup Oldest(n)
  /\ written' = written \cup {NewEnvelope}
  /\ next' = next + 1
  /\ UNCHANGED <<abandoned, epoch, request, waiting, row, ceiling, holder>>

(* The state directory is cleared and a new chain begins. *)
ClearState ==
  /\ epoch < MaxEpoch
  /\ epoch' = epoch + 1
  /\ next' = 1
  /\ discarded' = discarded \cup queue
  /\ queue' = {}
  /\ waiting' = None
  /\ UNCHANGED <<written, request, abandoned, row, ceiling, holder>>

(* The agent sends the head of its queue, again if the last attempt failed. *)
Send(s) ==
  /\ waiting = None
  /\ request[s].state = "free"
  /\ queue # {}
  /\ request' = [request EXCEPT ![s] =
                   [Free EXCEPT !.state = "sent", !.batch = Oldest(BatchSize)]]
  /\ waiting' = s
  /\ UNCHANGED <<abandoned, agent, row, ceiling, holder>>

(* The agent stops waiting, after a timeout or because it was restarted;   *)
(* its request may still arrive.                                           *)
GiveUpWaiting ==
  /\ waiting # None
  /\ abandoned < MaxAbandoned
  /\ abandoned' = abandoned + 1
  /\ waiting' = None
  /\ UNCHANGED <<agent, request, row, ceiling, holder>>

(* What was acknowledged leaves the queue. *)
Acknowledged(s) ==
  /\ waiting = s
  /\ request[s].state = "answered"
  /\ queue' = queue \ request[s].batch
  /\ request' = [request EXCEPT ![s] = Free]
  /\ waiting' = None
  /\ UNCHANGED <<abandoned, epoch, next, written, discarded, row, ceiling, holder>>

(* A request, or its answer, is lost, or answered to nobody. *)
Lost(s) ==
  /\ request[s].state \in {"sent", "answered"}
  /\ request' = [request EXCEPT ![s] = Free]
  /\ waiting' = IF waiting = s THEN None ELSE waiting
  /\ UNCHANGED <<abandoned, agent, row, ceiling, holder>>
-----------------------------------------------------------------------------
(* The API. *)

(* Mutant: the request reads the agent's row without locking it. *)
LockNothing(s) ==
  /\ request[s].state = "sent"
  /\ holder' = s
  /\ request' = [request EXCEPT ![s] =
                   [@ EXCEPT !.state = "open", !.todo = request[s].batch, !.head = head]]
  /\ UNCHANGED <<abandoned, agent, waiting, row, ceiling>>

(* reauthenticate: the request locks the agent's row and reads it. *)
Lock(s) ==
  /\ request[s].state = "sent"
  /\ holder = None
  /\ holder' = s
  /\ request' = [request EXCEPT ![s] =
                   [state |-> "open", batch |-> @.batch, todo |-> @.batch,
                    head |-> head, rows |-> {}, withheld |-> {}]]
  /\ UNCHANGED <<abandoned, agent, waiting, row, ceiling>>

(* ... or is refused (429), because another request of the agent holds it. *)
Busy(s) ==
  /\ request[s].state = "sent"
  /\ holder # None
  /\ request' = [request EXCEPT ![s] = Free]
  /\ waiting' = IF waiting = s THEN None ELSE waiting
  /\ UNCHANGED <<abandoned, agent, row, ceiling, holder>>

(* Mutant: the previous hash is not compared. *)
ChainStatusBySequence(h, e) ==
  CASE h = NoEnvelope -> IF e.seq = 1 THEN "started" ELSE "gap"
    [] h # NoEnvelope /\ e.seq = h.seq + 1 -> "continuous"
    [] h # NoEnvelope /\ e.seq # h.seq + 1 /\ e.seq = 1 -> "restarted"
    [] h # NoEnvelope /\ e.seq > h.seq + 1 /\ e.seq # 1 -> "gap"
    [] OTHER -> "out_of_order"

(* The status of an envelope after the envelope h ... *)
ChainStatus(h, e) ==
  CASE h = NoEnvelope -> IF e.seq = 1 THEN "started" ELSE "gap"
    [] h # NoEnvelope /\ e.seq = h.seq + 1 ->
         IF Previous(e) = h THEN "continuous" ELSE "broken"
    [] h # NoEnvelope /\ e.seq # h.seq + 1 /\ e.seq = 1 -> "restarted"
    [] h # NoEnvelope /\ e.seq > h.seq + 1 /\ e.seq # 1 -> "gap"
    [] OTHER -> "out_of_order"

(* ... and the head of the chain after it. *)
Advance(h, e) == IF ChainStatus(h, e) = "out_of_order" THEN h ELSE e

(* Mutant: the records are taken in the order in which they came. *)
IsAnyOf(todo, e) == e \in todo

(* What is not stored yet, in the order of its sequence numbers. *)
IsNextOf(todo, e) == e \in todo /\ \A d \in todo : e.seq <= d.seq

(* The row of provenance that is stored with the envelope. *)
NewRow(h, e) == [env |-> e, chain |-> ChainStatus(h, e)]

Keeps(e) == ceiling \/ e \notin Lines

(* One turn of persist's loop. *)
PlaceEnvelope(s, e) ==
  LET r == request[s] IN
  /\ r.state = "open"
  /\ IsNextOf(r.todo, e)
  /\ request' = [request EXCEPT ![s] =
       IF e \in StoredIn(rows \cup r.rows) THEN [r EXCEPT !.todo = @ \ {e}]
       ELSE [r EXCEPT !.todo = @ \ {e},
                      !.head = Advance(r.head, e),
                      !.rows = IF Keeps(e)
                               THEN @ \cup {NewRow(r.head, e)}
                               ELSE @,
                      !.withheld = IF Keeps(e) THEN @ ELSE @ \cup {e}]]
  /\ UNCHANGED <<abandoned, agent, waiting, row, ceiling, holder>>

(* One transaction persists the whole request. *)
Commit(s) ==
  LET r == request[s] IN
  /\ r.state = "open"
  /\ r.todo = {}
  /\ head' = r.head
  /\ rows' = rows \cup r.rows
  /\ withheld' = withheld \cup r.withheld
  /\ request' = [request EXCEPT ![s] =
                   [Free EXCEPT !.state = "answered", !.batch = r.batch]]
  /\ holder' = None
  /\ UNCHANGED <<abandoned, agent, waiting, ceiling>>

(* Mutant: a request that fails is acknowledged. *)
AbortAnswered(s) ==
  /\ request[s].state = "open"
  /\ request' = [request EXCEPT ![s] =
                   [Free EXCEPT !.state = "answered", !.batch = request[s].batch]]
  /\ holder' = None
  /\ UNCHANGED <<abandoned, agent, waiting, row, ceiling>>

(* Mutant: a request that fails leaves its transaction, and its lock, open. *)
AbortHolding(s) ==
  /\ request[s].state = "open"
  /\ request' = [request EXCEPT ![s] = Free]
  /\ waiting' = IF waiting = s THEN None ELSE waiting
  /\ UNCHANGED <<abandoned, agent, row, ceiling, holder>>

(* The request fails, or the API stops: nothing of it is kept. *)
Abort(s) ==
  /\ request[s].state = "open"
  /\ request' = [request EXCEPT ![s] = Free]
  /\ holder' = None
  /\ waiting' = IF waiting = s THEN None ELSE waiting
  /\ UNCHANGED <<abandoned, agent, row, ceiling>>

(* set_evidence_policy takes the same lock. *)
SetCeiling ==
  /\ holder = None
  /\ ceiling' \in BOOLEAN \ {ceiling}
  /\ UNCHANGED <<abandoned, agent, request, waiting, row, holder>>

Api(s) ==
  \/ Lock(s) \/ Busy(s) \/ Commit(s) \/ Abort(s)
  \/ \E e \in Envelopes : PlaceEnvelope(s, e)

Next ==
  \/ Collect \/ Discard \/ ClearState \/ GiveUpWaiting \/ SetCeiling
  \/ \E s \in Slots : Send(s) \/ Acknowledged(s) \/ Lost(s) \/ Api(s)

Spec == Init /\ [][Next]_vars

(* A handler goes on to its end, one way or the other.  The network and    *)
(* the handler do not fail every attempt: each step of an attempt that can *)
(* be taken again and again is taken.  The agent tries again for ever, and *)
(* stops giving up attempts that are being handled (MaxAbandoned): its     *)
(* pauses grow.  Nothing is assumed of administrators or of what the agent *)
(* collects or discards.                                                   *)
Handles(s) == Commit(s) \/ Abort(s) \/ \E e \in Envelopes : PlaceEnvelope(s, e)

FairSpec ==
  /\ Spec
  /\ WF_vars(\E s \in Slots : Send(s))
  /\ WF_vars(\E s \in Slots : Handles(s))
  /\ WF_vars(\E s \in Slots : Lost(s) /\ waiting # s)
  /\ SF_vars(\E s \in Slots : Lock(s))
  /\ \A n \in 1..MaxSeq :
       SF_vars(\E s \in Slots, e \in Envelopes : e.seq = n /\ PlaceEnvelope(s, e))
  /\ SF_vars(\E s \in Slots : Commit(s))
  /\ SF_vars(\E s \in Slots : Acknowledged(s))
-----------------------------------------------------------------------------
(* Properties. *)

(* Every envelope the agent committed to its queue is in the queue, was    *)
(* given up by the agent, or is in KEEN, through lost and delayed          *)
(* requests and answers and requests that fail half way.                   *)
NothingLost == written \subseteq queue \cup discarded \cup Received

(* An envelope is stored once, however often and however late a batch with *)
(* it arrives, and whatever else it then arrives with.                     *)
StoredOnce == \A r1, r2 \in rows : r1.env = r2.env => r1 = r2

(* What the event page calls continuous is: KEEN received the envelope     *)
(* before it in the same chain.  So no hole hides in a run of continuous   *)
(* evidence.                                                               *)
ContinuousFollows ==
  \A r \in rows : r.chain = "continuous" =>
    Previous(r.env) \in Received

(* While an agent gives nothing up, keeps its state and sends nothing KEEN *)
(* withholds, no loss, delay, retry or crash leaves a mark in its chain.   *)
Undisturbed == discarded = {} /\ epoch = 1 /\ withheld = {}
UndisturbedChainIsWhole ==
  Undisturbed =>
    \A r \in rows : r.chain = IF r.env.seq = 1 THEN "started" ELSE "continuous"

(* A batch whose envelopes are all stored changes nothing when it arrives  *)
(* again: neither the agent's place in its chain nor a row.                *)
StoredBatchChangesNothing ==
  [][\A s \in Slots :
       Commit(s) /\ request[s].batch \subseteq Stored => UNCHANGED row]_vars

(* The delivery implements the log that EvidenceLog describes: nothing     *)
(* leaves the agent's queue before KEEN has it or the agent gives it up,   *)
(* and no failure or late request takes back what KEEN has.                *)
Log == INSTANCE EvidenceLog
         WITH pending <- queue, dropped <- discarded, kept <- Received

ImplementsLog == Log!SafeSpec

(* An envelope does not stay in the queue for ever: it is acknowledged, or *)
(* the agent gives it up.                                                  *)
QueueDrains == Log!Settled
=============================================================================
