--------------------------- MODULE AgentChain_proofs ---------------------------
(***************************************************************************)
(* Proofs about AgentChain, for every number of requests, envelopes, lost  *)
(* state directories and abandoned attempts.                               *)
(*                                                                         *)
(* The inductive invariant says of each request what the lock on the       *)
(* agent's row protects while its transaction is open: what it has placed  *)
(* is new, comes from its batch and has what it follows from, and its head *)
(* of the chain is the row's as long as it has placed nothing.             *)
(*                                                                         *)
(* A second invariant, ChainInv, holds while the chain is undisturbed: the *)
(* stored envelopes are those up to the head, with what a request has      *)
(* placed those up to its own head, and a batch leaves no gap between what *)
(* is stored and its envelopes.                                            *)
(***************************************************************************)
EXTENDS AgentChain, FiniteSetTheorems, TLAPS

(* What the open transaction of a request has taken in so far. *)
Placed(s) == StoredIn(request[s].rows) \cup request[s].withheld

(* While a request's transaction is open. *)
OpenInv(s) ==
  /\ request[s].todo \subseteq request[s].batch
  /\ Placed(s) \subseteq request[s].batch
  /\ request[s].batch \subseteq request[s].todo \cup Received \cup Placed(s)
  /\ Placed(s) \cap Stored = {}
  /\ \A x, y \in request[s].rows : x.env = y.env => x = y
  /\ request[s].head \in Received \cup Placed(s) \cup {NoEnvelope}
  /\ \A x \in request[s].rows :
       x.chain = "continuous" => Previous(x.env) \in Received \cup Placed(s)
  /\ Placed(s) = {} => request[s].head = head

RequestInv(s) ==
  /\ request[s].state = "open" <=> holder = s
  /\ request[s].batch \subseteq written
  /\ request[s].state = "answered" => request[s].batch \subseteq Received
  /\ request[s].state = "open" => OpenInv(s)

(* An envelope is written once, in the order of the chains. *)
WrittenBefore == \A e \in written : e.epoch < epoch \/ (e.epoch = epoch /\ e.seq < next)

LogInv ==
  /\ Received \subseteq written
  /\ WrittenBefore
  /\ head \in Received \cup {NoEnvelope}

IInv ==
  /\ TypeOK
  /\ \A s \in Slots : RequestInv(s)
  /\ LogInv
  /\ NothingLost
  /\ StoredOnce
  /\ ContinuousFollows
-----------------------------------------------------------------------------
(* Operators. *)

LEMMA StoredInUnion ==
  ASSUME NEW A, NEW B
  PROVE  StoredIn(A \cup B) = StoredIn(A) \cup StoredIn(B)
BY DEF StoredIn

LEMMA StoredInAdd ==
  ASSUME NEW A, NEW h, NEW e
  PROVE  StoredIn(A \cup {NewRow(h, e)}) = StoredIn(A) \cup {e}
<1>1. NewRow(h, e).env = e
  BY DEF NewRow
<1>2. StoredIn({NewRow(h, e)}) = {e}
  BY <1>1 DEF StoredIn
<1> QED BY <1>2, StoredInUnion

LEMMA StoredInEmpty == StoredIn({}) = {}
BY DEF StoredIn

LEMMA StoredInType ==
  ASSUME NEW A \in SUBSET Rows
  PROVE  StoredIn(A) \subseteq Envelopes
BY DEF StoredIn, Rows

LEMMA OldestQueued ==
  ASSUME NEW n
  PROVE  Oldest(n) \subseteq queue
BY DEF Oldest

LEMMA NoEnvelopeIsNone == NoEnvelope \notin Envelopes
BY DEF NoEnvelope, Envelopes

(* The status of an envelope, and when it is "continuous". *)
LEMMA StatusType ==
  ASSUME NEW h \in Envelopes \cup {NoEnvelope}, NEW e \in Envelopes
  PROVE  ChainStatus(h, e) \in Statuses
<1>1. CASE h = NoEnvelope
  BY <1>1 DEF ChainStatus, Statuses
<1>2. CASE h # NoEnvelope /\ e.seq = h.seq + 1
  BY <1>2 DEF ChainStatus, Statuses
<1>3. CASE h # NoEnvelope /\ e.seq # h.seq + 1
  BY <1>3 DEF ChainStatus, Statuses
<1> QED BY <1>1, <1>2, <1>3

LEMMA ContinuousStatus ==
  ASSUME NEW h \in Envelopes \cup {NoEnvelope}, NEW e \in Envelopes,
         ChainStatus(h, e) = "continuous"
  PROVE  h # NoEnvelope /\ Previous(e) = h
<1>1. CASE h = NoEnvelope
  BY <1>1 DEF ChainStatus
<1>2. CASE h # NoEnvelope /\ e.seq = h.seq + 1
  BY <1>2 DEF ChainStatus
<1>3. CASE h # NoEnvelope /\ e.seq # h.seq + 1
  BY <1>3 DEF ChainStatus
<1> QED BY <1>1, <1>2, <1>3

LEMMA AdvanceTo ==
  ASSUME NEW h, NEW e
  PROVE  Advance(h, e) \in {h, e}
BY DEF Advance
-----------------------------------------------------------------------------
(* Types. *)

Requests == [state : {"free", "sent", "open", "answered"},
             batch : SUBSET Envelopes, todo : SUBSET Envelopes,
             head : Envelopes \cup {NoEnvelope}, rows : SUBSET Rows,
             withheld : SUBSET Envelopes]

LEMMA FreeType == Free \in Requests
BY DEF Free, Requests

LEMMA NewEnvelopeType ==
  ASSUME TypeOK, next <= MaxSeq
  PROVE  NewEnvelope \in Envelopes
BY MaxSeqAssumption, MaxEpochAssumption DEF TypeOK, NewEnvelope, Envelopes

(* The request a step leaves in the slot it acts on; every other slot is   *)
(* as it was.                                                              *)
LEMMA RequestUpdate ==
  ASSUME TypeOK, NEW s \in Slots, NEW r \in Requests,
         request' = [request EXCEPT ![s] = r]
  PROVE  /\ request' \in [Slots -> Requests]
         /\ request'[s] = r
         /\ \A q \in Slots \ {s} : request'[q] = request[q]
BY DEF TypeOK, Requests

LEMMA RequestType ==
  ASSUME TypeOK, NEW s \in Slots
  PROVE  /\ request[s] \in Requests
         /\ request[s].state \in {"free", "sent", "open", "answered"}
         /\ request[s].batch \in SUBSET Envelopes
         /\ request[s].todo \in SUBSET Envelopes
         /\ request[s].head \in Envelopes \cup {NoEnvelope}
         /\ request[s].rows \in SUBSET Rows
         /\ request[s].withheld \in SUBSET Envelopes
BY DEF TypeOK, Requests

(* What each step that changes a request leaves in its slot. *)
SentRequest == [Free EXCEPT !.state = "sent", !.batch = Oldest(BatchSize)]
OpenedRequest(s) == [state |-> "open", batch |-> request[s].batch, todo |-> request[s].batch,
                     head |-> head, rows |-> {}, withheld |-> {}]
AnsweredRequest(s) == [Free EXCEPT !.state = "answered", !.batch = request[s].batch]
PassedRequest(s, e) == [request[s] EXCEPT !.todo = @ \ {e}]
PlacedRequest(s, e) ==
  [request[s] EXCEPT !.todo = @ \ {e},
                     !.head = Advance(request[s].head, e),
                     !.rows = IF Keeps(e) THEN @ \cup {NewRow(request[s].head, e)} ELSE @,
                     !.withheld = IF Keeps(e) THEN @ ELSE @ \cup {e}]

LEMMA SentFields ==
  ASSUME TypeOK
  PROVE  /\ SentRequest \in Requests
         /\ SentRequest.state = "sent" /\ SentRequest.batch = Oldest(BatchSize)
BY OldestQueued DEF SentRequest, Free, Requests, TypeOK

LEMMA OpenedFields ==
  ASSUME TypeOK, NEW s \in Slots
  PROVE  OpenedRequest(s) \in Requests
BY RequestType DEF OpenedRequest, Requests, TypeOK

LEMMA AnsweredFields ==
  ASSUME TypeOK, NEW s \in Slots
  PROVE  /\ AnsweredRequest(s) \in Requests
         /\ AnsweredRequest(s).state = "answered"
         /\ AnsweredRequest(s).batch = request[s].batch
BY RequestType DEF AnsweredRequest, Free, Requests

LEMMA PassedFields ==
  ASSUME TypeOK, NEW s \in Slots, NEW e \in Envelopes
  PROVE  /\ PassedRequest(s, e) \in Requests
         /\ PassedRequest(s, e).state = request[s].state
         /\ PassedRequest(s, e).batch = request[s].batch
         /\ PassedRequest(s, e).todo = request[s].todo \ {e}
         /\ PassedRequest(s, e).head = request[s].head
         /\ PassedRequest(s, e).rows = request[s].rows
         /\ PassedRequest(s, e).withheld = request[s].withheld
BY RequestType DEF PassedRequest, Requests

LEMMA PlacedFields ==
  ASSUME TypeOK, NEW s \in Slots, NEW e \in Envelopes
  PROVE  /\ PlacedRequest(s, e) \in Requests
         /\ PlacedRequest(s, e).state = request[s].state
         /\ PlacedRequest(s, e).batch = request[s].batch
         /\ PlacedRequest(s, e).todo = request[s].todo \ {e}
         /\ PlacedRequest(s, e).head = Advance(request[s].head, e)
         /\ PlacedRequest(s, e).rows =
              IF Keeps(e) THEN request[s].rows \cup {NewRow(request[s].head, e)}
              ELSE request[s].rows
         /\ PlacedRequest(s, e).withheld =
              IF Keeps(e) THEN request[s].withheld ELSE request[s].withheld \cup {e}
<1> DEFINE h == request[s].head
           rs == IF Keeps(e) THEN request[s].rows \cup {NewRow(h, e)} ELSE request[s].rows
           ws == IF Keeps(e) THEN request[s].withheld ELSE request[s].withheld \cup {e}
<1>1. h \in Envelopes \cup {NoEnvelope}
  BY RequestType
<1>2. NewRow(h, e) \in Rows
  <2>1. ChainStatus(h, e) \in Statuses
    BY <1>1, StatusType
  <2> HIDE DEF h
  <2> QED BY <2>1 DEF NewRow, Rows
<1>3. Advance(h, e) \in Envelopes \cup {NoEnvelope}
  BY <1>1, AdvanceTo
<1>4. rs \in SUBSET Rows
  BY <1>2, RequestType
<1>5. ws \in SUBSET Envelopes
  BY RequestType
<1>6. PlacedRequest(s, e) =
        [request[s] EXCEPT !.todo = request[s].todo \ {e}, !.head = Advance(h, e),
                           !.rows = rs, !.withheld = ws]
  BY RequestType DEF PlacedRequest, Requests
<1> HIDE DEF h, rs, ws
<1>7. request[s] \in Requests
  BY RequestType
<1>8. PlacedRequest(s, e) =
        [state |-> request[s].state, batch |-> request[s].batch,
         todo |-> request[s].todo \ {e}, head |-> Advance(h, e), rows |-> rs, withheld |-> ws]
  BY <1>6, <1>7 DEF Requests
<1>9. PlacedRequest(s, e) \in Requests
  BY <1>3, <1>4, <1>5, <1>7, <1>8 DEF Requests
<1>10. /\ PlacedRequest(s, e).state = request[s].state
       /\ PlacedRequest(s, e).batch = request[s].batch
       /\ PlacedRequest(s, e).todo = request[s].todo \ {e}
       /\ PlacedRequest(s, e).head = Advance(h, e)
       /\ PlacedRequest(s, e).rows = rs
       /\ PlacedRequest(s, e).withheld = ws
  BY <1>8
<1> QED BY <1>9, <1>10 DEF h, rs, ws
-----------------------------------------------------------------------------
(* What the API's steps do to the request they act on. *)

LEMMA PlaceCases ==
  ASSUME TypeOK, NEW s \in Slots, NEW e \in Envelopes, PlaceEnvelope(s, e)
  PROVE  /\ request[s].state = "open" /\ e \in request[s].todo
         /\ UNCHANGED <<abandoned, agent, waiting, row, ceiling, holder>>
         /\ \/ /\ e \in Stored \cup StoredIn(request[s].rows)
               /\ request' = [request EXCEPT ![s] = PassedRequest(s, e)]
            \/ /\ e \notin Stored \cup StoredIn(request[s].rows)
               /\ request' = [request EXCEPT ![s] = PlacedRequest(s, e)]
<1>1. StoredIn(rows \cup request[s].rows) = Stored \cup StoredIn(request[s].rows)
  BY StoredInUnion DEF Stored
<1>2. request[s].state = "open" /\ e \in request[s].todo
  BY DEF PlaceEnvelope, IsNextOf
<1>3. CASE e \in StoredIn(rows \cup request[s].rows)
  <2>1. request' = [request EXCEPT ![s] = PassedRequest(s, e)]
    BY <1>3 DEF PlaceEnvelope, PassedRequest
  <2> QED BY <1>1, <1>2, <1>3, <2>1 DEF PlaceEnvelope
<1>4. CASE e \notin StoredIn(rows \cup request[s].rows)
  <2>1. request' = [request EXCEPT ![s] = PlacedRequest(s, e)]
    BY <1>4 DEF PlaceEnvelope, PlacedRequest
  <2> QED BY <1>1, <1>2, <1>4, <2>1 DEF PlaceEnvelope
<1> QED BY <1>3, <1>4

LEMMA CommitEffect ==
  ASSUME TypeOK, NEW s \in Slots, Commit(s)
  PROVE  /\ request[s].state = "open" /\ request[s].todo = {}
         /\ request' = [request EXCEPT ![s] = AnsweredRequest(s)]
         /\ head' = request[s].head
         /\ rows' = rows \cup request[s].rows
         /\ Stored' = Stored \cup StoredIn(request[s].rows)
         /\ withheld' = withheld \cup request[s].withheld
         /\ Received' = Received \cup Placed(s)
         /\ holder' = None
         /\ UNCHANGED <<abandoned, agent, waiting, ceiling>>
<1>1. /\ request[s].state = "open" /\ request[s].todo = {}
      /\ head' = request[s].head
      /\ rows' = rows \cup request[s].rows
      /\ withheld' = withheld \cup request[s].withheld
      /\ holder' = None
      /\ UNCHANGED <<abandoned, agent, waiting, ceiling>>
  BY DEF Commit
<1>2. request' = [request EXCEPT ![s] = AnsweredRequest(s)]
  BY DEF Commit, AnsweredRequest
<1>3. Stored' = Stored \cup StoredIn(request[s].rows)
  <2>1. Stored' = StoredIn(rows \cup request[s].rows)
    BY <1>1 DEF Stored, StoredIn
  <2> QED BY <2>1, StoredInUnion DEF Stored
<1>4. Received' = Received \cup Placed(s)
  BY <1>1, <1>3 DEF Received, Placed
<1> QED BY <1>1, <1>2, <1>3, <1>4

(* A step that frees a slot. *)
LEMMA FreedSlot ==
  ASSUME TypeOK, NEW s \in Slots, request' = [request EXCEPT ![s] = Free]
  PROVE  /\ request' \in [Slots -> Requests]
         /\ request'[s].state = "free" /\ request'[s].batch = {}
         /\ \A q \in Slots \ {s} : request'[q] = request[q]
BY FreeType, RequestUpdate DEF Free

(* Every variable keeps its type. *)
LEMMA TypeStep ==
  ASSUME TypeOK, [Next]_vars
  PROVE  TypeOK'
<1> USE DEF agent, row
<1>0. request \in [Slots -> Requests]
  BY DEF TypeOK, Requests
<1>1. CASE Collect
  BY <1>1, NewEnvelopeType, MaxSeqAssumption DEF TypeOK, Collect
<1>2. CASE Discard
  <2>1. PICK n \in 1..MaxSeq :
          /\ queue' = (queue \ Oldest(n)) \cup {NewEnvelope}
          /\ discarded' = discarded \cup Oldest(n)
    BY <1>2 DEF Discard
  <2>2. Oldest(n) \subseteq queue
    BY OldestQueued
  <2> QED BY <1>2, <2>1, <2>2, NewEnvelopeType, MaxSeqAssumption DEF TypeOK, Discard
<1>3. CASE ClearState
  BY <1>3, MaxEpochAssumption, MaxSeqAssumption DEF TypeOK, ClearState
<1>4. CASE GiveUpWaiting
  BY <1>4, MaxAbandonedAssumption DEF TypeOK, GiveUpWaiting
<1>5. CASE SetCeiling
  BY <1>5 DEF TypeOK, SetCeiling
<1>6. ASSUME NEW s \in Slots, Send(s) PROVE TypeOK'
  <2>1. request' \in [Slots -> Requests]
    BY <1>6, SentFields, RequestUpdate DEF Send, SentRequest
  <2> QED BY <1>6, <2>1 DEF TypeOK, Send, Requests
<1>7. ASSUME NEW s \in Slots, Acknowledged(s) PROVE TypeOK'
  BY <1>7, FreedSlot DEF TypeOK, Acknowledged, Requests
<1>8. ASSUME NEW s \in Slots, Lost(s) PROVE TypeOK'
  BY <1>8, FreedSlot DEF TypeOK, Lost, Requests
<1>9. ASSUME NEW s \in Slots, Lock(s) PROVE TypeOK'
  <2>1. request' \in [Slots -> Requests]
    BY <1>9, OpenedFields, RequestUpdate DEF Lock, OpenedRequest
  <2> QED BY <1>9, <2>1 DEF TypeOK, Lock, Requests
<1>10. ASSUME NEW s \in Slots, Busy(s) PROVE TypeOK'
  BY <1>10, FreedSlot DEF TypeOK, Busy, Requests
<1>11. ASSUME NEW s \in Slots, Commit(s) PROVE TypeOK'
  <2>1. request' \in [Slots -> Requests]
    BY <1>11, CommitEffect, AnsweredFields, RequestUpdate
  <2>2. /\ head' \in Envelopes \cup {NoEnvelope}
        /\ rows' \subseteq Rows
        /\ withheld' \subseteq Envelopes
    BY <1>11, CommitEffect, RequestType DEF TypeOK
  <2> QED BY <1>11, <2>1, <2>2, CommitEffect DEF TypeOK, Requests
<1>12. ASSUME NEW s \in Slots, Abort(s) PROVE TypeOK'
  BY <1>12, FreedSlot DEF TypeOK, Abort, Requests
<1>13. ASSUME NEW s \in Slots, NEW e \in Envelopes, PlaceEnvelope(s, e) PROVE TypeOK'
  <2>0. \/ request' = [request EXCEPT ![s] = PassedRequest(s, e)]
        \/ request' = [request EXCEPT ![s] = PlacedRequest(s, e)]
    BY <1>13, PlaceCases
  <2>1. request' \in [Slots -> Requests]
    BY <2>0, PassedFields, PlacedFields, RequestUpdate
  <2> QED BY <1>13, <2>1, PlaceCases DEF TypeOK, Requests
<1>14. CASE UNCHANGED vars
  BY <1>14 DEF TypeOK, vars
<1> QED
  BY <1>1, <1>2, <1>3, <1>4, <1>5, <1>6, <1>7, <1>8, <1>9, <1>10, <1>11, <1>12, <1>13,
     <1>14 DEF Next, Api
-----------------------------------------------------------------------------
(* What holds of a request, step by step. *)

(* A request a step does not touch, while the rows stay. *)
LEMMA RequestKept ==
  ASSUME NEW q \in Slots, RequestInv(q),
         request'[q] = request[q], UNCHANGED row, written \subseteq written',
         holder' = q <=> holder = q
  PROVE  RequestInv(q)'
<1>1. Stored' = Stored /\ Received' = Received /\ head' = head
  BY DEF row, Received, Stored, StoredIn
<1>2. Placed(q)' = Placed(q)
  BY DEF Placed, StoredIn
<1>3. OpenInv(q) => OpenInv(q)'
  BY <1>1, <1>2 DEF OpenInv
<1>4. request[q].state = "open" <=> holder = q
  BY DEF RequestInv
<1>5. request'[q].state = "open" <=> holder' = q
  BY <1>4
<1>6. request[q].batch \subseteq written'
  BY DEF RequestInv
<1> QED BY <1>1, <1>3, <1>5, <1>6 DEF RequestInv

(* A request whose transaction is not open, while KEEN receives more. *)
LEMMA RequestWaits ==
  ASSUME NEW q \in Slots, RequestInv(q),
         request'[q] = request[q], request[q].state # "open", holder' # q,
         written \subseteq written', Received \subseteq Received'
  PROVE  RequestInv(q)'
<1>1. request'[q].batch \subseteq written'
  BY DEF RequestInv
<1>2. request'[q].state = "answered" => request'[q].batch \subseteq Received'
  BY DEF RequestInv
<1> QED BY <1>1, <1>2 DEF RequestInv

(* A slot a step leaves without an open transaction. *)
LEMMA RequestClosed ==
  ASSUME NEW s \in Slots, request'[s].state # "open", holder' # s,
         request'[s].batch \subseteq written',
         request'[s].state = "answered" => request'[s].batch \subseteq Received'
  PROVE  RequestInv(s)'
BY DEF RequestInv

LEMMA LockOpens ==
  ASSUME TypeOK, LogInv, NEW s \in Slots, RequestInv(s), Lock(s)
  PROVE  RequestInv(s)'
<1>1. /\ request' = [request EXCEPT ![s] = OpenedRequest(s)]
      /\ holder' = s /\ UNCHANGED row /\ UNCHANGED written
  BY DEF Lock, OpenedRequest, agent
<1>2. request'[s] = OpenedRequest(s)
  BY <1>1, OpenedFields, RequestUpdate
<1>3. /\ request'[s].state = "open"
      /\ request'[s].batch = request[s].batch
      /\ request'[s].todo = request[s].batch
      /\ request'[s].head = head
      /\ request'[s].rows = {}
      /\ request'[s].withheld = {}
  BY <1>2 DEF OpenedRequest
<1>4. Placed(s)' = {}
  BY <1>3 DEF Placed, StoredIn
<1>5. Stored' = Stored /\ Received' = Received /\ head' = head
  BY <1>1 DEF row, Received, Stored, StoredIn
<1>6. head \in Received \cup {NoEnvelope}
  BY DEF LogInv
<1>7. OpenInv(s)'
  BY <1>3, <1>4, <1>5, <1>6 DEF OpenInv
<1>8. request'[s].batch \subseteq written'
  BY <1>1, <1>3 DEF RequestInv
<1> QED BY <1>1, <1>3, <1>7, <1>8 DEF RequestInv

(* A duplicate is passed over. *)
LEMMA PassKeeps ==
  ASSUME TypeOK, NEW s \in Slots, NEW e \in Envelopes, OpenInv(s),
         e \in Stored \cup StoredIn(request[s].rows),
         request' = [request EXCEPT ![s] = PassedRequest(s, e)], UNCHANGED row
  PROVE  OpenInv(s)'
<1>1. request'[s] = PassedRequest(s, e)
  BY PassedFields, RequestUpdate
<1>2. /\ request'[s].batch = request[s].batch
      /\ request'[s].todo = request[s].todo \ {e}
      /\ request'[s].head = request[s].head
      /\ request'[s].rows = request[s].rows
      /\ request'[s].withheld = request[s].withheld
  BY <1>1, PassedFields
<1>3. Stored' = Stored /\ Received' = Received /\ head' = head
  BY DEF row, Received, Stored, StoredIn
<1>4. Placed(s)' = Placed(s)
  BY <1>2 DEF Placed, StoredIn
<1>5. e \in Received \cup Placed(s)
  BY DEF Received, Placed
<1>6. request'[s].batch \subseteq request'[s].todo \cup Received' \cup Placed(s)'
  BY <1>2, <1>3, <1>4, <1>5 DEF OpenInv
<1> QED BY <1>2, <1>3, <1>4, <1>6 DEF OpenInv

(* An envelope is placed in the chain. *)
LEMMA PlaceKeeps ==
  ASSUME TypeOK, NEW s \in Slots, NEW e \in Envelopes, OpenInv(s),
         e \in request[s].todo,
         e \notin Stored \cup StoredIn(request[s].rows),
         request' = [request EXCEPT ![s] = PlacedRequest(s, e)], UNCHANGED row
  PROVE  OpenInv(s)'
<1> DEFINE h == request[s].head
           row1 == NewRow(h, e)
<1>1. request'[s] = PlacedRequest(s, e)
  BY PlacedFields, RequestUpdate
<1>2. /\ request'[s].batch = request[s].batch
      /\ request'[s].todo = request[s].todo \ {e}
      /\ request'[s].head = Advance(h, e)
      /\ request'[s].rows =
           IF Keeps(e) THEN request[s].rows \cup {row1} ELSE request[s].rows
      /\ request'[s].withheld =
           IF Keeps(e) THEN request[s].withheld ELSE request[s].withheld \cup {e}
  BY <1>1, PlacedFields
<1>3. Stored' = Stored /\ Received' = Received /\ head' = head
  BY DEF row, Received, Stored, StoredIn
<1>4. h \in Envelopes \cup {NoEnvelope}
  BY RequestType
<1>5. row1.env = e /\ row1.chain = ChainStatus(h, e)
  BY DEF NewRow
<1>6. h \in Received \cup Placed(s) \cup {NoEnvelope}
  BY DEF OpenInv
<1> HIDE DEF h
<1>7. ASSUME row1.chain = "continuous"
      PROVE  Previous(row1.env) \in Received \cup Placed(s)
  <2> HIDE DEF row1
  <2>1. ChainStatus(h, e) = "continuous"
    BY <1>5, <1>7
  <2>2. h # NoEnvelope /\ Previous(e) = h
    BY <1>4, <2>1, ContinuousStatus
  <2>3. Previous(row1.env) = h
    BY <1>5, <2>2
  <2> QED BY <1>6, <2>2, <2>3
<1>8. Advance(h, e) \in {h, e}
  BY AdvanceTo
<1>9. Placed(s)' = Placed(s) \cup {e}
  <2>1. Placed(s)' = StoredIn(request'[s].rows) \cup request'[s].withheld
    BY DEF Placed, StoredIn
  <2>2. CASE Keeps(e)
    <3>1. StoredIn(request'[s].rows) = StoredIn(request[s].rows) \cup {e}
      BY <1>2, <2>2, StoredInAdd
    <3> QED BY <1>2, <2>1, <2>2, <3>1 DEF Placed
  <2>3. CASE ~Keeps(e)
    BY <1>2, <2>1, <2>3 DEF Placed
  <2> QED BY <2>2, <2>3
<1>10. \A x \in request'[s].rows : x \in request[s].rows \/ x = row1
  BY <1>2
<1> HIDE DEF row1
<1>11. \A x \in request[s].rows : x.env # e
  BY DEF StoredIn
<1>12. /\ request'[s].todo \subseteq request'[s].batch
       /\ Placed(s)' \subseteq request'[s].batch
       /\ request'[s].batch \subseteq request'[s].todo \cup Received' \cup Placed(s)'
       /\ Placed(s)' \cap Stored' = {}
  BY <1>2, <1>3, <1>9 DEF OpenInv
<1>13. \A x, y \in request'[s].rows : x.env = y.env => x = y
  <2>1. \A x, y \in request[s].rows : x.env = y.env => x = y
    BY DEF OpenInv
  <2> QED BY <1>5, <1>10, <1>11, <2>1
<1>14. request'[s].head \in Received' \cup Placed(s)' \cup {NoEnvelope}
  BY <1>2, <1>3, <1>6, <1>8, <1>9
<1>15. \A x \in request'[s].rows :
         x.chain = "continuous" => Previous(x.env) \in Received' \cup Placed(s)'
  <2>1. \A x \in request[s].rows :
          x.chain = "continuous" => Previous(x.env) \in Received \cup Placed(s)
    BY DEF OpenInv
  <2> QED BY <1>3, <1>7, <1>9, <1>10, <2>1
<1>16. Placed(s)' # {}
  BY <1>9
<1> QED BY <1>12, <1>13, <1>14, <1>15, <1>16 DEF OpenInv

(* Every step keeps the invariant of every request. *)
LEMMA RequestStep ==
  ASSUME TypeOK, LogInv, \A q \in Slots : RequestInv(q), [Next]_vars
  PROVE  \A q \in Slots : RequestInv(q)'
<1> SUFFICES ASSUME NEW q \in Slots PROVE RequestInv(q)'
  OBVIOUS
<1> USE DEF agent
<1>0. RequestInv(q)
  OBVIOUS
<1>1. CASE Collect
  BY <1>0, <1>1, RequestKept DEF Collect
<1>2. CASE Discard
  BY <1>0, <1>2, RequestKept DEF Discard
<1>3. CASE ClearState
  BY <1>0, <1>3, RequestKept DEF ClearState
<1>4. CASE GiveUpWaiting
  BY <1>0, <1>4, RequestKept DEF GiveUpWaiting
<1>5. CASE SetCeiling
  BY <1>0, <1>5, RequestKept DEF SetCeiling
<1>6. ASSUME NEW s \in Slots, Send(s) PROVE RequestInv(q)'
  <2>1. request' = [request EXCEPT ![s] = SentRequest]
    BY <1>6 DEF Send, SentRequest
  <2>2. UNCHANGED row /\ written' = written /\ holder' = holder /\ request[s].state = "free"
    BY <1>6 DEF Send
  <2>3. CASE q # s
    BY <1>0, <2>1, <2>2, <2>3, SentFields, RequestUpdate, RequestKept
  <2>4. CASE q = s
    <3>1. request'[s] = SentRequest
      BY <2>1, SentFields, RequestUpdate
    <3>2. request'[s].state = "sent" /\ request'[s].batch \subseteq queue
      BY <3>1, SentFields, OldestQueued
    <3>3. queue \subseteq written
      BY DEF TypeOK
    <3>4. holder # s
      BY <2>2 DEF RequestInv
    <3> QED BY <2>2, <2>4, <3>2, <3>3, <3>4, RequestClosed
  <2> QED BY <2>3, <2>4
<1>7. ASSUME NEW s \in Slots, request' = [request EXCEPT ![s] = Free], UNCHANGED row,
             written' = written, holder' # s, \A p \in Slots \ {s} : holder' = p <=> holder = p
      PROVE  RequestInv(q)'
  <2>1. CASE q # s
    BY <1>0, <1>7, <2>1, FreedSlot, RequestKept
  <2>2. CASE q = s
    <3>1. request'[s].state = "free" /\ request'[s].batch = {}
      BY <1>7, FreedSlot
    <3> QED BY <1>7, <2>2, <3>1, RequestClosed
  <2> QED BY <2>1, <2>2
<1>8. ASSUME NEW s \in Slots, Acknowledged(s) PROVE RequestInv(q)'
  <2>1. holder # s
    BY <1>8 DEF Acknowledged, RequestInv
  <2> QED BY <1>7, <1>8, <2>1 DEF Acknowledged
<1>9. ASSUME NEW s \in Slots, Lost(s) PROVE RequestInv(q)'
  <2>1. holder # s
    BY <1>9 DEF Lost, RequestInv
  <2> QED BY <1>7, <1>9, <2>1 DEF Lost
<1>10. ASSUME NEW s \in Slots, Busy(s) PROVE RequestInv(q)'
  <2>1. holder # s
    BY <1>10 DEF Busy, RequestInv
  <2> QED BY <1>7, <1>10, <2>1 DEF Busy
<1>11. ASSUME NEW s \in Slots, Abort(s) PROVE RequestInv(q)'
  <2>1. holder = s
    BY <1>11 DEF Abort, RequestInv
  <2>2. holder' # s /\ \A p \in Slots \ {s} : holder' = p <=> holder = p
    BY <1>11, <2>1, NoneAssumption DEF Abort
  <2> QED BY <1>7, <1>11, <2>2 DEF Abort
<1>12. ASSUME NEW s \in Slots, Lock(s) PROVE RequestInv(q)'
  <2>1. CASE q = s
    BY <1>0, <1>12, <2>1, LockOpens
  <2>2. CASE q # s
    <3>1. request' = [request EXCEPT ![s] = OpenedRequest(s)]
      BY <1>12 DEF Lock, OpenedRequest
    <3>2. request'[q] = request[q]
      BY <2>2, <3>1, OpenedFields, RequestUpdate
    <3>3. holder = None /\ holder' = s
      BY <1>12 DEF Lock
    <3> QED BY <1>0, <1>12, <2>2, <3>2, <3>3, NoneAssumption, RequestKept DEF Lock
  <2> QED BY <2>1, <2>2
<1>13. ASSUME NEW s \in Slots, Commit(s) PROVE RequestInv(q)'
  <2>1. request' = [request EXCEPT ![s] = AnsweredRequest(s)]
    BY <1>13, CommitEffect
  <2>2. holder' = None /\ holder' # q /\ written' = written
    BY <1>13, CommitEffect, NoneAssumption
  <2>3. Received' = Received \cup Placed(s)
    BY <1>13, CommitEffect
  <2>4. holder = s /\ OpenInv(s) /\ request[s].batch \subseteq written
    BY <1>13, CommitEffect DEF RequestInv
  <2>5. CASE q # s
    <3>1. request'[q] = request[q]
      BY <2>1, <2>5, AnsweredFields, RequestUpdate
    <3>2. request[q].state # "open"
      BY <1>0, <2>4, <2>5 DEF RequestInv
    <3> QED BY <1>0, <2>2, <2>3, <3>1, <3>2, RequestWaits
  <2>6. CASE q = s
    <3>1. request'[s].state = "answered" /\ request'[s].batch = request[s].batch
      BY <2>1, AnsweredFields, RequestUpdate
    <3>2. request[s].batch \subseteq Received \cup Placed(s)
      BY <1>13, <2>4, CommitEffect DEF OpenInv
    <3> QED BY <2>2, <2>3, <2>4, <2>6, <3>1, <3>2, RequestClosed
  <2> QED BY <2>5, <2>6
<1>14. ASSUME NEW s \in Slots, NEW e \in Envelopes, PlaceEnvelope(s, e) PROVE RequestInv(q)'
  <2>1. /\ request[s].state = "open" /\ e \in request[s].todo
        /\ UNCHANGED row /\ written' = written /\ holder' = holder
    BY <1>14, PlaceCases
  <2>2. OpenInv(s) /\ holder = s /\ request[s].batch \subseteq written
    BY <2>1 DEF RequestInv
  <2>3. /\ OpenInv(s)' /\ request'[s].state = "open"
        /\ request'[s].batch = request[s].batch
        /\ \A p \in Slots \ {s} : request'[p] = request[p]
    <3>1. CASE /\ e \in Stored \cup StoredIn(request[s].rows)
               /\ request' = [request EXCEPT ![s] = PassedRequest(s, e)]
      <4>1. OpenInv(s)'
        BY <2>1, <2>2, <3>1, PassKeeps
      <4> QED BY <2>1, <3>1, <4>1, PassedFields, RequestUpdate
    <3>2. CASE /\ e \notin Stored \cup StoredIn(request[s].rows)
               /\ request' = [request EXCEPT ![s] = PlacedRequest(s, e)]
      <4>1. OpenInv(s)'
        BY <2>1, <2>2, <3>2, PlaceKeeps
      <4> QED BY <2>1, <3>2, <4>1, PlacedFields, RequestUpdate
    <3> QED BY <1>14, <3>1, <3>2, PlaceCases
  <2>4. CASE q = s
    BY <2>1, <2>2, <2>3, <2>4 DEF RequestInv
  <2>5. CASE q # s
    BY <1>0, <2>1, <2>3, <2>5, RequestKept
  <2> QED BY <2>4, <2>5
<1>15. CASE UNCHANGED vars
  BY <1>0, <1>15, RequestKept DEF vars
<1> QED
  BY <1>1, <1>2, <1>3, <1>4, <1>5, <1>6, <1>8, <1>9, <1>10, <1>11, <1>12, <1>13, <1>14,
     <1>15 DEF Next, Api
-----------------------------------------------------------------------------
(* The agent's log and KEEN's rows, step by step. *)

(* What KEEN has is only changed by a commit, and then by what the request *)
(* that holds the lock has placed.                                         *)
LEMMA ReceivedStep ==
  ASSUME TypeOK, \A s \in Slots : RequestInv(s), [Next]_vars
  PROVE  \/ UNCHANGED row
         \/ \E s \in Slots : Commit(s)
<1>1. ASSUME NEW s \in Slots, NEW e \in Envelopes, PlaceEnvelope(s, e) PROVE UNCHANGED row
  BY <1>1, PlaceCases
<1> QED
  BY <1>1 DEF Next, Api, Collect, Discard, ClearState, GiveUpWaiting, SetCeiling, Send,
     Acknowledged, Lost, Lock, Busy, Abort, vars

LEMMA RowsKept ==
  ASSUME UNCHANGED row
  PROVE  /\ head' = head /\ rows' = rows /\ Stored' = Stored /\ Received' = Received
BY DEF row, Received, Stored, StoredIn

(* The log of the agent, which only Collect, Discard, ClearState and       *)
(* Acknowledged change.                                                    *)
LEMMA AgentStep ==
  ASSUME TypeOK, [Next]_vars
  PROVE  \/ UNCHANGED agent
         \/ Collect \/ Discard \/ ClearState \/ \E s \in Slots : Acknowledged(s)
<1>1. ASSUME NEW s \in Slots, NEW e \in Envelopes, PlaceEnvelope(s, e) PROVE UNCHANGED agent
  BY <1>1, PlaceCases
<1>2. ASSUME NEW s \in Slots, Commit(s) PROVE UNCHANGED agent
  BY <1>2, CommitEffect
<1> QED
  BY <1>1, <1>2 DEF Next, Api, GiveUpWaiting, SetCeiling, Send, Lost, Lock, Busy, Abort, vars

LEMMA NewEnvelopeIsNew ==
  ASSUME TypeOK, WrittenBefore
  PROVE  NewEnvelope \notin written
BY DEF TypeOK, WrittenBefore, NewEnvelope, Envelopes

LEMMA WrittenStep ==
  ASSUME TypeOK, WrittenBefore, [Next]_vars
  PROVE  WrittenBefore' /\ written \subseteq written'
<1>1. CASE UNCHANGED agent
  BY <1>1 DEF agent, WrittenBefore
<1>2. ASSUME written' = written \cup {NewEnvelope}, next' = next + 1, epoch' = epoch
      PROVE  WrittenBefore'
  <2>1. NewEnvelope.epoch = epoch /\ NewEnvelope.seq = next
    BY DEF NewEnvelope
  <2>2. \A e \in written : e.epoch \in Int /\ e.seq \in Int
    BY DEF TypeOK, Envelopes
  <2> QED BY <1>2, <2>1, <2>2 DEF WrittenBefore, TypeOK
<1>3. CASE Collect
  BY <1>2, <1>3 DEF Collect
<1>4. CASE Discard
  BY <1>2, <1>4 DEF Discard
<1>5. CASE ClearState
  <2>1. \A e \in written : e.epoch \in Int
    BY DEF TypeOK, Envelopes
  <2> QED BY <1>5, <2>1 DEF ClearState, WrittenBefore, TypeOK
<1>6. ASSUME NEW s \in Slots, Acknowledged(s)
      PROVE  WrittenBefore' /\ written \subseteq written'
  BY <1>6 DEF Acknowledged, WrittenBefore
<1> QED BY <1>1, <1>3, <1>4, <1>5, <1>6, AgentStep DEF Collect, Discard

(* What holds when the request s commits. *)
LEMMA CommitKeeps ==
  ASSUME TypeOK, \A s \in Slots : RequestInv(s), LogInv, StoredOnce, ContinuousFollows,
         NEW s \in Slots, Commit(s)
  PROVE  /\ Received \subseteq Received' /\ Received' \subseteq written
         /\ head' \in Received' \cup {NoEnvelope}
         /\ StoredOnce' /\ ContinuousFollows'
<1>1. /\ head' = request[s].head
      /\ rows' = rows \cup request[s].rows
      /\ Received' = Received \cup Placed(s)
      /\ request[s].state = "open"
  BY CommitEffect
<1>2. OpenInv(s) /\ request[s].batch \subseteq written
  BY <1>1 DEF RequestInv
<1>3. Placed(s) \subseteq written
  BY <1>2 DEF OpenInv
<1>4. StoredOnce'
  <2>1. \A x \in request[s].rows, y \in rows : x.env # y.env
    <3>1. StoredIn(request[s].rows) \cap StoredIn(rows) = {}
      BY <1>2 DEF OpenInv, Placed, Stored
    <3> QED BY <3>1 DEF StoredIn
  <2>2. \A x, y \in request[s].rows : x.env = y.env => x = y
    BY <1>2 DEF OpenInv
  <2> QED BY <1>1, <2>1, <2>2 DEF StoredOnce
<1>5. ContinuousFollows'
  <2>1. \A x \in request[s].rows : x.chain = "continuous" => Previous(x.env) \in Received'
    BY <1>1, <1>2 DEF OpenInv
  <2>2. \A x \in rows : x.chain = "continuous" => Previous(x.env) \in Received'
    BY <1>1 DEF ContinuousFollows
  <2>3. \A x \in rows' : x.chain = "continuous" => Previous(x.env) \in Received'
    BY <1>1, <2>1, <2>2
  <2> QED BY <2>3 DEF ContinuousFollows, Previous
<1>6. head' \in Received' \cup {NoEnvelope}
  BY <1>1, <1>2 DEF OpenInv
<1> QED BY <1>1, <1>3, <1>4, <1>5, <1>6 DEF LogInv

LEMMA LogStep ==
  ASSUME IInv, [Next]_vars
  PROVE  LogInv' /\ StoredOnce' /\ ContinuousFollows' /\ Received \subseteq Received'
<1> USE DEF IInv
<1>1. WrittenBefore' /\ written \subseteq written'
  BY WrittenStep DEF LogInv
<1>2. CASE UNCHANGED row
  <2>1. head' = head /\ rows' = rows /\ Received' = Received
    BY <1>2, RowsKept
  <2>2. LogInv'
    BY <1>1, <2>1 DEF LogInv
  <2>3. StoredOnce'
    BY <2>1 DEF StoredOnce
  <2>4. ContinuousFollows'
    BY <2>1 DEF ContinuousFollows, Previous
  <2> QED BY <2>1, <2>2, <2>3, <2>4
<1>3. ASSUME NEW s \in Slots, Commit(s)
      PROVE  LogInv' /\ StoredOnce' /\ ContinuousFollows' /\ Received \subseteq Received'
  BY <1>1, <1>3, CommitKeeps DEF LogInv
<1> QED BY <1>2, <1>3, ReceivedStep

(* Nothing is lost: an envelope leaves the queue when the agent gives it   *)
(* up or when a request with it was answered.                              *)
LEMMA NothingLostStep ==
  ASSUME IInv, [Next]_vars
  PROVE  NothingLost'
<1> USE DEF IInv
<1>1. Received \subseteq Received'
  BY LogStep
<1>2. CASE UNCHANGED agent
  BY <1>1, <1>2 DEF NothingLost, agent
<1>3. CASE Collect
  BY <1>1, <1>3 DEF Collect, NothingLost
<1>4. CASE Discard
  <2>1. PICK n \in 1..MaxSeq :
          /\ queue' = (queue \ Oldest(n)) \cup {NewEnvelope}
          /\ discarded' = discarded \cup Oldest(n)
          /\ written' = written \cup {NewEnvelope}
    BY <1>4 DEF Discard
  <2> QED BY <1>1, <2>1 DEF NothingLost
<1>5. CASE ClearState
  BY <1>1, <1>5 DEF ClearState, NothingLost
<1>6. ASSUME NEW s \in Slots, Acknowledged(s) PROVE NothingLost'
  <2>1. request[s].batch \subseteq Received
    BY <1>6 DEF Acknowledged, RequestInv
  <2>2. /\ queue' = queue \ request[s].batch
        /\ discarded' = discarded /\ written' = written
    BY <1>6 DEF Acknowledged
  <2> QED BY <1>1, <2>1, <2>2 DEF NothingLost
<1> QED BY <1>2, <1>3, <1>4, <1>5, <1>6, AgentStep

LEMMA InitInvariant == Init => IInv
<1> SUFFICES ASSUME Init PROVE IInv
  OBVIOUS
<1>1. Stored = {} /\ Received = {}
  BY StoredInEmpty DEF Init, Stored, Received
<1>2. TypeOK
  BY FreeType, MaxEpochAssumption, MaxSeqAssumption, MaxAbandonedAssumption
     DEF Init, TypeOK, Requests
<1>3. ASSUME NEW s \in Slots PROVE RequestInv(s)
  <2>1. request[s].state = "free" /\ request[s].batch = {}
    BY DEF Init, Free
  <2> QED BY <2>1, NoneAssumption DEF Init, RequestInv
<1>4. LogInv
  BY <1>1 DEF Init, LogInv, WrittenBefore
<1>5. NothingLost /\ StoredOnce /\ ContinuousFollows
  BY DEF Init, NothingLost, StoredOnce, ContinuousFollows
<1> QED BY <1>2, <1>3, <1>4, <1>5 DEF IInv

LEMMA NextInvariant == IInv /\ [Next]_vars => IInv'
<1> SUFFICES ASSUME IInv, [Next]_vars PROVE IInv'
  OBVIOUS
<1>1. TypeOK'
  BY TypeStep DEF IInv
<1>2. \A s \in Slots : RequestInv(s)'
  BY RequestStep DEF IInv
<1>3. LogInv' /\ StoredOnce' /\ ContinuousFollows'
  BY LogStep
<1>4. NothingLost'
  BY NothingLostStep
<1> QED BY <1>1, <1>2, <1>3, <1>4 DEF IInv

(* The inductive invariant holds in every state. *)
THEOREM Invariant == Spec => []IInv
BY InitInvariant, NextInvariant, PTL DEF Spec
-----------------------------------------------------------------------------
(* What follows from the invariant. *)

(* Every variable keeps its type. *)
THEOREM TypeCorrect == Spec => []TypeOK
<1>1. IInv => TypeOK
  BY DEF IInv
<1> QED BY <1>1, Invariant, PTL

(* Every envelope the agent committed to its queue is there, was given up  *)
(* by the agent, or is in KEEN.                                            *)
THEOREM EvidenceIsNotLost == Spec => []NothingLost
<1>1. IInv => NothingLost
  BY DEF IInv
<1> QED BY <1>1, Invariant, PTL

(* An envelope is stored once, whatever is sent again and arrives late. *)
THEOREM EvidenceIsStoredOnce == Spec => []StoredOnce
<1>1. IInv => StoredOnce
  BY DEF IInv
<1> QED BY <1>1, Invariant, PTL

(* KEEN received the envelope before one whose row is continuous. *)
THEOREM NoHoleInContinuousEvidence == Spec => []ContinuousFollows
<1>1. IInv => ContinuousFollows
  BY DEF IInv
<1> QED BY <1>1, Invariant, PTL

LEMMA StoredBatchStep ==
  ASSUME IInv, NEW s \in Slots, Commit(s), request[s].batch \subseteq Stored
  PROVE  UNCHANGED row
<1> USE DEF IInv
<1>1. /\ head' = request[s].head
      /\ rows' = rows \cup request[s].rows
      /\ withheld' = withheld \cup request[s].withheld
      /\ request[s].state = "open"
  BY CommitEffect
<1>2. OpenInv(s)
  BY <1>1 DEF RequestInv
<1>3. Placed(s) = {}
  BY <1>2 DEF OpenInv
<1>4. request[s].rows = {} /\ request[s].withheld = {}
  BY <1>3 DEF Placed, StoredIn
<1>5. head' = head
  BY <1>1, <1>2, <1>3 DEF OpenInv
<1> QED BY <1>1, <1>4, <1>5 DEF row

(* A batch that is stored already changes nothing when it arrives again. *)
THEOREM ReplaysChangeNothing == Spec => StoredBatchChangesNothing
<1>1. IInv /\ [Next]_vars =>
        [\A s \in Slots :
           Commit(s) /\ request[s].batch \subseteq Stored => UNCHANGED row]_vars
  BY StoredBatchStep
<1> QED BY <1>1, Invariant, PTL DEF Spec, StoredBatchChangesNothing
-----------------------------------------------------------------------------
(* The refinement of EvidenceLog. *)

LEMMA LogInit == Init => Log!Init
BY StoredInEmpty DEF Init, Log!Init, Received, Stored

LEMMA LogNext ==
  ASSUME IInv, [Next]_vars
  PROVE  [Log!Next]_(Log!vars)
<1> USE DEF IInv
<1> DEFINE Step == \E batch, gone \in SUBSET Envelopes :
                     Log!Agent(batch, gone) \/ Log!Keep(batch) \/ Log!Release(batch)
<1>0. Step => Log!Next
  BY DEF Log!Next
<1>1. /\ queue \subseteq written /\ discarded \subseteq written
      /\ Received \subseteq written /\ written \subseteq Envelopes
      /\ written \subseteq queue \cup discarded \cup Received
  BY DEF TypeOK, LogInv, NothingLost
<1>2. NewEnvelope \notin written
  BY NewEnvelopeIsNew DEF LogInv
<1>3. CASE \E s \in Slots : Commit(s)
  <2>1. PICK s \in Slots : Commit(s)
    BY <1>3
  <2>2. /\ Received' = Received \cup Placed(s)
        /\ queue' = queue /\ discarded' = discarded
        /\ request[s].state = "open"
    BY <2>1, CommitEffect DEF agent
  <2>3. Placed(s) \subseteq written
    BY <2>2 DEF RequestInv, OpenInv
  <2>4. Log!Keep(Placed(s) \ Received)
    BY <1>1, <2>2, <2>3 DEF Log!Keep
  <2> QED BY <1>0, <1>1, <2>3, <2>4 DEF Log!Next
<1>4. CASE UNCHANGED row
  <2>1. Received' = Received
    BY <1>4, RowsKept
  <2>2. CASE UNCHANGED agent
    BY <2>1, <2>2 DEF agent, Log!vars
  <2>3. CASE Collect
    <3>1. NewEnvelope \in Envelopes
      BY <2>3, NewEnvelopeType DEF Collect
    <3>2. Log!Agent({NewEnvelope}, {})
      BY <1>1, <1>2, <2>1, <2>3, <3>1 DEF Collect, Log!Agent
    <3> QED BY <1>0, <3>1, <3>2
  <2>4. CASE Discard
    <3>1. NewEnvelope \in Envelopes
      BY <2>4, NewEnvelopeType DEF Discard
    <3>2. PICK n \in 1..MaxSeq :
            /\ queue' = (queue \ Oldest(n)) \cup {NewEnvelope}
            /\ discarded' = discarded \cup Oldest(n)
      BY <2>4 DEF Discard
    <3>3. Oldest(n) \subseteq queue
      BY OldestQueued
    <3>4. Log!Agent({NewEnvelope}, Oldest(n))
      BY <1>1, <1>2, <2>1, <3>1, <3>2, <3>3 DEF Log!Agent
    <3> QED BY <1>0, <1>1, <3>1, <3>3, <3>4
  <2>5. CASE ClearState
    <3>1. Log!Agent({}, queue)
      BY <2>1, <2>5 DEF ClearState, Log!Agent
    <3> QED BY <1>0, <1>1, <3>1
  <2>6. CASE \E s \in Slots : Acknowledged(s)
    <3>1. PICK s \in Slots : Acknowledged(s)
      BY <2>6
    <3>2. request[s].batch \subseteq Received
      BY <3>1 DEF Acknowledged, RequestInv
    <3>3. queue' = queue \ request[s].batch /\ discarded' = discarded
      BY <3>1 DEF Acknowledged
    <3>4. Log!Release(queue \cap request[s].batch)
      BY <2>1, <3>2, <3>3 DEF Log!Release
    <3> QED BY <1>0, <1>1, <3>4
  <2> QED BY <2>2, <2>3, <2>4, <2>5, <2>6, AgentStep
<1> QED BY <1>3, <1>4, ReceivedStep

(* The delivery, with its requests, locks, retries and failures, is an     *)
(* implementation of the log: a batch is kept as a whole, what is kept     *)
(* stays kept, and nothing leaves the queue before it is kept or given up. *)
THEOREM DeliveryImplementsLog == Spec => ImplementsLog
BY LogInit, LogNext, Invariant, PTL DEF Spec, ImplementsLog, Log!SafeSpec
-----------------------------------------------------------------------------
(* The chain of an agent that gives nothing up, keeps its state and sends  *)
(* nothing KEEN withholds.                                                 *)

(* The agent numbers its envelopes without gaps.                           *)
WrittenAll == \A e \in Envelopes : e.epoch = epoch /\ e.seq < next => e \in written

(* The envelopes up to the head h. *)
WholeTo(S, h) == \A e \in Envelopes : e \in S <=> e.epoch = 1 /\ e.seq <= h.seq
WholeRow(r) == r.chain = IF r.env.seq = 1 THEN "started" ELSE "continuous"

WholeStored == WholeTo(Stored, head) /\ \A r \in rows : WholeRow(r)

WholeBatch(s) ==
  \A e \in request[s].batch : \A d \in Envelopes :
    d.epoch = 1 /\ d.seq < e.seq => d \in Stored \cup request[s].batch

WholeOpen(s) ==
  request[s].state = "open" /\ request[s].withheld = {} =>
    /\ WholeTo(Stored \cup StoredIn(request[s].rows), request[s].head)
    /\ \A r \in request[s].rows : WholeRow(r)

ChainInv ==
  /\ WrittenAll
  /\ Undisturbed =>
       /\ WholeStored
       /\ \A s \in Slots : WholeBatch(s) /\ WholeOpen(s)

LEMMA EnvelopeFields ==
  ASSUME NEW e \in Envelopes \cup {NoEnvelope}
  PROVE  /\ e.epoch \in Int /\ e.seq \in Int
         /\ e = [epoch |-> e.epoch, seq |-> e.seq]
         /\ e \in Envelopes => e.epoch >= 1 /\ e.seq >= 1 /\ e # NoEnvelope
         /\ e \notin Envelopes => e = NoEnvelope /\ e.seq = 0
BY MaxEpochAssumption, MaxSeqAssumption DEF Envelopes, NoEnvelope

LEMMA SameEnvelope ==
  ASSUME NEW d \in Envelopes, NEW e \in Envelopes, d.epoch = e.epoch, d.seq = e.seq
  PROVE  d = e
BY EnvelopeFields

LEMMA EnvelopesAreFinite == IsFiniteSet(Envelopes)
<1> DEFINE P == (1..MaxEpoch) \X (1..MaxSeq)
           f == [e \in Envelopes |-> <<e.epoch, e.seq>>]
<1>1. IsFiniteSet(1..MaxEpoch) /\ IsFiniteSet(1..MaxSeq)
  BY MaxEpochAssumption, MaxSeqAssumption, FS_Interval
<1>2. IsFiniteSet(P)
  BY <1>1, FS_Product
<1>3. f \in [Envelopes -> P]
  BY DEF Envelopes
<1>4. \A a, b \in Envelopes : f[a] = f[b] => a = b
  BY SameEnvelope
<1> HIDE DEF f, P
<1>5. f \in Injection(Envelopes, P)
  BY <1>3, <1>4 DEF Injection, IsInjective
<1> QED BY <1>2, <1>5, FS_Injection

(* Of a chain that is whole, the next envelope continues it. *)
LEMMA NextInChain ==
  ASSUME NEW h \in Envelopes \cup {NoEnvelope}, NEW e \in Envelopes,
         e.epoch = 1, NEW S, WholeTo(S, h), h \in Envelopes => h.epoch = 1,
         e \notin S, \A d \in Envelopes : d.epoch = 1 /\ d.seq < e.seq => d \in S
  PROVE  /\ ChainStatus(h, e) = IF e.seq = 1 THEN "started" ELSE "continuous"
         /\ WholeTo(S \cup {e}, e)
         /\ Advance(h, e) = e
<1>1. /\ h.seq \in Int /\ e.seq \in Int /\ e.seq >= 1
      /\ h \notin Envelopes => h = NoEnvelope /\ h.seq = 0
      /\ h \in Envelopes => h.seq >= 1 /\ h # NoEnvelope
  BY EnvelopeFields
<1>2. e.seq > h.seq
  BY <1>1 DEF WholeTo
<1>3. e.seq = h.seq + 1
  <2> SUFFICES ASSUME e.seq # h.seq + 1 PROVE FALSE
    OBVIOUS
  <2> DEFINE d == [epoch |-> 1, seq |-> e.seq - 1]
  <2>1. e.seq - 1 \in 1..MaxSeq /\ 1 \in 1..MaxEpoch
    <3>1. h.seq >= 0 /\ e.seq \in 1..MaxSeq
      BY <1>1 DEF Envelopes
    <3> QED BY <1>1, <1>2, <3>1, MaxEpochAssumption, MaxSeqAssumption
  <2>2. d \in Envelopes /\ d.epoch = 1 /\ d.seq = e.seq - 1
    BY <2>1 DEF Envelopes
  <2> HIDE DEF d
  <2>3. d \in S
    BY <1>1, <2>2
  <2>4. d.seq <= h.seq
    BY <2>2, <2>3 DEF WholeTo
  <2> QED BY <1>1, <1>2, <2>2, <2>4
<1>4. WholeTo(S \cup {e}, e)
  <2> SUFFICES ASSUME NEW d \in Envelopes
               PROVE  d \in S \cup {e} <=> d.epoch = 1 /\ d.seq <= e.seq
    BY DEF WholeTo
  <2>1. d.seq \in Int /\ (d \in S <=> d.epoch = 1 /\ d.seq <= h.seq)
    BY EnvelopeFields DEF WholeTo
  <2>2. d.epoch = 1 /\ d.seq = e.seq <=> d = e
    BY SameEnvelope
  <2>3. d.seq <= e.seq <=> d.seq <= h.seq \/ d.seq = e.seq
    BY <1>1, <1>3, <2>1
  <2> QED BY <2>1, <2>2, <2>3
<1>5. CASE h \notin Envelopes
  <2>1. h = NoEnvelope /\ e.seq = 1
    BY <1>1, <1>3, <1>5
  <2>2. ChainStatus(h, e) = "started"
    BY <2>1 DEF ChainStatus
  <2> QED BY <1>4, <2>1, <2>2 DEF Advance
<1>6. CASE h \in Envelopes
  <2>1. h # NoEnvelope /\ e.seq # 1
    BY <1>1, <1>3, <1>6
  <2>2. Previous(e) = h
    <3>1. e = [epoch |-> 1, seq |-> h.seq + 1] /\ h = [epoch |-> 1, seq |-> h.seq]
      BY <1>3, <1>6, EnvelopeFields
    <3>2. Previous(e) = [epoch |-> 1, seq |-> (h.seq + 1) - 1]
      BY <3>1 DEF Previous
    <3> QED BY <1>1, <3>1, <3>2
  <2>3. ChainStatus(h, e) = "continuous"
    BY <1>3, <2>1, <2>2 DEF ChainStatus
  <2> QED BY <1>4, <2>1, <2>3 DEF Advance
<1> QED BY <1>5, <1>6

(* An undisturbed chain was undisturbed before. *)
LEMMA WasUndisturbed ==
  ASSUME IInv, [Next]_vars, Undisturbed'
  PROVE  Undisturbed /\ epoch' = epoch
<1>1. TypeOK /\ epoch \in Int /\ epoch >= 1
  BY MaxEpochAssumption DEF IInv, TypeOK
<1>2. discarded = {} /\ epoch = 1
  <2>1. CASE UNCHANGED agent
    BY <2>1 DEF agent, Undisturbed
  <2>2. CASE Collect
    BY <2>2 DEF Collect, Undisturbed
  <2>3. CASE Discard
    BY <2>3 DEF Discard, Undisturbed
  <2>4. CASE ClearState
    BY <1>1, <2>4 DEF ClearState, Undisturbed
  <2>5. ASSUME NEW s \in Slots, Acknowledged(s) PROVE discarded = {} /\ epoch = 1
    BY <2>5 DEF Acknowledged, Undisturbed
  <2> QED BY <1>1, <2>1, <2>2, <2>3, <2>4, <2>5, AgentStep
<1>3. withheld = {}
  <2>1. CASE UNCHANGED row
    BY <2>1 DEF row, Undisturbed
  <2>2. ASSUME NEW s \in Slots, Commit(s) PROVE withheld = {}
    BY <1>1, <2>2, CommitEffect DEF Undisturbed
  <2> QED BY <1>1, <2>1, <2>2, ReceivedStep DEF IInv
<1> QED BY <1>2, <1>3 DEF Undisturbed

LEMMA WrittenAllStep ==
  ASSUME IInv, WrittenAll, [Next]_vars
  PROVE  WrittenAll'
<1>1. TypeOK /\ WrittenBefore
  BY DEF IInv, LogInv
<1>2. next \in Int /\ epoch \in Int
  BY <1>1, MaxSeqAssumption, MaxEpochAssumption DEF TypeOK
<1>3. ASSUME next' = next + 1, epoch' = epoch, written' = written \cup {NewEnvelope},
             next <= MaxSeq
      PROVE  WrittenAll'
  <2> SUFFICES ASSUME NEW e \in Envelopes, e.epoch = epoch, e.seq < next + 1
               PROVE  e \in written \cup {NewEnvelope}
    BY <1>3 DEF WrittenAll
  <2>1. e.seq \in Int
    BY EnvelopeFields
  <2>2. CASE e.seq < next
    BY <2>2 DEF WrittenAll
  <2>3. CASE e.seq = next
    <3>1. e = NewEnvelope
      BY <2>3, EnvelopeFields DEF NewEnvelope
    <3> QED BY <3>1
  <2> QED BY <1>2, <2>1, <2>2, <2>3
<1>4. CASE UNCHANGED agent
  BY <1>4 DEF agent, WrittenAll
<1>5. CASE Collect
  BY <1>3, <1>5 DEF Collect
<1>6. CASE Discard
  BY <1>3, <1>6 DEF Discard
<1>7. CASE ClearState
  <2>1. next' = 1
    BY <1>7 DEF ClearState
  <2>2. \A e \in Envelopes : ~ (e.seq < 1)
    BY EnvelopeFields
  <2> QED BY <2>1, <2>2 DEF WrittenAll
<1>8. ASSUME NEW s \in Slots, Acknowledged(s) PROVE WrittenAll'
  BY <1>8 DEF Acknowledged, WrittenAll
<1> QED BY <1>1, <1>4, <1>5, <1>6, <1>7, <1>8, AgentStep

(* A commit makes the head of its request the head of the chain.           *)
LEMMA WholeStoredStep ==
  ASSUME IInv, WholeStored, \A s \in Slots : WholeOpen(s), [Next]_vars, Undisturbed'
  PROVE  WholeStored'
<1>1. CASE UNCHANGED row
  <2>1. head' = head /\ rows' = rows /\ Stored' = Stored
    BY <1>1, RowsKept
  <2> QED BY <2>1 DEF WholeStored, WholeTo
<1>2. ASSUME NEW s \in Slots, Commit(s) PROVE WholeStored'
  <2>1. /\ request[s].state = "open" /\ head' = request[s].head
        /\ rows' = rows \cup request[s].rows
        /\ Stored' = Stored \cup StoredIn(request[s].rows)
        /\ withheld' = withheld \cup request[s].withheld
    BY <1>2, CommitEffect DEF IInv
  <2>2. request[s].withheld = {}
    BY <2>1 DEF Undisturbed
  <2>3. /\ WholeTo(Stored \cup StoredIn(request[s].rows), request[s].head)
        /\ \A r \in request[s].rows : WholeRow(r)
    BY <2>1, <2>2 DEF WholeOpen
  <2>4. WholeTo(Stored, head)'
    BY <2>1, <2>3 DEF WholeTo
  <2>5. \A r \in rows' : WholeRow(r)
    BY <2>1, <2>3 DEF WholeStored
  <2> QED BY <2>4, <2>5 DEF WholeStored, WholeRow
<1> QED BY <1>1, <1>2, ReceivedStep DEF IInv

(* The oldest envelopes of the queue leave no older one there. *)
LEMMA OldestIsPrefix ==
  ASSUME TypeOK, NEW e \in Oldest(BatchSize), NEW d \in queue, d.seq < e.seq
  PROVE  d \in Oldest(BatchSize)
<1> DEFINE older(x) == {c \in queue : c.seq < x.seq}
<1>1. e \in queue /\ Cardinality(older(e)) < BatchSize
  BY DEF Oldest
<1>2. \A c \in queue : c \in Envelopes /\ c.seq \in Int
  BY EnvelopeFields DEF TypeOK
<1>3. \A c \in older(d) : c \in older(e)
  BY <1>1, <1>2
<1>4. older(d) \in SUBSET older(e) /\ older(e) \in SUBSET Envelopes
  BY <1>2, <1>3
<1> HIDE DEF older
<1>5. IsFiniteSet(older(e))
  BY <1>4, EnvelopesAreFinite, FS_Subset
<1>6. /\ Cardinality(older(d)) <= Cardinality(older(e))
      /\ Cardinality(older(d)) \in Nat /\ Cardinality(older(e)) \in Nat
  BY <1>4, <1>5, FS_Subset, FS_CardinalityType
<1>7. Cardinality(older(d)) < BatchSize
  BY <1>1, <1>6, BatchSizeAssumption
<1> QED BY <1>7 DEF Oldest, older

(* A batch that is sent follows what is stored: what is older has been     *)
(* written, and what left the queue is in KEEN.                            *)
LEMMA SendIsWhole ==
  ASSUME IInv, WrittenAll, Undisturbed, NEW e \in Oldest(BatchSize),
         NEW d \in Envelopes, d.epoch = 1, d.seq < e.seq
  PROVE  d \in Stored \cup Oldest(BatchSize)
<1>1. TypeOK /\ WrittenBefore /\ NothingLost
  BY DEF IInv, LogInv
<1>2. epoch = 1 /\ discarded = {} /\ Received = Stored
  BY DEF Undisturbed, Received
<1>3. e \in queue /\ e \in written /\ e \in Envelopes
  BY <1>1, OldestQueued DEF TypeOK
<1>4. next \in Int /\ e.seq \in Int /\ d.seq \in Int /\ e.epoch >= 1 /\ e.epoch \in Int
  BY <1>1, <1>3, EnvelopeFields, MaxSeqAssumption DEF TypeOK
<1>5. e.seq < next
  BY <1>1, <1>2, <1>3, <1>4 DEF WrittenBefore
<1>6. d \in written
  BY <1>2, <1>4, <1>5 DEF WrittenAll
<1>7. d \in queue \/ d \in Stored
  BY <1>1, <1>2, <1>6 DEF NothingLost
<1> QED BY <1>1, <1>7, OldestIsPrefix

(* Where the batch of a request comes from. *)
LEMMA BatchSteps ==
  ASSUME TypeOK, NEW s \in Slots, [Next]_vars
  PROVE  \/ request'[s].batch = request[s].batch \/ request'[s].batch = {}
         \/ Send(s) /\ request'[s].batch = Oldest(BatchSize) /\ UNCHANGED row
<1>1. CASE UNCHANGED request
  BY <1>1
<1>2. ASSUME NEW t \in Slots, request' = [request EXCEPT ![t] = Free]
      PROVE  request'[s].batch = request[s].batch \/ request'[s].batch = {}
  BY <1>2, FreedSlot
<1>3. ASSUME NEW t \in Slots, Send(t)
      PROVE  \/ request'[s].batch = request[s].batch
             \/ Send(s) /\ request'[s].batch = Oldest(BatchSize) /\ UNCHANGED row
  <2>1. request' = [request EXCEPT ![t] = SentRequest]
    BY <1>3 DEF Send, SentRequest
  <2> QED BY <1>3, <2>1, SentFields, RequestUpdate DEF Send
<1>4. ASSUME NEW t \in Slots, Lock(t) PROVE request'[s].batch = request[s].batch
  <2>1. request' = [request EXCEPT ![t] = OpenedRequest(t)]
    BY <1>4 DEF Lock, OpenedRequest
  <2>2. request'[t] = OpenedRequest(t) /\ \A q \in Slots \ {t} : request'[q] = request[q]
    BY <2>1, OpenedFields, RequestUpdate
  <2> QED BY <2>2 DEF OpenedRequest
<1>5. ASSUME NEW t \in Slots, Commit(t) PROVE request'[s].batch = request[s].batch
  BY <1>5, CommitEffect, AnsweredFields, RequestUpdate
<1>6. ASSUME NEW t \in Slots, NEW e \in Envelopes, PlaceEnvelope(t, e)
      PROVE  request'[s].batch = request[s].batch
  <2>1. \/ request' = [request EXCEPT ![t] = PassedRequest(t, e)]
        \/ request' = [request EXCEPT ![t] = PlacedRequest(t, e)]
    BY <1>6, PlaceCases
  <2>2. CASE request' = [request EXCEPT ![t] = PassedRequest(t, e)]
    BY <2>2, PassedFields, RequestUpdate
  <2>3. CASE request' = [request EXCEPT ![t] = PlacedRequest(t, e)]
    <3>1. PlacedRequest(t, e) \in Requests /\ PlacedRequest(t, e).batch = request[t].batch
      BY PlacedFields
    <3>2. /\ request'[t] = PlacedRequest(t, e)
          /\ \A q \in Slots \ {t} : request'[q] = request[q]
      BY <2>3, <3>1, RequestUpdate
    <3> QED BY <3>1, <3>2
  <2> QED BY <2>1, <2>2, <2>3
<1>7. \/ UNCHANGED request
      \/ \E t \in Slots : \/ request' = [request EXCEPT ![t] = Free]
                          \/ Send(t) \/ Lock(t) \/ Commit(t)
                          \/ \E e \in Envelopes : PlaceEnvelope(t, e)
  BY DEF Next, Api, Collect, Discard, ClearState, GiveUpWaiting, SetCeiling, Acknowledged,
     Lost, Busy, Abort, vars
<1> QED BY <1>1, <1>2, <1>3, <1>4, <1>5, <1>6, <1>7

LEMMA WholeBatchStep ==
  ASSUME IInv, WrittenAll, Undisturbed, NEW s \in Slots, WholeBatch(s), [Next]_vars
  PROVE  WholeBatch(s)'
<1>1. Stored \subseteq Stored'
  <2>1. CASE UNCHANGED row
    BY <2>1, RowsKept
  <2>2. ASSUME NEW t \in Slots, Commit(t) PROVE Stored \subseteq Stored'
    BY <2>2, CommitEffect DEF IInv
  <2> QED BY <2>1, <2>2, ReceivedStep DEF IInv
<1>2. CASE request'[s].batch = request[s].batch
  BY <1>1, <1>2 DEF WholeBatch
<1>3. CASE request'[s].batch = {}
  BY <1>3 DEF WholeBatch
<1>4. CASE request'[s].batch = Oldest(BatchSize)
  BY <1>1, <1>4, SendIsWhole DEF WholeBatch
<1> QED BY <1>2, <1>3, <1>4, BatchSteps DEF IInv

(* Where an open transaction comes from. *)
LEMMA OpenSteps ==
  ASSUME IInv, NEW s \in Slots, request'[s].state = "open", [Next]_vars
  PROVE  \/ request'[s] = request[s] /\ UNCHANGED row
         \/ Lock(s)
         \/ \E e \in Envelopes : PlaceEnvelope(s, e)
<1>1. TypeOK /\ request \in [Slots -> Requests]
  BY DEF IInv, TypeOK, Requests
<1>2. CASE UNCHANGED request /\ UNCHANGED row
  BY <1>2
<1>3. ASSUME NEW t \in Slots, request' = [request EXCEPT ![t] = Free], UNCHANGED row
      PROVE  request'[s] = request[s]
  BY <1>1, <1>3, FreedSlot
<1>4. ASSUME NEW t \in Slots, Send(t)
      PROVE  request'[s] = request[s] /\ UNCHANGED row
  <2>1. request' = [request EXCEPT ![t] = SentRequest] /\ UNCHANGED row
    BY <1>4 DEF Send, SentRequest
  <2>2. request'[t].state = "sent" /\ \A q \in Slots \ {t} : request'[q] = request[q]
    BY <1>1, <2>1, SentFields, RequestUpdate
  <2> QED BY <2>1, <2>2
<1>5. ASSUME NEW t \in Slots, Lock(t), t # s
      PROVE  request'[s] = request[s] /\ UNCHANGED row
  BY <1>1, <1>5 DEF Lock
<1>6. ASSUME NEW t \in Slots, Commit(t) PROVE FALSE
  <2>1. request'[t].state = "answered" /\ \A q \in Slots \ {t} : request'[q] = request[q]
    BY <1>1, <1>6, CommitEffect, AnsweredFields, RequestUpdate
  <2>2. t # s /\ request[s].state = "open" /\ request[t].state = "open"
    BY <1>1, <1>6, <2>1, CommitEffect
  <2> QED BY <2>2 DEF IInv, RequestInv
<1>7. ASSUME NEW t \in Slots, NEW e \in Envelopes, PlaceEnvelope(t, e), t # s
      PROVE  request'[s] = request[s] /\ UNCHANGED row
  <2>1. UNCHANGED row
    BY <1>1, <1>7, PlaceCases
  <2>2. request'[s] = request[s]
    BY <1>1, <1>7 DEF PlaceEnvelope
  <2> QED BY <2>1, <2>2
<1>8. \/ UNCHANGED request /\ UNCHANGED row
      \/ \E t \in Slots : \/ request' = [request EXCEPT ![t] = Free] /\ UNCHANGED row
                          \/ Send(t) \/ Lock(t) \/ Commit(t)
                          \/ \E e \in Envelopes : PlaceEnvelope(t, e)
  BY DEF Next, Api, Collect, Discard, ClearState, GiveUpWaiting, SetCeiling, Acknowledged,
     Lost, Busy, Abort, vars
<1> QED BY <1>2, <1>3, <1>4, <1>5, <1>6, <1>7, <1>8

LEMMA LockIsWhole ==
  ASSUME IInv, WholeStored, NEW s \in Slots, Lock(s)
  PROVE  WholeOpen(s)'
<1>1. request' = [request EXCEPT ![s] = OpenedRequest(s)] /\ UNCHANGED row
  BY DEF Lock, OpenedRequest
<1>2. request'[s] = OpenedRequest(s)
  BY <1>1, OpenedFields, RequestUpdate DEF IInv
<1>3. request'[s].rows = {} /\ request'[s].head = head
  BY <1>2 DEF OpenedRequest
<1>4. Stored' = Stored /\ StoredIn(request'[s].rows) = {}
  BY <1>1, <1>3, RowsKept, StoredInEmpty
<1>5. WholeTo(Stored \cup {}, head)
  BY DEF WholeStored, WholeTo
<1> QED BY <1>3, <1>4, <1>5 DEF WholeOpen, WholeTo, StoredIn

(* The least of what is left follows what is stored and placed.            *)
LEMMA PlaceIsWhole ==
  ASSUME IInv, Undisturbed, NEW s \in Slots, WholeBatch(s), WholeOpen(s),
         NEW e \in Envelopes, PlaceEnvelope(s, e)
  PROVE  WholeOpen(s)'
<1>1. TypeOK /\ RequestInv(s) /\ Received = Stored /\ Received \subseteq written
  BY DEF IInv, LogInv, Undisturbed, Received
<1>2. /\ request[s].state = "open" /\ e \in request[s].todo
      /\ \A d \in request[s].todo : e.seq <= d.seq
      /\ UNCHANGED row
  BY <1>1, PlaceCases DEF PlaceEnvelope, IsNextOf
<1>3. Stored' = Stored
  BY <1>2, RowsKept
<1>4. OpenInv(s)
  BY <1>1, <1>2 DEF RequestInv
<1>5. CASE request' = [request EXCEPT ![s] = PassedRequest(s, e)]
  <2>1. /\ request'[s].head = request[s].head
        /\ request'[s].rows = request[s].rows
        /\ request'[s].withheld = request[s].withheld
    BY <1>1, <1>5, PassedFields, RequestUpdate
  <2> QED BY <1>2, <1>3, <2>1 DEF WholeOpen, WholeTo, StoredIn, WholeRow
<1>6. CASE /\ e \notin Stored \cup StoredIn(request[s].rows)
           /\ request' = [request EXCEPT ![s] = PlacedRequest(s, e)]
  <2> DEFINE h == request[s].head
             row1 == NewRow(h, e)
             S == Stored \cup StoredIn(request[s].rows)
  <2> SUFFICES ASSUME request'[s].withheld = {}
               PROVE  /\ WholeTo(Stored \cup StoredIn(request[s].rows), request[s].head)'
                      /\ \A r \in request'[s].rows : WholeRow(r)
    BY DEF WholeOpen, WholeRow
  <2>1. /\ request'[s].head = Advance(h, e)
        /\ request'[s].rows =
             IF Keeps(e) THEN request[s].rows \cup {row1} ELSE request[s].rows
        /\ request'[s].withheld =
             IF Keeps(e) THEN request[s].withheld ELSE request[s].withheld \cup {e}
    <3>1. PlacedRequest(s, e) \in Requests
      BY <1>1, PlacedFields
    <3>2. request'[s] = PlacedRequest(s, e)
      BY <1>1, <1>6, <3>1, RequestUpdate
    <3>3. /\ PlacedRequest(s, e).head = Advance(h, e)
          /\ PlacedRequest(s, e).rows =
               IF Keeps(e) THEN request[s].rows \cup {row1} ELSE request[s].rows
          /\ PlacedRequest(s, e).withheld =
               IF Keeps(e) THEN request[s].withheld ELSE request[s].withheld \cup {e}
      BY <1>1, PlacedFields
    <3> QED BY <3>2, <3>3
  <2>2. /\ request[s].withheld = {}
        /\ request'[s].rows = request[s].rows \cup {row1}
    BY <2>1
  <2>3. Placed(s) = StoredIn(request[s].rows)
    BY <2>2 DEF Placed
  <2>4. WholeTo(S, h) /\ \A r \in request[s].rows : WholeRow(r)
    BY <1>2, <2>2 DEF WholeOpen
  <2>5. h \in Envelopes \cup {NoEnvelope} /\ (h \in Envelopes => h \in S)
    BY <1>1, <1>4, <2>3, RequestType, NoEnvelopeIsNone DEF OpenInv
  <2>6. StoredIn(request'[s].rows) = StoredIn(request[s].rows) \cup {e}
    BY <2>2, StoredInAdd
  <2>7. row1.env = e /\ row1.chain = ChainStatus(h, e)
    BY DEF NewRow
  <2>8. e.epoch = 1
    <3>1. e \in written
      BY <1>1, <1>2, <1>4 DEF OpenInv, RequestInv
    <3>2. e.epoch <= 1 \/ e.epoch = 1
      BY <3>1, EnvelopeFields DEF IInv, LogInv, WrittenBefore, Undisturbed
    <3> QED BY <3>2, EnvelopeFields
  <2>9. \A d \in Envelopes : d.epoch = 1 /\ d.seq < e.seq => d \in S
    <3> SUFFICES ASSUME NEW d \in Envelopes, d.epoch = 1, d.seq < e.seq PROVE d \in S
      OBVIOUS
    <3>1. e \in request[s].batch
      BY <1>2, <1>4 DEF OpenInv
    <3>2. d \in Stored \cup request[s].batch
      BY <3>1 DEF WholeBatch
    <3>3. d \notin request[s].todo
      BY <1>2, EnvelopeFields
    <3>4. d \in Stored \/ d \in Placed(s)
      BY <1>1, <1>4, <3>2, <3>3 DEF OpenInv
    <3> QED BY <2>3, <3>4
  <2>10. e \notin S
    BY <1>6
  <2> HIDE DEF h, row1, S
  <2>11. h \in Envelopes => h.epoch = 1
    BY <2>4, <2>5 DEF WholeTo
  <2>12. /\ ChainStatus(h, e) = IF e.seq = 1 THEN "started" ELSE "continuous"
         /\ WholeTo(S \cup {e}, e)
         /\ Advance(h, e) = e
    BY <2>4, <2>5, <2>8, <2>9, <2>10, <2>11, NextInChain
  <2>13. WholeRow(row1)
    BY <2>7, <2>12 DEF WholeRow
  <2>14. Stored' \cup StoredIn(request'[s].rows) = S \cup {e}
    BY <1>3, <2>6 DEF S
  <2>15. WholeTo(Stored' \cup StoredIn(request'[s].rows), request'[s].head)
    BY <2>1, <2>12, <2>14
  <2>16. WholeTo(Stored \cup StoredIn(request[s].rows), request[s].head)'
    BY <2>15 DEF WholeTo, StoredIn
  <2> QED BY <2>2, <2>4, <2>13, <2>16
<1> QED BY <1>1, <1>5, <1>6, PlaceCases

LEMMA WholeOpenStep ==
  ASSUME IInv, Undisturbed, WholeStored, NEW s \in Slots, WholeBatch(s), WholeOpen(s),
         [Next]_vars
  PROVE  WholeOpen(s)'
<1>1. CASE request'[s].state # "open"
  BY <1>1 DEF WholeOpen
<1>2. CASE request'[s] = request[s] /\ UNCHANGED row
  <2>1. Stored' = Stored
    BY <1>2, RowsKept
  <2> QED BY <1>2, <2>1 DEF WholeOpen, WholeTo, StoredIn, WholeRow
<1>3. CASE Lock(s)
  BY <1>3, LockIsWhole
<1>4. ASSUME NEW e \in Envelopes, PlaceEnvelope(s, e) PROVE WholeOpen(s)'
  BY <1>4, PlaceIsWhole
<1> QED BY <1>1, <1>2, <1>3, <1>4, OpenSteps

LEMMA ChainStep == IInv /\ ChainInv /\ [Next]_vars => ChainInv'
<1> SUFFICES ASSUME IInv, ChainInv, [Next]_vars PROVE ChainInv'
  OBVIOUS
<1>1. WrittenAll /\ WrittenAll'
  BY WrittenAllStep DEF ChainInv
<1>2. ASSUME Undisturbed'
      PROVE  WholeStored' /\ \A s \in Slots : WholeBatch(s)' /\ WholeOpen(s)'
  <2>1. Undisturbed
    BY <1>2, WasUndisturbed
  <2>2. WholeStored /\ \A s \in Slots : WholeBatch(s) /\ WholeOpen(s)
    BY <2>1 DEF ChainInv
  <2>3. WholeStored'
    BY <1>2, <2>2, WholeStoredStep
  <2>4. ASSUME NEW s \in Slots PROVE WholeBatch(s)' /\ WholeOpen(s)'
    BY <1>1, <2>1, <2>2, WholeBatchStep, WholeOpenStep
  <2> QED BY <2>3, <2>4
<1> QED BY <1>1, <1>2 DEF ChainInv

LEMMA ChainInitially == Init => ChainInv
<1> SUFFICES ASSUME Init PROVE ChainInv
  OBVIOUS
<1>1. Stored = {}
  BY StoredInEmpty DEF Init, Stored
<1>2. WrittenAll
  BY EnvelopeFields DEF Init, WrittenAll
<1>3. WholeStored
  BY <1>1, EnvelopeFields DEF Init, WholeStored, WholeTo
<1>4. \A s \in Slots : request[s].batch = {} /\ request[s].state = "free"
  BY DEF Init, Free
<1> QED BY <1>2, <1>3, <1>4 DEF ChainInv, WholeBatch, WholeOpen

(* What is stored of an undisturbed chain is the whole of it up to the     *)
(* head, in every state.                                                   *)
THEOREM ChainInvariant == Spec => []ChainInv
BY ChainInitially, ChainStep, Invariant, PTL DEF Spec

(* While an agent gives nothing up, keeps its state and sends nothing KEEN *)
(* withholds, every row but the first is continuous (persist_batch),       *)
(* whatever is lost, comes late or twice, or fails half way.               *)
THEOREM UndisturbedChainsAreWhole == Spec => []UndisturbedChainIsWhole
<1>1. ChainInv => UndisturbedChainIsWhole
  BY DEF ChainInv, WholeStored, WholeRow, UndisturbedChainIsWhole
<1> QED BY <1>1, ChainInvariant, PTL
=============================================================================
