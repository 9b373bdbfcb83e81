--------------------------- MODULE EvidenceStorage ---------------------------
(***************************************************************************)
(* Evidence objects (files in S3 or a local volume), the database records  *)
(* that name them, and the outbox of objects to delete                     *)
(* (evidence_object_cleanup, app/services/evidence_retention.py).          *)
(*                                                                         *)
(* The object store takes no part in database transactions.  An object is  *)
(* stored before the transaction that names it commits, and deleted after  *)
(* the one that stops naming it.  Each storage attempt has a key of its    *)
(* own (attempt_key in app/storage/s3.py), so an object here is an attempt *)
(* and is never stored twice.                                              *)
(***************************************************************************)
EXTENDS Integers, FiniteSets

CONSTANTS
  Objects,    \* storage attempts
  Events,     \* identities of events: written once, each with one artifact
  Documents,  \* ISMS documents (and audits): their file can be replaced
  Writers,    \* database sessions of requests and collectors
  Cleaners,   \* Celery workers running evidence_retention_task
  None,
  MaxRetries  \* bound on the times an administrator makes clean-up due now

Records == Events \cup Documents

ASSUME NoneAssumption == None \notin Objects \cup Records
ASSUME MaxRetriesAssumption == MaxRetries \in Nat

VARIABLES
  object,   \* each attempt: unused, stored or deleted
  uri,      \* the committed storage_uri of each record
  outbox,   \* the committed row of each object: none, waiting or due
  writer,   \* the transaction each session has open
  cleaner,  \* the outbox row each cleaner has locked
  forgotten,\* objects whose session ended without being able to queue them
  retries   \* retry_storage calls so far

vars == <<object, uri, outbox, writer, cleaner, forgotten, retries>>

Idle == [pc |-> "idle", record |-> None, new |-> None, old |-> None]
Free == [pc |-> "idle", object |-> None]

\* A transaction holds the lock of its record's row until it has ended at the
\* server: for an event, the unique (source, external_id) of its insertion.
Locked(r) == \E w \in Writers : writer[w].pc # "idle" /\ writer[w].record = r
Referenced(o) == \E r \in Records : uri[r] = o
InUse(o) == \E w \in Writers : writer[w].new = o
RowLocked(o) == \E k \in Cleaners : cleaner[k].object = o

\* queue_stored_objects: ON CONFLICT DO NOTHING, so a row that is there stays.
Queued(rows, o, status) ==
  IF o # None /\ rows[o] = "none" THEN [rows EXCEPT ![o] = status] ELSE rows

Init ==
  /\ object = [o \in Objects |-> "unused"]
  /\ uri = [r \in Records |-> None]
  /\ outbox = [o \in Objects |-> "none"]
  /\ writer = [w \in Writers |-> Idle]
  /\ cleaner = [k \in Cleaners |-> Free]
  /\ forgotten = {}
  /\ retries = 0
-----------------------------------------------------------------------------
(***************************************************************************)
(* Plausible bugs, each of which breaks a requirement.                     *)
(***************************************************************************)

\* The unpublished object is due at once, as replaced files are.
UnpublishedAtOnce(w) ==
  /\ outbox' = Queued(outbox, writer[w].new, "due")
  /\ forgotten' = forgotten

\* The row of the document is not locked while its file is replaced.
BeginUploadUnlocked(w, d) ==
  /\ writer[w].pc = "idle"
  /\ writer' = [writer EXCEPT ![w] = [Idle EXCEPT !.pc = "open", !.record = d, !.old = uri[d]]]
  /\ UNCHANGED <<object, uri, outbox, cleaner, forgotten, retries>>

\* A failed deletion drops its intent.
DeletionFailsForGood(k) ==
  /\ cleaner[k].pc = "checked"
  /\ outbox' = [outbox EXCEPT ![cleaner[k].object] = "none"]
  /\ cleaner' = [cleaner EXCEPT ![k] = Free]
  /\ UNCHANGED <<object, uri, writer, forgotten, retries>>
-----------------------------------------------------------------------------
(***************************************************************************)
(* Sessions that write records.                                            *)
(***************************************************************************)

\* store_event_with_artifact inserts the event in a savepoint; an event that
\* another transaction has committed is deduplicated and stores nothing.
BeginEvent(w, e) ==
  /\ writer[w].pc = "idle" /\ ~ Locked(e) /\ uri[e] = None
  /\ writer' = [writer EXCEPT ![w] = [Idle EXCEPT !.pc = "open", !.record = e]]
  /\ UNCHANGED <<object, uri, outbox, cleaner, forgotten, retries>>

\* upload_document_file and upload_report lock the row before they read the
\* file they replace.
BeginUpload(w, d) ==
  /\ writer[w].pc = "idle" /\ ~ Locked(d)
  /\ writer' = [writer EXCEPT ![w] = [Idle EXCEPT !.pc = "open", !.record = d, !.old = uri[d]]]
  /\ UNCHANGED <<object, uri, outbox, cleaner, forgotten, retries>>

\* put_bytes or put_file, then track_unpublished_object.
Put(w, o) ==
  /\ writer[w].pc = "open" /\ object[o] = "unused"
  /\ object' = [object EXCEPT ![o] = "stored"]
  /\ writer' = [writer EXCEPT ![w].pc = "stored", ![w].new = o]
  /\ UNCHANGED <<uri, outbox, cleaner, forgotten, retries>>

\* The store keeps the object and its answer is lost: nothing tracks it.
PutUnanswered(w, o) ==
  /\ writer[w].pc = "open" /\ object[o] = "unused"
  /\ object' = [object EXCEPT ![o] = "stored"]
  /\ forgotten' = forgotten \cup {o}
  /\ writer' = [writer EXCEPT ![w] = Idle]
  /\ UNCHANGED <<uri, outbox, cleaner, retries>>

\* What the database does on a commit: the record names the new object and
\* the replaced one is queued, due at once, in the same transaction.
Published(w) ==
  /\ uri' = [uri EXCEPT ![writer[w].record] = writer[w].new]
  /\ outbox' = Queued(outbox, writer[w].old, "due")

Commit(w) ==
  /\ writer[w].pc = "stored"
  /\ Published(w)
  /\ writer' = [writer EXCEPT ![w] = Idle]
  /\ UNCHANGED <<object, cleaner, forgotten, retries>>

\* _queue_unpublished_objects: the session ended without a commit it knows of.
\* The object waits for the grace period; when the database is unavailable,
\* or the process is killed, nothing is queued.
Unpublished(w) ==
  \/ /\ outbox' = Queued(outbox, writer[w].new, "waiting")
     /\ forgotten' = forgotten
  \/ /\ outbox' = outbox
     /\ forgotten' = forgotten \cup ({writer[w].new} \ {None})

\* The store refuses the object, a later statement fails, or the session is
\* closed: the database rolls back.
Rollback(w) ==
  /\ writer[w].pc \in {"open", "stored"}
  /\ Unpublished(w)
  /\ writer' = [writer EXCEPT ![w] = Idle]
  /\ UNCHANGED <<object, uri, cleaner, retries>>

\* The connection is lost while the commit is on its way: the session ends
\* as if it had failed, and the database may commit it still.
LoseConnection(w) ==
  /\ writer[w].pc = "stored"
  /\ Unpublished(w)
  /\ writer' = [writer EXCEPT ![w].pc = "doubt"]
  /\ UNCHANGED <<object, uri, cleaner, retries>>

Resolve(w) ==
  /\ writer[w].pc = "doubt"
  /\ Published(w) \/ UNCHANGED <<uri, outbox>>
  /\ writer' = [writer EXCEPT ![w] = Idle]
  /\ UNCHANGED <<object, cleaner, forgotten, retries>>

\* database_batch, _remove or delete_document: the record goes and its object
\* is queued in the transaction that deletes it.
Remove(r) ==
  /\ uri[r] # None /\ ~ Locked(r)
  /\ uri' = [uri EXCEPT ![r] = None]
  /\ outbox' = Queued(outbox, uri[r], "due")
  /\ UNCHANGED <<object, writer, cleaner, forgotten, retries>>
-----------------------------------------------------------------------------
(***************************************************************************)
(* Clean-up of the outbox.                                                 *)
(***************************************************************************)

\* The time of a row comes: its grace period or its backoff is over.  The
\* grace period outlasts a commit in doubt.
Elapse(o) ==
  /\ outbox[o] = "waiting"
  /\ ~ \E w \in Writers : writer[w].pc = "doubt" /\ writer[w].new = o
  /\ outbox' = [outbox EXCEPT ![o] = "due"]
  /\ UNCHANGED <<object, uri, writer, cleaner, forgotten, retries>>

\* storage_batch locks a due row that no other cleaner has locked, and puts
\* it off when a record still names the object.
Pick(k, o) ==
  /\ cleaner[k] = Free /\ outbox[o] = "due" /\ ~ RowLocked(o)
  /\ \/ /\ Referenced(o)
        /\ outbox' = [outbox EXCEPT ![o] = "waiting"]
        /\ cleaner' = cleaner
     \/ /\ ~ Referenced(o)
        /\ cleaner' = [cleaner EXCEPT ![k] = [pc |-> "checked", object |-> o]]
        /\ outbox' = outbox
  /\ UNCHANGED <<object, uri, writer, forgotten, retries>>

DeleteObject(k) ==
  /\ cleaner[k].pc = "checked"
  /\ object' = [object EXCEPT ![cleaner[k].object] = "deleted"]
  /\ cleaner' = [cleaner EXCEPT ![k].pc = "deleted"]
  /\ UNCHANGED <<uri, outbox, writer, forgotten, retries>>

\* The store refuses (permissions, Object Lock, connectivity): back off.
DeletionFails(k) ==
  /\ cleaner[k].pc = "checked"
  /\ outbox' = [outbox EXCEPT ![cleaner[k].object] = "waiting"]
  /\ cleaner' = [cleaner EXCEPT ![k] = Free]
  /\ UNCHANGED <<object, uri, writer, forgotten, retries>>

DeleteRow(k) ==
  /\ cleaner[k].pc = "deleted"
  /\ outbox' = [outbox EXCEPT ![cleaner[k].object] = "none"]
  /\ cleaner' = [cleaner EXCEPT ![k] = Free]
  /\ UNCHANGED <<object, uri, writer, forgotten, retries>>

\* A cleaner killed, or its database commit failing, leaves the row as it was.
CleanerDies(k) ==
  /\ cleaner[k] # Free
  /\ cleaner' = [cleaner EXCEPT ![k] = Free]
  /\ UNCHANGED <<object, uri, outbox, writer, forgotten, retries>>

\* retry_storage updates every row of the outbox; it waits for locked ones.
RetryStorage ==
  /\ retries < MaxRetries
  /\ \A k \in Cleaners : cleaner[k] = Free
  /\ outbox' = [o \in Objects |-> IF outbox[o] = "waiting" THEN "due" ELSE outbox[o]]
  /\ retries' = retries + 1
  /\ UNCHANGED <<object, uri, writer, cleaner, forgotten>>
-----------------------------------------------------------------------------
Write ==
  \E w \in Writers :
    \/ \E e \in Events : BeginEvent(w, e)
    \/ \E d \in Documents : BeginUpload(w, d)
    \/ \E o \in Objects : Put(w, o) \/ PutUnanswered(w, o)
    \/ Commit(w) \/ Rollback(w) \/ LoseConnection(w) \/ Resolve(w)

Clean ==
  \E k \in Cleaners :
    \/ \E o \in Objects : Pick(k, o)
    \/ DeleteObject(k) \/ DeletionFails(k) \/ DeleteRow(k) \/ CleanerDies(k)

Next ==
  \/ Write
  \/ \E r \in Records : Remove(r)
  \/ \E o \in Objects : Elapse(o)
  \/ Clean
  \/ RetryStorage

Spec == Init /\ [][Next]_vars

\* Sessions end, commits in doubt are resolved, time passes, beat starts a
\* clean-up every minute which takes due rows in turn, and a store that is
\* asked again and again deletes the object in the end.
Fairness ==
  /\ \A w \in Writers : WF_vars(Commit(w) \/ Rollback(w)) /\ WF_vars(Resolve(w))
  /\ \A o \in Objects :
       /\ WF_vars(Elapse(o))
       /\ SF_vars(\E k \in Cleaners : Pick(k, o))
       /\ SF_vars(\E k \in Cleaners : cleaner[k].object = o /\ DeleteObject(k))
       /\ SF_vars(\E k \in Cleaners : cleaner[k].object = o /\ DeleteRow(k))
  /\ \A k \in Cleaners :
       WF_vars(DeleteObject(k) \/ DeletionFails(k) \/ DeleteRow(k) \/ CleanerDies(k))

FairSpec == Spec /\ Fairness
-----------------------------------------------------------------------------
(***************************************************************************)
(* Requirements.                                                           *)
(***************************************************************************)

\* Each variable has its type, and a locked outbox row is there and is locked
\* by one cleaner (FOR UPDATE SKIP LOCKED in storage_batch).
TypeOK ==
  /\ object \in [Objects -> {"unused", "stored", "deleted"}]
  /\ uri \in [Records -> Objects \cup {None}]
  /\ outbox \in [Objects -> {"none", "waiting", "due"}]
  /\ writer \in [Writers -> [pc : {"idle", "open", "stored", "doubt"},
                             record : Records \cup {None},
                             new : Objects \cup {None},
                             old : Objects \cup {None}]]
  /\ cleaner \in [Cleaners -> [pc : {"idle", "checked", "deleted"},
                               object : Objects \cup {None}]]
  /\ forgotten \subseteq Objects
  /\ retries \in 0..MaxRetries
  /\ \A k \in Cleaners : (cleaner[k].pc = "idle") <=> (cleaner[k].object = None)
  /\ \A k \in Cleaners : cleaner[k].object # None => outbox[cleaner[k].object] # "none"
  /\ \A k, l \in Cleaners : cleaner[k].object = cleaner[l].object /\ k # l => cleaner[k] = Free

\* The file of every record that is kept can be read: clean-up never deletes
\* an object whose transaction commits after all ("a commit whose outcome the
\* client never saw can still become visible", app/db/session.py:21-23).
RecordsHaveTheirObject ==
  \A r \in Records : uri[r] # None => object[uri[r]] = "stored"

\* So it is as long as no administrator makes clean-up due: the grace period
\* of a commit in doubt is over before clean-up asks who names the object.
KeptUntilRetried == retries = 0 => RecordsHaveTheirObject

\* No object is left in the store outside retention: a record names it, a
\* transaction may still publish it, or it is queued.  The exceptions are the
\* objects whose session could not queue them, which the code only logs.
NothingIsLeftBehind ==
  \A o \in Objects :
    object[o] = "stored" => Referenced(o) \/ InUse(o) \/ outbox[o] # "none" \/ o \in forgotten

\* A queued object is deleted, unless a record names it, whatever fails on
\* the way ("Stored-file cleanup is durable", administrator-retention.html).
QueuedObjectsGo ==
  \A o \in Objects : outbox[o] # "none" ~> object[o] = "deleted" \/ Referenced(o)
=============================================================================
