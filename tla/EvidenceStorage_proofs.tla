------------------------ MODULE EvidenceStorage_proofs ------------------------
(***************************************************************************)
(* Proofs about EvidenceStorage, for every set of objects, records,        *)
(* sessions and cleaners: the outbox rows and objects that clean-up works  *)
(* on, that no object is left behind, and that without retry_storage no    *)
(* record loses its object.                                                *)
(***************************************************************************)
EXTENDS EvidenceStorage, TLAPS

\* What a session knows of its transaction: it names the record it has
\* locked, the object it has stored, and the file it replaces.
SessionsKnow ==
  \A w \in Writers :
    /\ writer[w].pc = "idle" => writer[w].record = None
    /\ writer[w].pc \in {"idle", "open"} => writer[w].new = None
    /\ writer[w].pc # "idle" => writer[w].record \in Records /\ writer[w].old = uri[writer[w].record]
    /\ writer[w].pc \in {"stored", "doubt"} => writer[w].new \in Objects

\* Row locks: the open transactions write different records.
LocksApart ==
  \A v, w \in Writers :
    writer[v].pc # "idle" /\ writer[v].record = writer[w].record => v = w

\* A cleaner deletes the row after the object.
RowsAfterObjects ==
  \A k \in Cleaners : cleaner[k].pc = "deleted" => object[cleaner[k].object] = "deleted"

\* An object whose commit is in doubt has been queued, or forgotten.
DoubtfulAreQueued ==
  \A w \in Writers :
    writer[w].pc = "doubt" =>
      \/ object[writer[w].new] = "deleted"
      \/ outbox[writer[w].new] # "none"
      \/ writer[w].new \in forgotten

Inv == TypeOK /\ SessionsKnow /\ LocksApart /\ RowsAfterObjects
         /\ DoubtfulAreQueued /\ NothingIsLeftBehind
Session == [pc : {"idle", "open", "stored", "doubt"},
            record : Records \cup {None},
            new : Objects \cup {None},
            old : Objects \cup {None}]
Sessions == [Writers -> Session]
-----------------------------------------------------------------------------
LEMMA QueuedKeepsRows ==
  ASSUME NEW rows \in [Objects -> {"none", "waiting", "due"}],
         NEW o \in Objects \cup {None}, NEW status \in {"waiting", "due"}
  PROVE  /\ Queued(rows, o, status) \in [Objects -> {"none", "waiting", "due"}]
         /\ \A p \in Objects : rows[p] # "none" => Queued(rows, o, status)[p] = rows[p]
         /\ \A p \in Objects : p = o => Queued(rows, o, status)[p] # "none"
         /\ \A p \in Objects : p # o => Queued(rows, o, status)[p] = rows[p]
  BY NoneAssumption DEF Queued

LEMMA Initially == Init => Inv
  BY NoneAssumption, MaxRetriesAssumption
  DEF Init, Inv, TypeOK, SessionsKnow, LocksApart, RowsAfterObjects, DoubtfulAreQueued,
      NothingIsLeftBehind, Idle, Free, Records

LEMMA StepKeepsTypes == TypeOK /\ SessionsKnow /\ [Next]_vars => TypeOK'
<1> SUFFICES ASSUME TypeOK, SessionsKnow, [Next]_vars PROVE TypeOK'
  OBVIOUS
<1> USE NoneAssumption, MaxRetriesAssumption
<1>1. ASSUME NEW w \in Writers, NEW e \in Events, BeginEvent(w, e) PROVE TypeOK'
  BY <1>1 DEF BeginEvent, TypeOK, Idle, Records
<1>2. ASSUME NEW w \in Writers, NEW d \in Documents, BeginUpload(w, d) PROVE TypeOK'
  BY <1>2 DEF BeginUpload, TypeOK, Idle, Records
<1>3. ASSUME NEW w \in Writers, NEW o \in Objects, Put(w, o) PROVE TypeOK'
  <2>1. writer' = [writer EXCEPT ![w] = [writer[w] EXCEPT !.pc = "stored", !.new = o]]
    BY <1>3 DEF Put, TypeOK
  <2>2. writer \in Sessions
    BY DEF TypeOK, Sessions, Session
  <2>3. writer[w] \in Session
    BY <2>2 DEF Sessions, Session
  <2>4. [writer[w] EXCEPT !.pc = "stored", !.new = o] \in Session
    BY <2>3 DEF Session
  <2>5. writer' \in Sessions
    BY <2>1, <2>2, <2>4 DEF Sessions, Session
  <2>6. QED
    BY <1>3, <2>5 DEF Put, TypeOK, Sessions, Session
<1>4. ASSUME NEW w \in Writers, NEW o \in Objects, PutUnanswered(w, o) PROVE TypeOK'
  BY <1>4 DEF PutUnanswered, TypeOK, Idle
<1>5. ASSUME NEW w \in Writers, Commit(w) PROVE TypeOK'
  <2>1. writer[w].old \in Objects \cup {None} /\ writer[w].new \in Objects \cup {None}
    BY DEF TypeOK
  <2>2. writer' \in Sessions /\ uri' \in [Records -> Objects \cup {None}]
    BY <1>5, <2>1 DEF Commit, Published, TypeOK, Idle, Sessions, Session
  <2>3. /\ outbox' \in [Objects -> {"none", "waiting", "due"}]
        /\ \A p \in Objects : outbox[p] # "none" => outbox'[p] = outbox[p]
    BY <1>5, <2>1, QueuedKeepsRows DEF Commit, Published, TypeOK
  <2>4. QED
    BY <1>5, <2>2, <2>3 DEF Commit, TypeOK, Sessions, Session
<1>6. ASSUME NEW w \in Writers, Rollback(w) PROVE TypeOK'
  BY <1>6, QueuedKeepsRows DEF Rollback, Unpublished, TypeOK, Idle
<1>7. ASSUME NEW w \in Writers, LoseConnection(w) PROVE TypeOK'
  <2>1. writer[w].new \in Objects \cup {None}
    BY DEF TypeOK
  <2>2. writer' \in Sessions /\ forgotten' \subseteq Objects
    BY <1>7, <2>1 DEF LoseConnection, Unpublished, TypeOK, Sessions, Session
  <2>3. /\ outbox' \in [Objects -> {"none", "waiting", "due"}]
        /\ \A p \in Objects : outbox[p] # "none" => outbox'[p] = outbox[p]
    BY <1>7, <2>1, QueuedKeepsRows DEF LoseConnection, Unpublished, TypeOK
  <2>4. QED
    BY <1>7, <2>2, <2>3 DEF LoseConnection, TypeOK, Sessions, Session
<1>8. ASSUME NEW w \in Writers, Resolve(w) PROVE TypeOK'
  BY <1>8, QueuedKeepsRows DEF Resolve, Published, TypeOK, Idle
<1>9. ASSUME NEW r \in Records, Remove(r) PROVE TypeOK'
  BY <1>9, QueuedKeepsRows DEF Remove, TypeOK
<1>10. ASSUME NEW o \in Objects, Elapse(o) PROVE TypeOK'
  BY <1>10 DEF Elapse, TypeOK
<1>11. ASSUME NEW k \in Cleaners, NEW o \in Objects, Pick(k, o) PROVE TypeOK'
  <2>1. CASE outbox' = [outbox EXCEPT ![o] = "waiting"] /\ cleaner' = cleaner
    BY <1>11, <2>1 DEF Pick, TypeOK
  <2>2. CASE cleaner' = [cleaner EXCEPT ![k] = [pc |-> "checked", object |-> o]] /\ outbox' = outbox
    <3>1. \A l \in Cleaners : cleaner[l].object # o
      BY <1>11 DEF Pick, RowLocked
    <3>2. /\ cleaner'[k].pc = "checked" /\ cleaner'[k].object = o /\ outbox[o] # "none"
          /\ \A l \in Cleaners : l # k => cleaner'[l] = cleaner[l]
          /\ cleaner' \in [Cleaners -> [pc : {"idle", "checked", "deleted"},
                                       object : Objects \cup {None}]]
      BY <1>11, <2>2 DEF Pick, TypeOK
    <3>3. \A l, m \in Cleaners : cleaner'[l].object = cleaner'[m].object /\ l # m => cleaner'[l] = Free
      BY <3>1, <3>2 DEF TypeOK
    <3>4. QED
      BY <1>11, <2>2, <3>2, <3>3 DEF Pick, TypeOK
  <2>3. QED
    BY <1>11, <2>1, <2>2 DEF Pick
<1>12. ASSUME NEW k \in Cleaners, DeleteObject(k) PROVE TypeOK'
  BY <1>12 DEF DeleteObject, TypeOK, Free
<1>13. ASSUME NEW k \in Cleaners, DeletionFails(k) PROVE TypeOK'
  BY <1>13 DEF DeletionFails, TypeOK, Free
<1>14. ASSUME NEW k \in Cleaners, DeleteRow(k) PROVE TypeOK'
  BY <1>14 DEF DeleteRow, TypeOK, Free
<1>15. ASSUME NEW k \in Cleaners, CleanerDies(k) PROVE TypeOK'
  BY <1>15 DEF CleanerDies, TypeOK, Free
<1>16. CASE RetryStorage
  BY <1>16 DEF RetryStorage, TypeOK, Free
<1>17. CASE UNCHANGED vars
  BY <1>17 DEF vars, TypeOK
<1>18. QED
  BY <1>1, <1>2, <1>3, <1>4, <1>5, <1>6, <1>7, <1>8, <1>9, <1>10, <1>11, <1>12, <1>13,
     <1>14, <1>15, <1>16, <1>17 DEF Next, Write, Clean

\* What a session knows, its locks and the state of the objects after a step
\* of the sessions: only session w and its record change.
LEMMA StepKeepsSessions == Inv /\ [Next]_vars => SessionsKnow' /\ LocksApart'
<1> SUFFICES ASSUME Inv, [Next]_vars PROVE SessionsKnow' /\ LocksApart'
  OBVIOUS
<1> USE NoneAssumption
<1>t. /\ writer \in Sessions /\ uri \in [Records -> Objects \cup {None}]
      /\ SessionsKnow /\ LocksApart
  BY DEF Inv, TypeOK, Sessions, Session
<1>1. ASSUME NEW w \in Writers, NEW r \in Records, ~ Locked(r), uri' = uri,
             writer'[w].pc = "open", writer'[w].record = r,
             writer'[w].new = None, writer'[w].old = uri[r],
             \A v \in Writers \ {w} : writer'[v] = writer[v]
      PROVE  SessionsKnow' /\ LocksApart'
  <2>1. SessionsKnow'
    BY <1>1, <1>t DEF SessionsKnow
  <2>2. \A v \in Writers \ {w} : writer[v].record # r
    BY <1>1, <1>t DEF Locked, SessionsKnow, Records
  <2>3. LocksApart'
    BY <1>1, <1>t, <2>2 DEF LocksApart
  <2>4. QED
    BY <2>1, <2>3
<1>2. ASSUME NEW w \in Writers, writer' = [writer EXCEPT ![w] = Idle],
             writer[w].pc # "idle",
             uri' = uri \/ uri' = [uri EXCEPT ![writer[w].record] = writer[w].new]
      PROVE  SessionsKnow' /\ LocksApart'
  <2>1. /\ writer'[w].pc = "idle" /\ writer'[w].record = None /\ writer'[w].new = None
        /\ \A v \in Writers \ {w} : writer'[v] = writer[v]
    BY <1>2, <1>t DEF Sessions, Session, Idle
  <2>2. \A v \in Writers \ {w} :
          writer[v].pc # "idle" => uri'[writer[v].record] = uri[writer[v].record]
    BY <1>2, <1>t DEF LocksApart, SessionsKnow
  <2>3. SessionsKnow'
    BY <1>t, <2>1, <2>2 DEF SessionsKnow
  <2>4. LocksApart'
    BY <1>t, <2>1 DEF LocksApart, SessionsKnow, Records
  <2>5. QED
    BY <2>3, <2>4
<1>3. ASSUME NEW w \in Writers, NEW e \in Events, BeginEvent(w, e) PROVE SessionsKnow' /\ LocksApart'
  BY <1>1, <1>3, <1>t DEF BeginEvent, Records, Idle, Sessions, Session
<1>4. ASSUME NEW w \in Writers, NEW d \in Documents, BeginUpload(w, d) PROVE SessionsKnow' /\ LocksApart'
  BY <1>1, <1>4, <1>t DEF BeginUpload, Records, Idle, Sessions, Session
<1>5. ASSUME NEW w \in Writers, NEW o \in Objects, Put(w, o) PROVE SessionsKnow' /\ LocksApart'
  <2>1. /\ writer'[w] = [writer[w] EXCEPT !.pc = "stored", !.new = o]
        /\ \A v \in Writers \ {w} : writer'[v] = writer[v]
        /\ uri' = uri /\ writer[w].pc = "open"
    BY <1>5, <1>t DEF Put, Sessions, Session
  <2>2. /\ \A v \in Writers \ {w} : writer'[v] = writer[v]
        /\ uri' = uri /\ writer[w].pc = "open"
        /\ writer'[w].pc = "stored" /\ writer'[w].record = writer[w].record
        /\ writer'[w].new = o /\ writer'[w].old = writer[w].old
    BY <2>1, <1>t DEF Sessions, Session
  <2>3. SessionsKnow'
    BY <1>t, <2>2 DEF SessionsKnow
  <2>4. LocksApart'
    BY <1>t, <2>2 DEF LocksApart
  <2>5. QED
    BY <2>3, <2>4
<1>6. ASSUME NEW w \in Writers, NEW o \in Objects, PutUnanswered(w, o) PROVE SessionsKnow' /\ LocksApart'
  BY <1>2, <1>6 DEF PutUnanswered
<1>7. ASSUME NEW w \in Writers, Commit(w) PROVE SessionsKnow' /\ LocksApart'
  BY <1>2, <1>7 DEF Commit, Published
<1>8. ASSUME NEW w \in Writers, Rollback(w) PROVE SessionsKnow' /\ LocksApart'
  BY <1>2, <1>8 DEF Rollback
<1>9. ASSUME NEW w \in Writers, LoseConnection(w) PROVE SessionsKnow' /\ LocksApart'
  <2>1. /\ writer'[w] = [writer[w] EXCEPT !.pc = "doubt"]
        /\ \A v \in Writers \ {w} : writer'[v] = writer[v]
        /\ uri' = uri /\ writer[w].pc = "stored"
    BY <1>9, <1>t DEF LoseConnection, Sessions, Session
  <2>2. /\ \A v \in Writers \ {w} : writer'[v] = writer[v]
        /\ uri' = uri /\ writer[w].pc = "stored"
        /\ writer'[w].pc = "doubt" /\ writer'[w].record = writer[w].record
        /\ writer'[w].new = writer[w].new /\ writer'[w].old = writer[w].old
    BY <2>1, <1>t DEF Sessions, Session
  <2>3. SessionsKnow'
    BY <1>t, <2>2 DEF SessionsKnow
  <2>4. LocksApart'
    BY <1>t, <2>2 DEF LocksApart
  <2>5. QED
    BY <2>3, <2>4
<1>10. ASSUME NEW w \in Writers, Resolve(w) PROVE SessionsKnow' /\ LocksApart'
  BY <1>2, <1>10 DEF Resolve, Published
<1>11. ASSUME NEW r \in Records, Remove(r) PROVE SessionsKnow' /\ LocksApart'
  BY <1>11, <1>t DEF Remove, Locked, SessionsKnow, LocksApart
<1>12. CASE UNCHANGED <<writer, uri>>
  BY <1>12, <1>t DEF SessionsKnow, LocksApart
<1>13. QED
  BY <1>3, <1>4, <1>5, <1>6, <1>7, <1>8, <1>9, <1>10, <1>11, <1>12
  DEF Next, Write, Clean, Elapse, Pick, DeleteObject, DeletionFails, DeleteRow, CleanerDies,
      RetryStorage, vars

\* The objects in hand after a step of the sessions or of clean-up.
StoresAccountedFor == RowsAfterObjects /\ DoubtfulAreQueued /\ NothingIsLeftBehind

LEMMA StepKeepsAccounts == Inv /\ [Next]_vars => StoresAccountedFor'
<1> SUFFICES ASSUME Inv, [Next]_vars PROVE StoresAccountedFor'
  OBVIOUS
<1> USE NoneAssumption
<1> USE DEF StoresAccountedFor, RowsAfterObjects, DoubtfulAreQueued, NothingIsLeftBehind,
            Referenced, InUse
<1>t. /\ writer \in Sessions /\ uri \in [Records -> Objects \cup {None}]
      /\ object \in [Objects -> {"unused", "stored", "deleted"}]
      /\ outbox \in [Objects -> {"none", "waiting", "due"}]
      /\ cleaner \in [Cleaners -> [pc : {"idle", "checked", "deleted"},
                                   object : Objects \cup {None}]]
      /\ \A k \in Cleaners : cleaner[k].pc = "idle" <=> cleaner[k].object = None
      /\ SessionsKnow /\ LocksApart /\ StoresAccountedFor
  BY DEF Inv, TypeOK, Sessions, Session
<1>1. ASSUME NEW w \in Writers, NEW e \in Events, BeginEvent(w, e) PROVE StoresAccountedFor'
  <2>1. /\ writer'[w].pc = "open" /\ writer[w].new = None
        /\ \A v \in Writers \ {w} : writer'[v] = writer[v]
    BY <1>1, <1>t DEF BeginEvent, Sessions, Session, Idle, SessionsKnow
  <2>2. QED
    BY <1>1, <1>t, <2>1 DEF BeginEvent
<1>2. ASSUME NEW w \in Writers, NEW d \in Documents, BeginUpload(w, d) PROVE StoresAccountedFor'
  <2>1. /\ writer'[w].pc = "open" /\ writer[w].new = None
        /\ \A v \in Writers \ {w} : writer'[v] = writer[v]
    BY <1>2, <1>t DEF BeginUpload, Sessions, Session, Idle, SessionsKnow
  <2>2. QED
    BY <1>2, <1>t, <2>1 DEF BeginUpload
<1>3. ASSUME NEW w \in Writers, NEW o \in Objects, Put(w, o) PROVE StoresAccountedFor'
  <2>1. /\ writer'[w].pc = "stored" /\ writer'[w].new = o /\ writer[w].new = None
        /\ \A v \in Writers \ {w} : writer'[v] = writer[v]
    BY <1>3, <1>t DEF Put, Sessions, Session, SessionsKnow
  <2>2. RowsAfterObjects'
    BY <1>3, <1>t, <2>1 DEF Put, SessionsKnow
  <2>o. /\ object'[o] = "stored" /\ object[o] = "unused"
        /\ \A p \in Objects : p # o => object'[p] = object[p]
        /\ UNCHANGED <<uri, outbox, forgotten>>
    BY <1>3, <1>t DEF Put
  <2>3. DoubtfulAreQueued'
    <3>1. SUFFICES ASSUME NEW v \in Writers, writer'[v].pc = "doubt"
                   PROVE  \/ object'[writer'[v].new] = "deleted"
                          \/ outbox'[writer'[v].new] # "none"
                          \/ writer'[v].new \in forgotten'
      OBVIOUS
    <3>2. writer'[v] = writer[v] /\ writer[v].new \in Objects
      BY <1>t, <2>1, <3>1 DEF SessionsKnow
    <3>3. QED
      BY <1>t, <2>o, <3>1, <3>2
  <2>4. NothingIsLeftBehind'
    <3>1. SUFFICES ASSUME NEW p \in Objects, object'[p] = "stored"
                   PROVE  Referenced(p)' \/ InUse(p)' \/ outbox'[p] # "none" \/ p \in forgotten'
      OBVIOUS
    <3>2. CASE p = o
      BY <2>1, <3>2
    <3>3. CASE p # o
      <4>1. Referenced(p) \/ InUse(p) \/ outbox[p] # "none" \/ p \in forgotten
        BY <1>t, <2>o, <3>1, <3>3
      <4>2. InUse(p) => InUse(p)'
        BY <2>1
      <4>3. QED
        BY <4>1, <4>2, <2>o
    <3>4. QED
      BY <3>2, <3>3
  <2>5. QED
    BY <2>2, <2>3, <2>4
<1>4. ASSUME NEW w \in Writers, NEW o \in Objects, PutUnanswered(w, o) PROVE StoresAccountedFor'
  <2>1. /\ writer'[w].pc = "idle" /\ writer[w].new = None
        /\ \A v \in Writers \ {w} : writer'[v] = writer[v]
    BY <1>4, <1>t DEF PutUnanswered, Sessions, Session, Idle, SessionsKnow
  <2>2. QED
    BY <1>4, <1>t, <2>1 DEF PutUnanswered, SessionsKnow
\* A commit publishes the new object and queues the replaced one.
<1>p. ASSUME NEW w \in Writers, writer[w].pc \in {"stored", "doubt"}, Published(w),
             writer' = [writer EXCEPT ![w] = Idle], UNCHANGED <<object, cleaner, forgotten>>
      PROVE  StoresAccountedFor'
  <2>1. /\ writer[w].record \in Records /\ writer[w].new \in Objects
        /\ writer[w].old \in Objects \cup {None} /\ writer[w].old = uri[writer[w].record]
    BY <1>p, <1>t DEF SessionsKnow, Sessions, Session
  <2>2. /\ writer'[w].pc = "idle"
        /\ \A v \in Writers \ {w} : writer'[v] = writer[v]
    BY <1>p, <1>t DEF Sessions, Session, Idle
  <2>3. /\ \A p \in Objects : outbox[p] # "none" => outbox'[p] # "none"
        /\ \A p \in Objects : p = uri[writer[w].record] => outbox'[p] # "none"
    BY <1>p, <1>t, <2>1, QueuedKeepsRows DEF Published
  <2>4. /\ uri'[writer[w].record] = writer[w].new
        /\ \A r \in Records : r # writer[w].record => uri'[r] = uri[r]
    BY <1>p, <1>t, <2>1 DEF Published
  <2>5. NothingIsLeftBehind'
    <3>1. SUFFICES ASSUME NEW o \in Objects, object[o] = "stored"
                   PROVE  Referenced(o)' \/ InUse(o)' \/ outbox'[o] # "none" \/ o \in forgotten
      BY <1>p
    <3>2. CASE Referenced(o)
      BY <3>2, <2>3, <2>4
    <3>3. CASE InUse(o)
      BY <3>3, <2>1, <2>2, <2>4
    <3>4. QED
      BY <1>t, <3>1, <3>2, <3>3, <2>3
  <2>6. RowsAfterObjects'
    BY <1>p, <1>t
  <2>7. DoubtfulAreQueued'
    BY <1>p, <1>t, <2>2, <2>3 DEF SessionsKnow
  <2>8. QED
    BY <2>5, <2>6, <2>7
<1>5. ASSUME NEW w \in Writers, Commit(w) PROVE StoresAccountedFor'
  BY <1>p, <1>5 DEF Commit
<1>u. ASSUME NEW w \in Writers, Unpublished(w)
      PROVE  /\ \A p \in Objects : outbox[p] # "none" => outbox'[p] # "none"
             /\ forgotten \subseteq forgotten'
             /\ writer[w].new \in Objects =>
                  outbox'[writer[w].new] # "none" \/ writer[w].new \in forgotten'
  <2>1. writer[w].new \in Objects \cup {None}
    BY <1>t DEF Sessions, Session
  <2>2. QED
    BY <1>u, <1>t, <2>1, QueuedKeepsRows DEF Unpublished
<1>6. ASSUME NEW w \in Writers, Rollback(w) PROVE StoresAccountedFor'
  <2>1. /\ writer'[w].pc = "idle"
        /\ \A v \in Writers \ {w} : writer'[v] = writer[v]
    BY <1>6, <1>t DEF Rollback, Sessions, Session, Idle
  <2>2. RowsAfterObjects'
    BY <1>6, <1>t, <1>u, <2>1 DEF Rollback, SessionsKnow
  <2>3. DoubtfulAreQueued'
    BY <1>6, <1>t, <1>u, <2>1 DEF Rollback, SessionsKnow
  <2>4. NothingIsLeftBehind'
    BY <1>6, <1>t, <1>u, <2>1 DEF Rollback, SessionsKnow
  <2>5. QED
    BY <2>2, <2>3, <2>4
<1>7. ASSUME NEW w \in Writers, LoseConnection(w) PROVE StoresAccountedFor'
  <2>1. /\ writer'[w].new = writer[w].new /\ writer[w].new \in Objects
        /\ \A v \in Writers \ {w} : writer'[v] = writer[v]
    BY <1>7, <1>t DEF LoseConnection, Sessions, Session, SessionsKnow
  <2>2. RowsAfterObjects'
    BY <1>7, <1>t, <1>u, <2>1 DEF LoseConnection, SessionsKnow
  <2>3. DoubtfulAreQueued'
    BY <1>7, <1>t, <1>u, <2>1 DEF LoseConnection, SessionsKnow
  <2>4. NothingIsLeftBehind'
    BY <1>7, <1>t, <1>u, <2>1 DEF LoseConnection, SessionsKnow
  <2>5. QED
    BY <2>2, <2>3, <2>4
<1>8. ASSUME NEW w \in Writers, Resolve(w) PROVE StoresAccountedFor'
  <2>1. CASE Published(w)
    BY <1>p, <1>8, <2>1 DEF Resolve
  <2>2. CASE UNCHANGED <<uri, outbox>>
    <3>1. /\ writer'[w].pc = "idle"
          /\ \A v \in Writers \ {w} : writer'[v] = writer[v]
      BY <1>8, <1>t DEF Resolve, Sessions, Session, Idle
    <3>2. QED
      BY <1>8, <1>t, <2>2, <3>1 DEF Resolve
  <2>3. QED
    BY <1>8, <2>1, <2>2 DEF Resolve
<1>9. ASSUME NEW r \in Records, Remove(r) PROVE StoresAccountedFor'
  <2>1. /\ \A p \in Objects : outbox[p] # "none" => outbox'[p] # "none"
        /\ \A p \in Objects : p = uri[r] => outbox'[p] # "none"
    BY <1>9, <1>t, QueuedKeepsRows DEF Remove
  <2>2. RowsAfterObjects'
    BY <1>9, <1>t, <2>1 DEF Remove, SessionsKnow
  <2>3. DoubtfulAreQueued'
    BY <1>9, <1>t, <2>1 DEF Remove, SessionsKnow
  <2>4. NothingIsLeftBehind'
    BY <1>9, <1>t, <2>1 DEF Remove, SessionsKnow
  <2>5. QED
    BY <2>2, <2>3, <2>4
<1>10. ASSUME NEW o \in Objects, Elapse(o) PROVE StoresAccountedFor'
  BY <1>10, <1>t DEF Elapse
<1>11. ASSUME NEW k \in Cleaners, NEW o \in Objects, Pick(k, o) PROVE StoresAccountedFor'
  <2>1. RowsAfterObjects'
    BY <1>11, <1>t DEF Pick, Free, SessionsKnow
  <2>2. DoubtfulAreQueued'
    BY <1>11, <1>t DEF Pick, Free, SessionsKnow
  <2>3. NothingIsLeftBehind'
    BY <1>11, <1>t DEF Pick, Free, SessionsKnow
  <2>4. QED
    BY <2>1, <2>2, <2>3
<1>12. ASSUME NEW k \in Cleaners, DeleteObject(k) PROVE StoresAccountedFor'
  BY <1>12, <1>t DEF DeleteObject
<1>13. ASSUME NEW k \in Cleaners, DeletionFails(k) PROVE StoresAccountedFor'
  BY <1>13, <1>t DEF DeletionFails, Free
<1>14. ASSUME NEW k \in Cleaners, DeleteRow(k) PROVE StoresAccountedFor'
  BY <1>14, <1>t DEF DeleteRow, Free
<1>15. ASSUME NEW k \in Cleaners, CleanerDies(k) PROVE StoresAccountedFor'
  BY <1>15, <1>t DEF CleanerDies, Free
<1>16. CASE RetryStorage
  <2>1. RowsAfterObjects'
    BY <1>16, <1>t DEF RetryStorage, SessionsKnow
  <2>2. DoubtfulAreQueued'
    BY <1>16, <1>t DEF RetryStorage, SessionsKnow
  <2>3. NothingIsLeftBehind'
    BY <1>16, <1>t DEF RetryStorage, SessionsKnow
  <2>4. QED
    BY <2>1, <2>2, <2>3
<1>17. CASE UNCHANGED vars
  BY <1>17, <1>t DEF vars
<1>18. QED
  BY <1>1, <1>2, <1>3, <1>4, <1>5, <1>6, <1>7, <1>8, <1>9, <1>10, <1>11, <1>12, <1>13,
     <1>14, <1>15, <1>16, <1>17 DEF Next, Write, Clean
-----------------------------------------------------------------------------
LEMMA Invariance == Spec => []Inv
<1>1. Inv /\ [Next]_vars => Inv'
  BY StepKeepsTypes, StepKeepsSessions, StepKeepsAccounts DEF Inv, StoresAccountedFor
<1>2. QED
  BY Initially, <1>1, PTL DEF Spec

\* Every variable keeps its type, and a locked row of the outbox exists and is
\* locked by one cleaner (storage_batch).
THEOREM TypeCorrect == Spec => []TypeOK
<1>1. Inv => TypeOK
  BY DEF Inv
<1>2. QED
  BY Invariance, <1>1, PTL

\* Whatever fails, and however often clean-up is made due, a stored object is
\* named by a record, may yet be published, is queued, or was reported lost.
THEOREM NothingIsLeftBehindAlways == Spec => []NothingIsLeftBehind
<1>1. Inv => NothingIsLeftBehind
  BY DEF Inv
<1>2. QED
  BY Invariance, <1>1, PTL
-----------------------------------------------------------------------------
(***************************************************************************)
(* With the grace period respected, no record loses its object.            *)
(***************************************************************************)

Unsettled(w) == writer[w].pc \in {"stored", "doubt"}

\* An object that may yet be published is stored, is named by nobody else and
\* is not due for deletion.
UnsettledAreSafe ==
  \A w \in Writers : Unsettled(w) =>
    /\ object[writer[w].new] = "stored"
    /\ outbox[writer[w].new] # "due"
    /\ writer[w].pc = "stored" => outbox[writer[w].new] = "none"
    /\ \A r \in Records : uri[r] # writer[w].new
    /\ \A v \in Writers : writer[v].new = writer[w].new => v = w

\* A cleaner has locked a due row, and no record names the object it checked.
CleanersAreRight ==
  \A k \in Cleaners : cleaner[k].object # None =>
    /\ outbox[cleaner[k].object] = "due"
    /\ ~ Referenced(cleaner[k].object)

UnusedAreNotQueued == \A o \in Objects : object[o] = "unused" => outbox[o] = "none"

Grace == UnsettledAreSafe /\ CleanersAreRight /\ UnusedAreNotQueued /\ RecordsHaveTheirObject

LEMMA GraceInitially == Init => Grace
  BY NoneAssumption
  DEF Init, Grace, UnsettledAreSafe, Unsettled, CleanersAreRight, UnusedAreNotQueued,
      RecordsHaveTheirObject, Idle, Free

LEMMA StepKeepsGrace ==
  ASSUME retries' = 0, Inv, Grace, [Next]_vars PROVE Grace'
<1> USE NoneAssumption
<1> USE DEF Grace, UnsettledAreSafe, Unsettled, CleanersAreRight, UnusedAreNotQueued,
            RecordsHaveTheirObject, Referenced
<1>t. /\ writer \in Sessions /\ uri \in [Records -> Objects \cup {None}]
      /\ object \in [Objects -> {"unused", "stored", "deleted"}]
      /\ outbox \in [Objects -> {"none", "waiting", "due"}]
      /\ cleaner \in [Cleaners -> [pc : {"idle", "checked", "deleted"},
                                   object : Objects \cup {None}]]
      /\ \A k \in Cleaners : cleaner[k].pc = "idle" <=> cleaner[k].object = None
      /\ \A k, l \in Cleaners : cleaner[k].object = cleaner[l].object /\ k # l => cleaner[k] = Free
      /\ SessionsKnow /\ LocksApart /\ Grace
  BY DEF Inv, TypeOK, Sessions, Session
<1>1. ASSUME NEW w \in Writers, NEW e \in Events, BeginEvent(w, e) PROVE Grace'
  <2>1. /\ writer'[w].pc = "open" /\ writer'[w].new = None /\ writer[w].new = None
        /\ \A v \in Writers \ {w} : writer'[v] = writer[v]
    BY <1>1, <1>t DEF BeginEvent, Sessions, Session, Idle, SessionsKnow
  <2>2. UnsettledAreSafe'
    BY <1>1, <1>t, <2>1 DEF BeginEvent, SessionsKnow
  <2>3. CleanersAreRight'
    BY <1>1, <1>t, <2>1 DEF BeginEvent, SessionsKnow
  <2>4. UnusedAreNotQueued'
    BY <1>1, <1>t, <2>1 DEF BeginEvent, SessionsKnow
  <2>5. RecordsHaveTheirObject'
    BY <1>1, <1>t, <2>1 DEF BeginEvent, SessionsKnow
  <2>6. QED
    BY <2>2, <2>3, <2>4, <2>5
<1>2. ASSUME NEW w \in Writers, NEW d \in Documents, BeginUpload(w, d) PROVE Grace'
  <2>1. /\ writer'[w].pc = "open" /\ writer'[w].new = None /\ writer[w].new = None
        /\ \A v \in Writers \ {w} : writer'[v] = writer[v]
    BY <1>2, <1>t DEF BeginUpload, Sessions, Session, Idle, SessionsKnow
  <2>2. UnsettledAreSafe'
    BY <1>2, <1>t, <2>1 DEF BeginUpload, SessionsKnow
  <2>3. CleanersAreRight'
    BY <1>2, <1>t, <2>1 DEF BeginUpload, SessionsKnow
  <2>4. UnusedAreNotQueued'
    BY <1>2, <1>t, <2>1 DEF BeginUpload, SessionsKnow
  <2>5. RecordsHaveTheirObject'
    BY <1>2, <1>t, <2>1 DEF BeginUpload, SessionsKnow
  <2>6. QED
    BY <2>2, <2>3, <2>4, <2>5
<1>3. ASSUME NEW w \in Writers, NEW o \in Objects, Put(w, o) PROVE Grace'
  <2>1. /\ writer'[w].pc = "stored" /\ writer'[w].new = o /\ writer[w].new = None
        /\ \A v \in Writers \ {w} : writer'[v] = writer[v]
    BY <1>3, <1>t DEF Put, Sessions, Session, Idle, SessionsKnow
  <2>o. /\ object'[o] = "stored" /\ object[o] = "unused"
        /\ \A p \in Objects : p # o => object'[p] = object[p]
        /\ UNCHANGED <<uri, outbox, cleaner>>
    BY <1>3, <1>t DEF Put
  <2>q. \A v \in Writers : Unsettled(v) => writer[v].new \in Objects /\ writer[v].new # o
    BY <1>t, <2>o DEF SessionsKnow
  <2>r. /\ outbox[o] = "none"
        /\ \A r \in Records : uri[r] # o
    BY <1>t, <2>o
  <2>s. \A v \in Writers \ {w} : writer[v].new # o
    BY <1>t, <2>q DEF SessionsKnow, Sessions, Session
  <2>2. UnsettledAreSafe'
    <3>1. SUFFICES ASSUME NEW v \in Writers, Unsettled(v)'
                   PROVE  /\ object'[writer'[v].new] = "stored"
                          /\ outbox'[writer'[v].new] # "due"
                          /\ writer'[v].pc = "stored" => outbox'[writer'[v].new] = "none"
                          /\ \A r \in Records : uri'[r] # writer'[v].new
                          /\ \A x \in Writers : writer'[x].new = writer'[v].new => x = v
      OBVIOUS
    <3>2. CASE v = w
      BY <2>1, <2>o, <2>r, <2>s, <3>2
    <3>3. CASE v # w
      BY <1>t, <2>1, <2>o, <2>q, <3>1, <3>3
    <3>4. QED
      BY <3>2, <3>3
  <2>3. CleanersAreRight'
    BY <1>t, <2>1, <2>o DEF SessionsKnow
  <2>4. UnusedAreNotQueued'
    BY <1>t, <2>1, <2>o DEF SessionsKnow
  <2>5. RecordsHaveTheirObject'
    BY <1>t, <2>1, <2>o DEF SessionsKnow
  <2>6. QED
    BY <2>2, <2>3, <2>4, <2>5
<1>4. ASSUME NEW w \in Writers, NEW o \in Objects, PutUnanswered(w, o) PROVE Grace'
  <2>1. /\ writer'[w].pc = "idle" /\ writer'[w].new = None /\ writer[w].new = None
        /\ \A v \in Writers \ {w} : writer'[v] = writer[v]
    BY <1>4, <1>t DEF PutUnanswered, Sessions, Session, Idle, SessionsKnow
  <2>o. /\ object'[o] = "stored" /\ object[o] = "unused"
        /\ \A p \in Objects : p # o => object'[p] = object[p]
        /\ UNCHANGED <<uri, outbox, cleaner>>
    BY <1>4, <1>t DEF PutUnanswered
  <2>2. UnsettledAreSafe'
    BY <1>t, <2>1, <2>o DEF SessionsKnow
  <2>3. CleanersAreRight'
    BY <1>t, <2>1, <2>o DEF SessionsKnow
  <2>4. UnusedAreNotQueued'
    BY <1>t, <2>1, <2>o DEF SessionsKnow
  <2>5. RecordsHaveTheirObject'
    BY <1>t, <2>1, <2>o DEF SessionsKnow
  <2>6. QED
    BY <2>2, <2>3, <2>4, <2>5
<1>p. ASSUME NEW w \in Writers, Unsettled(w), Published(w),
             writer' = [writer EXCEPT ![w] = Idle], UNCHANGED <<object, cleaner>>
      PROVE  Grace'
  <2>a. /\ writer[w].record \in Records /\ writer[w].new \in Objects
        /\ writer[w].old \in Objects \cup {None} /\ writer[w].old = uri[writer[w].record]
    BY <1>p, <1>t DEF SessionsKnow, Sessions, Session
  <2>1. /\ writer'[w].pc = "idle" /\ writer'[w].new = None
        /\ \A v \in Writers \ {w} : writer'[v] = writer[v]
    BY <1>p, <1>t DEF Sessions, Session, Idle
  <2>b. /\ \A p \in Objects : outbox[p] # "none" => outbox'[p] = outbox[p]
        /\ \A p \in Objects : p # uri[writer[w].record] => outbox'[p] = outbox[p]
    BY <1>p, <1>t, <2>a, QueuedKeepsRows DEF Published
  <2>c. /\ uri'[writer[w].record] = writer[w].new
        /\ \A r \in Records : r # writer[w].record => uri'[r] = uri[r]
    BY <1>p, <1>t, <2>a DEF Published
  <2>2. UnsettledAreSafe'
    BY <1>p, <1>t, <2>a, <2>1, <2>b, <2>c DEF SessionsKnow
  <2>3. CleanersAreRight'
    BY <1>p, <1>t, <2>a, <2>1, <2>b, <2>c DEF SessionsKnow
  <2>4. UnusedAreNotQueued'
    BY <1>p, <1>t, <2>a, <2>1, <2>b, <2>c DEF SessionsKnow
  <2>5. RecordsHaveTheirObject'
    BY <1>p, <1>t, <2>a, <2>1, <2>b, <2>c DEF SessionsKnow
  <2>6. QED
    BY <2>2, <2>3, <2>4, <2>5
<1>5. ASSUME NEW w \in Writers, Commit(w) PROVE Grace'
  BY <1>p, <1>5 DEF Commit
<1>u. ASSUME NEW w \in Writers, Unpublished(w)
      PROVE  /\ \A p \in Objects : outbox[p] # "none" => outbox'[p] = outbox[p]
             /\ \A p \in Objects : p # writer[w].new => outbox'[p] = outbox[p]
             /\ \A p \in Objects : outbox[p] # "due" => outbox'[p] # "due"
  <2>1. writer[w].new \in Objects \cup {None}
    BY <1>t DEF Sessions, Session
  <2>2. QED
    BY <1>u, <1>t, <2>1, QueuedKeepsRows DEF Unpublished, Queued
<1>6. ASSUME NEW w \in Writers, Rollback(w) PROVE Grace'
  <2>1. /\ writer'[w].pc = "idle" /\ writer'[w].new = None /\ (writer[w].new = None \/ Unsettled(w))
        /\ \A v \in Writers \ {w} : writer'[v] = writer[v]
    BY <1>6, <1>t DEF Rollback, Sessions, Session, Idle, SessionsKnow
  <2>2. UnsettledAreSafe'
    BY <1>6, <1>t, <1>u, <2>1 DEF Rollback, SessionsKnow
  <2>3. CleanersAreRight'
    BY <1>6, <1>t, <1>u, <2>1 DEF Rollback, SessionsKnow
  <2>4. UnusedAreNotQueued'
    BY <1>6, <1>t, <1>u, <2>1 DEF Rollback, SessionsKnow
  <2>5. RecordsHaveTheirObject'
    BY <1>6, <1>t, <1>u, <2>1 DEF Rollback, SessionsKnow
  <2>6. QED
    BY <2>2, <2>3, <2>4, <2>5
<1>7. ASSUME NEW w \in Writers, LoseConnection(w) PROVE Grace'
  <2>1. /\ writer'[w].pc = "doubt" /\ writer'[w].new = writer[w].new /\ writer[w].pc = "stored"
        /\ \A v \in Writers \ {w} : writer'[v] = writer[v]
    BY <1>7, <1>t DEF LoseConnection, Sessions, Session, Idle, SessionsKnow
  <2>2. UnsettledAreSafe'
    BY <1>7, <1>t, <1>u, <2>1 DEF LoseConnection, SessionsKnow
  <2>3. CleanersAreRight'
    BY <1>7, <1>t, <1>u, <2>1 DEF LoseConnection, SessionsKnow
  <2>4. UnusedAreNotQueued'
    BY <1>7, <1>t, <1>u, <2>1 DEF LoseConnection, SessionsKnow
  <2>5. RecordsHaveTheirObject'
    BY <1>7, <1>t, <1>u, <2>1 DEF LoseConnection, SessionsKnow
  <2>6. QED
    BY <2>2, <2>3, <2>4, <2>5
<1>8. ASSUME NEW w \in Writers, Resolve(w) PROVE Grace'
  <2>1. CASE Published(w)
    BY <1>p, <1>8, <2>1 DEF Resolve
  <2>2. CASE UNCHANGED <<uri, outbox>>
    <3>1. /\ writer'[w].pc = "idle" /\ writer'[w].new = None
          /\ \A v \in Writers \ {w} : writer'[v] = writer[v]
      BY <1>8, <1>t DEF Resolve, Sessions, Session, Idle
    <3>2. UnsettledAreSafe'
      BY <1>8, <1>t, <2>2, <3>1 DEF Resolve, SessionsKnow
    <3>3. QED
      BY <1>8, <1>t, <2>2, <3>2 DEF Resolve
  <2>3. QED
    BY <1>8, <2>1, <2>2 DEF Resolve
<1>9. ASSUME NEW r \in Records, Remove(r) PROVE Grace'
  <2>1. /\ \A p \in Objects : outbox[p] # "none" => outbox'[p] = outbox[p]
        /\ \A p \in Objects : p # uri[r] => outbox'[p] = outbox[p]
        /\ uri[r] \in Objects
    BY <1>9, <1>t, QueuedKeepsRows DEF Remove
  <2>2. UnsettledAreSafe'
    BY <1>9, <1>t, <2>1 DEF Remove, SessionsKnow
  <2>3. CleanersAreRight'
    BY <1>9, <1>t, <2>1 DEF Remove, SessionsKnow
  <2>4. UnusedAreNotQueued'
    BY <1>9, <1>t, <2>1 DEF Remove, SessionsKnow
  <2>5. RecordsHaveTheirObject'
    BY <1>9, <1>t, <2>1 DEF Remove, SessionsKnow
  <2>6. QED
    BY <2>2, <2>3, <2>4, <2>5
<1>10. ASSUME NEW o \in Objects, Elapse(o) PROVE Grace'
  <2>1. UnsettledAreSafe'
    BY <1>10, <1>t DEF Elapse, SessionsKnow
  <2>2. CleanersAreRight'
    BY <1>10, <1>t DEF Elapse, SessionsKnow
  <2>3. UnusedAreNotQueued'
    BY <1>10, <1>t DEF Elapse, SessionsKnow
  <2>4. RecordsHaveTheirObject'
    BY <1>10, <1>t DEF Elapse, SessionsKnow
  <2>5. QED
    BY <2>1, <2>2, <2>3, <2>4
<1>11. ASSUME NEW k \in Cleaners, NEW o \in Objects, Pick(k, o) PROVE Grace'
  <2>1. UnsettledAreSafe'
    BY <1>11, <1>t DEF Pick, Free, RowLocked, SessionsKnow
  <2>2. CleanersAreRight'
    BY <1>11, <1>t DEF Pick, Free, RowLocked, SessionsKnow
  <2>3. UnusedAreNotQueued'
    BY <1>11, <1>t DEF Pick, Free, RowLocked, SessionsKnow
  <2>4. RecordsHaveTheirObject'
    BY <1>11, <1>t DEF Pick, Free, RowLocked, SessionsKnow
  <2>5. QED
    BY <2>1, <2>2, <2>3, <2>4
<1>12. ASSUME NEW k \in Cleaners, DeleteObject(k) PROVE Grace'
  <2>1. UnsettledAreSafe'
    BY <1>12, <1>t DEF DeleteObject, SessionsKnow
  <2>2. CleanersAreRight'
    BY <1>12, <1>t DEF DeleteObject, SessionsKnow
  <2>3. UnusedAreNotQueued'
    BY <1>12, <1>t DEF DeleteObject, SessionsKnow
  <2>4. RecordsHaveTheirObject'
    BY <1>12, <1>t DEF DeleteObject, SessionsKnow
  <2>5. QED
    BY <2>1, <2>2, <2>3, <2>4
<1>13. ASSUME NEW k \in Cleaners, DeletionFails(k) PROVE Grace'
  <2>1. UnsettledAreSafe'
    BY <1>13, <1>t DEF DeletionFails, Free, SessionsKnow
  <2>2. CleanersAreRight'
    BY <1>13, <1>t DEF DeletionFails, Free, SessionsKnow
  <2>3. UnusedAreNotQueued'
    BY <1>13, <1>t DEF DeletionFails, Free, SessionsKnow
  <2>4. RecordsHaveTheirObject'
    BY <1>13, <1>t DEF DeletionFails, Free, SessionsKnow
  <2>5. QED
    BY <2>1, <2>2, <2>3, <2>4
<1>14. ASSUME NEW k \in Cleaners, DeleteRow(k) PROVE Grace'
  <2>1. UnsettledAreSafe'
    BY <1>14, <1>t DEF DeleteRow, Free, SessionsKnow
  <2>2. CleanersAreRight'
    BY <1>14, <1>t DEF DeleteRow, Free, SessionsKnow
  <2>3. UnusedAreNotQueued'
    BY <1>14, <1>t DEF DeleteRow, Free, SessionsKnow
  <2>4. RecordsHaveTheirObject'
    BY <1>14, <1>t DEF DeleteRow, Free, SessionsKnow
  <2>5. QED
    BY <2>1, <2>2, <2>3, <2>4
<1>15. ASSUME NEW k \in Cleaners, CleanerDies(k) PROVE Grace'
  <2>1. UnsettledAreSafe'
    BY <1>15, <1>t DEF CleanerDies, Free, SessionsKnow
  <2>2. CleanersAreRight'
    BY <1>15, <1>t DEF CleanerDies, Free, SessionsKnow
  <2>3. UnusedAreNotQueued'
    BY <1>15, <1>t DEF CleanerDies, Free, SessionsKnow
  <2>4. RecordsHaveTheirObject'
    BY <1>15, <1>t DEF CleanerDies, Free, SessionsKnow
  <2>5. QED
    BY <2>1, <2>2, <2>3, <2>4
<1>16. ~ RetryStorage
  BY MaxRetriesAssumption DEF RetryStorage, Inv, TypeOK
<1>17. CASE UNCHANGED vars
  BY <1>17, <1>t DEF vars
<1>18. QED
  BY <1>1, <1>2, <1>3, <1>4, <1>5, <1>6, <1>7, <1>8, <1>9, <1>10, <1>11, <1>12, <1>13,
     <1>14, <1>15, <1>16, <1>17 DEF Next, Write, Clean

LEMMA RetriesStay ==
  ASSUME Inv, [Next]_vars, retries' = 0 PROVE retries = 0
<1>1. retries \in Nat
  BY MaxRetriesAssumption DEF Inv, TypeOK
<1>2. CASE RetryStorage
  BY <1>1, <1>2 DEF RetryStorage
<1>3. CASE Write
  BY <1>3 DEF Write, BeginEvent, BeginUpload, Put, PutUnanswered, Commit, Rollback,
              LoseConnection, Resolve
<1>4. CASE \E r \in Records : Remove(r)
  BY <1>4 DEF Remove
<1>5. CASE \E o \in Objects : Elapse(o)
  BY <1>5 DEF Elapse
<1>6. CASE Clean
  BY <1>6 DEF Clean, Pick, DeleteObject, DeletionFails, DeleteRow, CleanerDies
<1>7. CASE UNCHANGED vars
  BY <1>7 DEF vars
<1>8. QED
  BY <1>2, <1>3, <1>4, <1>5, <1>6, <1>7 DEF Next

\* As long as no administrator has made clean-up due, the grace period
\* protects every object whose commit may still become visible: a kept record
\* always has its object.
THEOREM RecordsKeepTheirObject == Spec => []KeptUntilRetried
<1> DEFINE UntilRetried == retries = 0 => Grace
<1>1. Init => UntilRetried
  BY GraceInitially
<1>2. Inv /\ UntilRetried /\ [Next]_vars => UntilRetried'
  <2> SUFFICES ASSUME Inv, UntilRetried, [Next]_vars, retries' = 0 PROVE Grace'
    OBVIOUS
  <2>1. retries = 0
    BY RetriesStay
  <2>2. QED
    BY <2>1, StepKeepsGrace
<1>3. UntilRetried => KeptUntilRetried
  BY DEF Grace, KeptUntilRetried
<1>4. QED
  BY Invariance, <1>1, <1>2, <1>3, PTL DEF Spec
=============================================================================
