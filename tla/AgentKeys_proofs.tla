--------------------------- MODULE AgentKeys_proofs ----------------------------
(***************************************************************************)
(* Proofs about AgentKeys, for any machines, requests, credentials, resets *)
(* and limits.                                                             *)
(*                                                                         *)
(* What a request decided under its locks is still so when it commits,     *)
(* because every change to those rows waits for it (Decided); an agent's   *)
(* row is locked by one request or by the reset (OneLock).                 *)
(* A key that is made active is the one its machine has saved, because a   *)
(* request that may yet bind asks for that one (Heeded).                   *)
(***************************************************************************)
EXTENDS AgentKeys, FiniteSetTheorems, TLAPS

OneLock ==
  /\ \A s, t \in Slots :
       Open(s) /\ Open(t) /\ request[s].machine = request[t].machine => s = t
  /\ \A s \in Slots : Open(s) => request[s].machine \notin reset.rows

(* A bootstrap key is used by machines of the profile only. *)
ProfilesOwn ==
  /\ \A m \in Machines : device[m].attempt.kind = "profile" => m \in Enrolled
  /\ \A s \in Slots :
       request[s] # Free /\ request[s].attempt.kind = "profile"
         => request[s].machine \in Enrolled

(* No agent waits to enrol with its first code under the profile's name. *)
NamesFree == SameName => \A m \in Registered : ~ (agent[m].code = 1 /\ agent[m].fresh)

(* What a request that will bind a key has found under its locks. *)
Found(m, at, key) ==
  /\ key \in Keys
  /\ key.pub = at.pub /\ key.state = "active" /\ key.credential = Credential(at)
  /\ \A k \in keys[m] : k.pub # at.pub /\ k.credential # Credential(at)
  /\ at.kind = "code" => agent[m].row /\ agent[m].enabled /\ m \notin Enrolled
  /\ at.kind = "profile" =>
       ~ agent[m].row /\ profile.state = "active" /\ m \in Enrolled /\ NamesFree
  /\ at.kind = "renewal" =>
       agent[m].row /\ agent[m].enabled /\ (m \in Enrolled => profile.state # "revoked")

Decided ==
  \A s \in Slots :
    Open(s) /\ request[s].new => Found(request[s].machine, request[s].attempt, request[s].key)

(* Each credential and each key once, and one active key. *)
Once(ks) ==
  \A j, k \in ks :
    /\ j.credential = k.credential \/ j.pub = k.pub => j = k
    /\ j.state = "active" /\ k.state = "active" => j = k

KeysOnce == \A m \in Machines : Once(keys[m]) /\ (keys[m] # {} => agent[m].row)

Counted == IsFiniteSet(InProfile) /\ profile.count = Cardinality(InProfile)

(* A code that can be used belongs to an agent that holds its name. *)
CodesHoldNames ==
  \A m \in Registered :
    /\ agent[m].fresh => agent[m].row /\ agent[m].enabled /\ ~ agent[m].expired
    /\ agent[m].row => agent[m].codes # <<>>

(* A reset that has revoked keys has missed none of the agents it locked. *)
ResetCovers ==
  reset.phase = "revoked" =>
    \A m \in reset.rows : \A k \in Usable(keys[m]) :
      [machine |-> m, pub |-> k.pub] \in reset.doomed

KeysInv ==
  /\ TypeOK
  /\ OneLock
  /\ ProfilesOwn
  /\ Decided
  /\ KeysOnce
  /\ Counted
  /\ CodesHoldNames
  /\ RevokedForGood
  /\ ResetCovers

-----------------------------------------------------------------------------
LEMMA InitInv == Init => KeysInv
<1> SUFFICES ASSUME Init PROVE KeysInv
  OBVIOUS
<1>1. TypeOK
  BY DEF Init, TypeOK, NoAgent, NoAttempt, Requests, NoReset
<1>2. OneLock /\ ProfilesOwn /\ Decided
  BY DEF Init, OneLock, ProfilesOwn, Decided, Open, Free, NoAttempt
<1>3. KeysOnce /\ CodesHoldNames /\ RevokedForGood
  BY DEF Init, KeysOnce, Once, CodesHoldNames, RevokedForGood, NoAgent, Machines
<1>4. Counted
  <2>1. InProfile = {}
    BY DEF Init, InProfile, NoAgent, Machines
  <2> QED
    BY <2>1, FS_EmptySet DEF Counted, Init
<1>5. ResetCovers
  BY DEF Init, ResetCovers, NoReset
<1> QED
  BY <1>1, <1>2, <1>3, <1>4, <1>5 DEF KeysInv

(* A step that leaves the rows and the reset alone and opens no request. *)
LEMMA RequestStep ==
  ASSUME KeysInv, TypeOK', ProfilesOwn', UNCHANGED <<profile, agent, keys, reset>>,
         \A s \in Slots : Open(s)' => Open(s) /\ request'[s] = request[s]
  PROVE  KeysInv'
<1>1. OneLock'
  BY DEF KeysInv, OneLock, Open
<1>2. Decided'
  BY DEF KeysInv, Decided, Found, Open, NamesFree
<1>3. KeysOnce' /\ CodesHoldNames' /\ RevokedForGood' /\ ResetCovers'
  BY DEF KeysInv, KeysOnce, CodesHoldNames, RevokedForGood, ResetCovers, Usable
<1>4. Counted'
  BY DEF KeysInv, Counted, InProfile
<1> QED
  BY <1>1, <1>2, <1>3, <1>4 DEF KeysInv

LEMMA MachineStep ==
  ASSUME KeysInv, NEW m \in Machines, Machine(m)
  PROVE  KeysInv'
<1> USE DEF KeysInv
<1>1. ASSUME NEW at \in Attempts, Start(m, at), at.kind = "profile" => m \in Enrolled
      PROVE  KeysInv'
  <2>1. TypeOK'
    BY <1>1 DEF TypeOK, Start
  <2>2. ProfilesOwn'
    BY <1>1 DEF TypeOK, ProfilesOwn, Start
  <2>3. \A s \in Slots : Open(s)' => Open(s) /\ request'[s] = request[s]
    BY <1>1 DEF Start, Open
  <2> QED
    BY <2>1, <2>2, <2>3, <1>1, RequestStep DEF Start
<1>2. CASE StartWithCode(m)
  <2>1. [kind |-> "code", pub |-> NewKey(m), with |-> Newest(agent[m].codes), signer |-> 0]
          \in Attempts
    BY DEF TypeOK, NewKey, Newest, Attempts
  <2> QED
    BY <2>1, <1>1, <1>2 DEF StartWithCode
<1>3. CASE StartWithProfile(m)
  <2>1. [kind |-> "profile", pub |-> NewKey(m), with |-> Newest(profile.keys), signer |-> 0]
          \in Attempts
    BY DEF TypeOK, NewKey, Newest, Attempts
  <2> QED
    BY <2>1, <1>1, <1>3 DEF StartWithProfile
<1>4. CASE StartRenewal(m)
  <2>1. [kind |-> "renewal", pub |-> NewKey(m), with |-> 0, signer |-> device[m].current]
          \in Attempts
    BY DEF TypeOK, NewKey, Attempts
  <2> QED
    BY <2>1, <1>1, <1>4 DEF StartRenewal
<1>5. CASE TakeBootstrapKey(m)
  <2>0. device[m].attempt \in Attempts /\ Newest(profile.keys) \in Nat
    BY <1>5 DEF TakeBootstrapKey, TypeOK, NoAttempt, Newest
  <2> DEFINE b == [device[m].attempt EXCEPT !.with = Newest(profile.keys)]
             d == [device[m] EXCEPT !.attempt = b]
  <2>5. b \in Attempts
    BY <2>0 DEF Attempts
  <2>6. device[m] \in [current : Nat, attempt : Attempts \cup {NoAttempt}, made : Nat]
    BY DEF TypeOK
  <2>7. device' = [device EXCEPT ![m] = d]
    BY <1>5 DEF TakeBootstrapKey
  <2> HIDE DEF b
  <2>8. d \in [current : Nat, attempt : Attempts \cup {NoAttempt}, made : Nat]
    BY <2>5, <2>6
  <2> HIDE DEF d
  <2>9. device' \in [Machines -> [current : Nat, attempt : Attempts \cup {NoAttempt}, made : Nat]]
    BY <2>7, <2>8 DEF TypeOK
  <2>10. UNCHANGED <<identity, profile, agent, keys, request, reset>>
    BY <1>5 DEF TakeBootstrapKey
  <2>1. TypeOK'
    BY <2>9, <2>10 DEF TypeOK
  <2>2. ProfilesOwn'
    BY <1>5, <2>0 DEF TakeBootstrapKey, TypeOK, ProfilesOwn, Attempts
  <2>3. \A s \in Slots : Open(s)' => Open(s) /\ request'[s] = request[s]
    BY <1>5 DEF TakeBootstrapKey, Open
  <2> QED
    BY <2>1, <2>2, <2>3, <1>5, RequestStep DEF TakeBootstrapKey
<1>6. ASSUME NEW s \in Slots, Send(s, m) PROVE KeysInv'
  <2>0. device[m].attempt \in Attempts
    BY <1>6 DEF Send, TypeOK
  <2>1. TypeOK'
    BY <1>6, <2>0 DEF Send, TypeOK, Requests
  <2>2. ProfilesOwn'
    BY <1>6, <2>0 DEF Send, TypeOK, ProfilesOwn
  <2>3. \A t \in Slots : Open(t)' => Open(t) /\ request'[t] = request[t]
    BY <1>6 DEF Send, Open, TypeOK
  <2> QED
    BY <2>1, <2>2, <2>3, <1>6, RequestStep DEF Send
<1> QED
  BY <1>2, <1>3, <1>4, <1>5, <1>6 DEF Machine
-----------------------------------------------------------------------------
(* Requests. *)

LEMMA SentRequest ==
  ASSUME TypeOK, NEW s \in Slots, request[s].state \in {"sent", "admitted", "answered"}
  PROVE  /\ request[s] \in [state : {"sent", "admitted", "answered"},
                           machine : Machines, attempt : Attempts]
         /\ request[s] # Free
BY DEF TypeOK, Requests, Free

LEMMA OpenRequest ==
  ASSUME TypeOK, NEW s \in Slots, Open(s)
  PROVE  /\ request[s] \in [state : {"open"}, machine : Machines, attempt : Attempts,
                           new : BOOLEAN, key : Keys \cup {NoKey}]
         /\ request[s] # Free
<1>1. request[s] \in Requests
  BY DEF TypeOK
<1>2. request[s].state \notin {"free", "sent", "admitted", "answered"}
  BY DEF Open
<1>3. request[s] # Free
  BY <1>2 DEF Free
<1>4. request[s] \notin [state : {"sent", "admitted", "answered"}, machine : Machines,
                       attempt : Attempts]
  BY <1>2
<1> QED
  BY <1>1, <1>3, <1>4 DEF Requests

LEMMA RequestEnds ==
  ASSUME KeysInv, NEW s \in Slots,
         Granted(s) \/ Lost(s) \/ Admit(s) \/ Refuse(s)
  PROVE  KeysInv'
<1> USE DEF KeysInv
<1>1. CASE Granted(s)
  <2>0. request[s].machine \in Machines /\ request[s].attempt \in Attempts
    BY <1>1, SentRequest DEF Granted
  <2>1. TypeOK'
    BY <1>1, <2>0 DEF Granted, TypeOK, Requests, Attempts
  <2>2. ProfilesOwn'
    BY <1>1, <2>0 DEF Granted, TypeOK, ProfilesOwn, NoAttempt
  <2>3. \A t \in Slots : Open(t)' => Open(t) /\ request'[t] = request[t]
    BY <1>1 DEF Granted, Open, TypeOK, Free
  <2> QED
    BY <2>1, <2>2, <2>3, <1>1, RequestStep DEF Granted
<1>2. CASE Lost(s) \/ Refuse(s)
  <2>1. TypeOK'
    BY <1>2 DEF Lost, Refuse, TypeOK, Requests
  <2>2. ProfilesOwn'
    BY <1>2 DEF Lost, Refuse, TypeOK, ProfilesOwn
  <2>3. \A t \in Slots : Open(t)' => Open(t) /\ request'[t] = request[t]
    BY <1>2 DEF Lost, Refuse, Open, TypeOK, Free
  <2> QED
    BY <2>1, <2>2, <2>3, <1>2, RequestStep DEF Lost, Refuse
<1>3. CASE Admit(s)
  <2>0. /\ request[s] # Free
        /\ [request[s] EXCEPT !.state = "admitted"]
             = [state |-> "admitted", machine |-> request[s].machine,
                attempt |-> request[s].attempt]
        /\ request[s].machine \in Machines /\ request[s].attempt \in Attempts
    BY <1>3, SentRequest DEF Admit
  <2>a. request' = [request EXCEPT ![s] =
                      [state |-> "admitted", machine |-> request[s].machine,
                       attempt |-> request[s].attempt]]
    BY <1>3, <2>0 DEF Admit
  <2>b. [state |-> "admitted", machine |-> request[s].machine,
         attempt |-> request[s].attempt] \in Requests
    BY <2>0 DEF Requests
  <2>c. request' \in [Slots -> Requests]
    BY <2>a, <2>b DEF TypeOK
  <2>d. UNCHANGED <<identity, profile, agent, keys, device, reset>>
    BY <1>3 DEF Admit
  <2>1. TypeOK'
    BY <2>c, <2>d DEF TypeOK
  <2>2. ProfilesOwn'
    BY <1>3, <2>0, <2>a DEF Admit, TypeOK, ProfilesOwn
  <2>3. \A t \in Slots : Open(t)' => Open(t) /\ request'[t] = request[t]
    BY <2>a DEF Open, TypeOK
  <2> QED
    BY <2>1, <2>2, <2>3, <1>3, RequestStep DEF Admit
<1> QED
  BY <1>1, <1>2, <1>3

LEMMA DecideStep ==
  ASSUME KeysInv, NEW s \in Slots, Decide(s)
  PROVE  KeysInv'
<1> USE DEF KeysInv
<1> DEFINE m == request[s].machine
           at == request[s].attempt
<1>1. m \in Machines /\ at \in Attempts /\ request[s] # Free /\ ~ Open(s)
  BY SentRequest DEF Decide, Open
<1>2. PICK new \in BOOLEAN :
        /\ Grants(m, at, new)
        /\ request' = [request EXCEPT ![s] =
             [state |-> "open", machine |-> m, attempt |-> at, new |-> new,
              key |-> IF new THEN [pub |-> at.pub, state |-> "active", prev |-> at.signer,
                                   credential |-> Credential(at)]
                      ELSE NoKey]]
  BY DEF Decide
<1>3. UNCHANGED <<identity, profile, agent, keys, device, reset>> /\ ~ AgentHeld(m)
  BY DEF Decide, LocksFree
<1> DEFINE key == IF new THEN [pub |-> at.pub, state |-> "active", prev |-> at.signer,
                               credential |-> Credential(at)]
                  ELSE NoKey
<1>4. Credential(at) \in [kind : {"code", "profile", "renewal"}, n : Nat]
  BY <1>1 DEF Credential, Attempts
<1>5. key \in Keys \cup {NoKey}
  BY <1>1, <1>4 DEF Keys, KeyStates, Attempts
<1>6. /\ \A t \in Slots : t # s => request'[t] = request[t]
      /\ request'[s] = [state |-> "open", machine |-> m, attempt |-> at, new |-> new, key |-> key]
  BY <1>2 DEF TypeOK
<1>7. TypeOK'
  <2>1. request' \in [Slots -> Requests]
    BY <1>1, <1>2, <1>5 DEF TypeOK, Requests
  <2> QED
    BY <2>1, <1>3 DEF TypeOK
<1>8. OneLock'
  <2>1. \A t \in Slots : Open(t) => request[t].machine # m
    BY <1>3 DEF AgentHeld
  <2>2. m \notin reset.rows
    BY <1>3 DEF AgentHeld
  <2> QED
    BY <2>1, <2>2, <1>3, <1>6 DEF OneLock, Open
<1>9. ProfilesOwn'
  BY <1>1, <1>3, <1>6 DEF ProfilesOwn
<1>10. new => Found(m, at, key)
  <2> SUFFICES ASSUME new PROVE Found(m, at, key)
    OBVIOUS
  <2>1. /\ key \in Keys
        /\ key.pub = at.pub /\ key.state = "active" /\ key.credential = Credential(at)
    BY <1>1, <1>4 DEF Keys, KeyStates, Attempts
  <2>2. CASE at.kind = "code"
    <3>1. agent[m].row /\ agent[m].enabled /\ m \notin Enrolled /\ MayBind(m, at)
      BY <2>2, <1>2 DEF Grants, CodeGrants
    <3> QED
      BY <2>1, <2>2, <3>1 DEF Found, MayBind, Bound
  <2>3. CASE at.kind = "profile"
    <3>1. ~ agent[m].row /\ profile.state = "active" /\ ~ NameHeldOutside
      BY <2>3, <1>1, <1>2 DEF Grants, ProfileGrants
    <3>2. m \in Enrolled
      BY <2>3, <1>1 DEF ProfilesOwn
    <3>3. keys[m] = {}
      BY <3>1, <1>1 DEF KeysOnce
    <3>4. NamesFree
      BY <3>1 DEF NameHeldOutside, NamesFree, CodesHoldNames
    <3> QED
      BY <2>1, <2>3, <3>1, <3>2, <3>3, <3>4 DEF Found
  <2>4. CASE at.kind = "renewal"
    <3>1. Live(m) /\ MayBind(m, at)
      BY <2>4, <1>2 DEF Grants, RenewalGrants
    <3> QED
      BY <2>1, <2>4, <3>1 DEF Found, MayBind, Bound, Live
  <2> QED
    BY <1>1, <2>2, <2>3, <2>4 DEF Attempts
<1>11. Decided'
  <2> SUFFICES ASSUME NEW t \in Slots, Open(t)', request'[t].new
               PROVE  Found(request[t].machine, request[t].attempt, request[t].key)'
    BY DEF Decided
  <2>1. CASE t = s
    BY <2>1, <1>3, <1>6, <1>10 DEF Found, NamesFree
  <2>2. CASE t # s
    <3>1. Found(request[t].machine, request[t].attempt, request[t].key)
      BY <2>2, <1>6 DEF Decided, Open
    <3> QED
      BY <2>2, <3>1, <1>3, <1>6 DEF Found, NamesFree
  <2> QED
    BY <2>1, <2>2
<1>12. KeysOnce' /\ CodesHoldNames' /\ RevokedForGood' /\ ResetCovers'
  BY <1>3 DEF KeysOnce, CodesHoldNames, RevokedForGood, ResetCovers, Usable
<1>13. Counted'
  BY <1>3 DEF Counted, InProfile
<1> QED
  BY <1>7, <1>8, <1>9, <1>11, <1>12, <1>13

Agents == [row : BOOLEAN, enabled : BOOLEAN, expired : BOOLEAN,
           codes : Seq(Nat), code : Nat, fresh : BOOLEAN]

(* The row of an agent that is bound. *)
LEMMA BoundRow ==
  ASSUME TypeOK, NEW m \in Machines, NEW at \in Attempts
  PROVE  LET a == AfterBinding(m, at) IN
         /\ a \in Agents
         /\ at.kind = "code" =>
              /\ a.row = agent[m].row /\ a.enabled = agent[m].enabled
              /\ a.codes = agent[m].codes /\ ~ a.fresh
         /\ at.kind = "profile" => a.row /\ a.enabled /\ ~ a.fresh
         /\ at.kind = "renewal" =>
              /\ a.row = agent[m].row /\ a.enabled = agent[m].enabled
              /\ a.codes = agent[m].codes /\ a.fresh = agent[m].fresh
              /\ a.code = agent[m].code /\ ~ a.expired
<1>0. agent[m] \in Agents
  BY DEF TypeOK, Agents
<1>1. CASE at.kind = "code"
  <2> DEFINE b == [agent[m] EXCEPT !.code = 0]
             c == [b EXCEPT !.fresh = FALSE]
             d == [c EXCEPT !.expired = FALSE]
  <2>1. b \in Agents /\ b.row = agent[m].row /\ b.enabled = agent[m].enabled
        /\ b.codes = agent[m].codes
    BY <1>0 DEF Agents
  <2>2. c \in Agents /\ c.row = b.row /\ c.enabled = b.enabled /\ c.codes = b.codes /\ ~ c.fresh
    BY <2>1 DEF Agents
  <2>3. d \in Agents /\ d.row = c.row /\ d.enabled = c.enabled /\ d.codes = c.codes /\ ~ d.fresh
    BY <2>2 DEF Agents
  <2>4. AfterBinding(m, at) = d
    BY <1>1 DEF AfterBinding
  <2> HIDE DEF b, c, d
  <2> QED
    BY <1>1, <2>1, <2>2, <2>3, <2>4
<1>2. CASE at.kind = "profile"
  <2>1. AfterBinding(m, at) = [NoAgent EXCEPT !.row = TRUE, !.enabled = TRUE]
    BY <1>2 DEF AfterBinding
  <2>2. AfterBinding(m, at)
          = [row |-> TRUE, enabled |-> TRUE, expired |-> FALSE,
             codes |-> <<>>, code |-> 0, fresh |-> FALSE]
    BY <2>1 DEF NoAgent
  <2>3. <<>> \in Seq(Nat)
    OBVIOUS
  <2> QED
    BY <1>2, <2>2, <2>3 DEF Agents
<1>3. CASE at.kind = "renewal"
  BY <1>0, <1>3 DEF AfterBinding, Agents
<1> QED
  BY <1>1, <1>2, <1>3 DEF Attempts

(* The keys of an agent that is bound. *)
LEMMA BoundKeys ==
  ASSUME NEW ks \in SUBSET Keys, NEW key \in Keys, key.state = "active",
         Once(ks),
         \A k \in ks : k.pub # key.pub /\ k.credential # key.credential
  PROVE  /\ WithKey(ks, key) \in SUBSET Keys
         /\ Once(WithKey(ks, key))
<1> DEFINE after(k) == [k EXCEPT !.state = IF @ = "active" THEN "retired" ELSE @]
<1>1. \A k \in ks :
        /\ after(k) \in Keys /\ after(k).state # "active"
        /\ after(k).pub = k.pub /\ after(k).credential = k.credential
  BY DEF Keys, KeyStates
<1>2. \A l \in WithKey(ks, key) : l = key \/ \E k \in ks : l = after(k)
  BY DEF WithKey
<1> HIDE DEF after
<1>3. WithKey(ks, key) \in SUBSET Keys
  BY <1>1, <1>2
<1>4. ASSUME NEW j \in WithKey(ks, key), NEW k \in WithKey(ks, key)
      PROVE  /\ j.credential = k.credential \/ j.pub = k.pub => j = k
             /\ j.state = "active" /\ k.state = "active" => j = k
  BY <1>1, <1>2 DEF Once
<1> QED
  BY <1>3, <1>4 DEF Once

LEMMA CommitStep ==
  ASSUME KeysInv, NEW s \in Slots, Commit(s)
  PROVE  KeysInv'
<1> USE DEF KeysInv
<1> DEFINE m == request[s].machine
           at == request[s].attempt
           key == request[s].key
<1>1. Open(s) /\ m \in Machines /\ at \in Attempts /\ key \in Keys \cup {NoKey}
      /\ request[s] # Free
  BY OpenRequest DEF Commit
<1>2. /\ request' = [request EXCEPT ![s] =
                       [state |-> "answered", machine |-> m, attempt |-> at]]
      /\ UNCHANGED <<identity, device, reset>>
  BY DEF Commit
<1>3. /\ \A t \in Slots : t # s => request'[t] = request[t]
      /\ request'[s] = [state |-> "answered", machine |-> m, attempt |-> at]
  BY <1>2 DEF TypeOK
<1>4. request' \in [Slots -> Requests]
  BY <1>1, <1>2 DEF TypeOK, Requests
<1>5. ProfilesOwn'
  BY <1>1, <1>2, <1>3 DEF ProfilesOwn
<1>6. \A t \in Slots : Open(t)' => t # s /\ Open(t) /\ request'[t] = request[t]
  BY <1>3 DEF Open
<1>7. CASE ~ request[s].new
  <2>1. UNCHANGED <<keys, agent, profile>>
    BY <1>7 DEF Commit
  <2>2. TypeOK'
    BY <1>2, <1>4, <2>1 DEF TypeOK
  <2> QED
    BY <1>2, <1>5, <1>6, <2>1, <2>2, RequestStep
<1>8. CASE request[s].new
  <2>1. Found(m, at, key)
    BY <1>1, <1>8 DEF Decided
  <2>2. /\ keys' = [keys EXCEPT ![m] = WithKey(keys[m], key)]
        /\ agent' = [agent EXCEPT ![m] = AfterBinding(m, at)]
    BY <1>8 DEF Commit
  <2>c. profile' = [profile EXCEPT !.count = IF at.kind = "profile" THEN @ + 1 ELSE @]
    BY <1>8 DEF Commit
  <2>3. key \in Keys
    BY <2>1 DEF Found
  <2>4. /\ WithKey(keys[m], key) \in SUBSET Keys
        /\ Once(WithKey(keys[m], key))
    <3>1. keys[m] \in SUBSET Keys
      BY <1>1 DEF TypeOK
    <3>2. Once(keys[m])
      BY <1>1 DEF KeysOnce
    <3>3. key.state = "active" /\ \A k \in keys[m] : k.pub # key.pub /\ k.credential # key.credential
      BY <2>1 DEF Found
    <3> QED
      BY <2>3, <3>1, <3>2, <3>3, BoundKeys
  <2>5. /\ keys'[m] = WithKey(keys[m], key) /\ agent'[m] = AfterBinding(m, at)
        /\ \A n \in Machines : n # m => keys'[n] = keys[n] /\ agent'[n] = agent[n]
    BY <1>1, <2>2 DEF TypeOK
  <2>6. /\ profile'.state = profile.state
        /\ profile'.count = IF at.kind = "profile" THEN profile.count + 1 ELSE profile.count
        /\ profile' \in [state : {"active", "paused", "revoked"}, keys : Seq(Nat), count : Nat]
    <3> DEFINE c == IF at.kind = "profile" THEN profile.count + 1 ELSE profile.count
    <3>1. c \in Nat
      BY DEF TypeOK
    <3>2. profile' = [profile EXCEPT !.count = c]
      BY <2>c
    <3> HIDE DEF c
    <3>3. profile'.count = c /\ profile'.state = profile.state
      BY <3>2 DEF TypeOK
    <3>4. profile' \in [state : {"active", "paused", "revoked"}, keys : Seq(Nat), count : Nat]
      BY <3>1, <3>2 DEF TypeOK
    <3> QED
      BY <3>3, <3>4 DEF c
  <2>7. /\ AfterBinding(m, at) \in Agents
        /\ agent'[m].row /\ agent'[m].enabled
        /\ at.kind \in {"code", "profile"} => ~ agent'[m].fresh
        /\ at.kind = "renewal" =>
             /\ ~ agent'[m].expired /\ agent'[m].code = agent[m].code
             /\ agent'[m].fresh = agent[m].fresh
        /\ at.kind \in {"code", "renewal"} => agent[m].row /\ agent'[m].codes = agent[m].codes
        /\ at.kind = "profile" => ~ agent[m].row /\ m \in Enrolled
        /\ at.kind \in {"code", "profile", "renewal"}
    <3>1. CASE at.kind = "code"
      BY <3>1, <1>1, <2>1, <2>5, BoundRow DEF Found
    <3>2. CASE at.kind = "profile"
      BY <3>2, <1>1, <2>1, <2>5, BoundRow DEF Found
    <3>3. CASE at.kind = "renewal"
      BY <3>3, <1>1, <2>1, <2>5, BoundRow DEF Found
    <3> QED
      BY <3>1, <3>2, <3>3, <1>1 DEF Attempts
  <2>8. TypeOK'
    <3>1. keys' \in [Machines -> SUBSET Keys]
      BY <1>1, <2>2, <2>4 DEF TypeOK
    <3>2. agent' \in [Machines -> Agents]
      BY <1>1, <2>2, <2>7 DEF TypeOK, Agents
    <3> QED
      BY <1>2, <1>4, <2>6, <3>1, <3>2 DEF TypeOK, Agents
  <2>9. OneLock'
    BY <1>2, <1>6 DEF OneLock
  <2>10. Decided'
    <3> SUFFICES ASSUME NEW t \in Slots, Open(t)', request'[t].new
                 PROVE  Found(request[t].machine, request[t].attempt, request[t].key)'
      BY DEF Decided
    <3>1. /\ t # s /\ Open(t) /\ request'[t] = request[t]
          /\ Found(request[t].machine, request[t].attempt, request[t].key)
      BY <1>6 DEF Decided
    <3>2. request[t].machine # m /\ request[t].machine \in Machines
      BY <1>1, <3>1, OpenRequest DEF OneLock
    <3>3. NamesFree => NamesFree'
      BY <2>5, <2>7 DEF NamesFree, Machines
    <3> QED
      BY <2>5, <2>6, <3>1, <3>2, <3>3 DEF Found
  <2>11. KeysOnce'
    BY <2>4, <2>5, <2>7 DEF KeysOnce
  <2>12. Counted'
    <3>1. CASE at.kind = "profile"
      <4>1. InProfile' = InProfile \cup {m} /\ m \notin InProfile
        BY <3>1, <2>5, <2>7 DEF InProfile, Machines
      <4>2. IsFiniteSet(InProfile) /\ profile.count = Cardinality(InProfile)
        BY DEF Counted
      <4>3. IsFiniteSet(InProfile') /\ Cardinality(InProfile') = Cardinality(InProfile) + 1
        BY <4>1, <4>2, FS_AddElement
      <4>4. profile'.count = profile.count + 1
        BY <3>1, <2>6
      <4> QED
        BY <4>2, <4>3, <4>4 DEF Counted
    <3>2. CASE at.kind # "profile"
      <4>1. InProfile' = InProfile
        BY <3>2, <2>5, <2>7 DEF InProfile, Machines
      <4> QED
        BY <3>2, <4>1, <2>6 DEF Counted
    <3> QED
      BY <3>1, <3>2
  <2>13. CodesHoldNames'
    BY <1>1, <2>5, <2>7, MachinesAssumption DEF CodesHoldNames, Machines
  <2>14. RevokedForGood'
    <3>1. m \in Enrolled => profile'.state # "revoked"
      BY <2>1, <2>6, <2>7 DEF Found
    <3> QED
      BY <2>5, <2>6, <2>7, <3>1 DEF RevokedForGood
  <2>15. ResetCovers'
    <3>1. m \notin reset.rows
      BY <1>1 DEF OneLock
    <3>2. reset.rows \subseteq Machines
      BY DEF TypeOK
    <3> QED
      BY <1>2, <2>5, <3>1, <3>2 DEF ResetCovers
  <2> QED
    BY <1>5, <2>8, <2>9, <2>10, <2>11, <2>12, <2>13, <2>14, <2>15
<1> QED
  BY <1>7, <1>8
-----------------------------------------------------------------------------
(* Changes of one agent. *)

LEMMA CodedRow ==
  ASSUME NEW a \in Agents, identity \in Nat
  PROVE  LET b == WithCode(a) IN
         /\ b \in Agents
         /\ b.row = a.row /\ b.enabled = a.enabled /\ ~ b.expired
         /\ b.codes = Append(a.codes, identity) /\ b.codes # <<>>
         /\ b.code = Len(a.codes) + 1
<1> DEFINE b == [a EXCEPT !.codes = Append(@, identity)]
           c == [b EXCEPT !.code = Len(a.codes) + 1]
           d == [c EXCEPT !.fresh = TRUE]
           e == [d EXCEPT !.expired = FALSE]
<1>0. /\ Append(a.codes, identity) \in Seq(Nat) /\ Append(a.codes, identity) # <<>>
      /\ Len(a.codes) + 1 \in Nat
  BY DEF Agents
<1>1. b \in Agents /\ b.row = a.row /\ b.enabled = a.enabled
      /\ b.codes = Append(a.codes, identity)
  BY <1>0 DEF Agents
<1>2. c \in Agents /\ c.row = b.row /\ c.enabled = b.enabled /\ c.codes = b.codes
      /\ c.code = Len(a.codes) + 1
  BY <1>0, <1>1 DEF Agents
<1>3. d \in Agents /\ d.row = c.row /\ d.enabled = c.enabled /\ d.codes = c.codes
      /\ d.code = c.code
  BY <1>2 DEF Agents
<1>4. e \in Agents /\ e.row = d.row /\ e.enabled = d.enabled /\ e.codes = d.codes
      /\ e.code = d.code /\ ~ e.expired
  BY <1>3 DEF Agents
<1>5. WithCode(a) = e
  BY DEF WithCode
<1> HIDE DEF b, c, d, e
<1> QED
  BY <1>0, <1>1, <1>2, <1>3, <1>4, <1>5

(* A step that changes one agent's row and revokes nothing. *)
LEMMA AgentStep ==
  ASSUME KeysInv, NEW m \in Machines, NEW a \in Agents,
         agent' = [agent EXCEPT ![m] = a],
         UNCHANGED <<identity, profile, keys, device, request, reset>>,
         a.fresh => a.row /\ a.enabled /\ ~ a.expired,
         m \in Registered /\ a.row => a.codes # <<>>,
         agent[m].row => a.row /\ a.enabled = agent[m].enabled,
         a.row /\ ~ agent[m].row => m \in Registered /\ a.enabled,
         m \in Registered /\ SameName /\ a.code = 1 /\ a.fresh =>
           \/ agent[m].code = 1 /\ agent[m].fresh
           \/ ~ \E s \in Slots : Open(s) /\ request[s].attempt.kind = "profile" /\ request[s].new
  PROVE  KeysInv'
<1> USE DEF KeysInv
<1>0. /\ agent'[m] = a
      /\ \A n \in Machines : n # m => agent'[n] = agent[n]
  BY DEF TypeOK
<1>1. TypeOK'
  BY DEF TypeOK, Agents
<1>2. OneLock' /\ ProfilesOwn' /\ ResetCovers'
  BY DEF OneLock, ProfilesOwn, ResetCovers, Open, Usable
<1>3. Decided'
  <2> SUFFICES ASSUME NEW s \in Slots, Open(s), request[s].new
               PROVE  Found(request[s].machine, request[s].attempt, request[s].key)'
    BY DEF Decided, Open
  <2>1. /\ Found(request[s].machine, request[s].attempt, request[s].key)
        /\ request[s].machine \in Machines
    BY OpenRequest DEF Decided
  <2>2. request[s].attempt.kind = "profile" => (NamesFree => NamesFree')
    BY <1>0 DEF NamesFree, Machines
  <2>3. m \in Enrolled => (a.row <=> agent[m].row)
    BY MachinesAssumption
  <2> QED
    BY <1>0, <2>1, <2>2, <2>3 DEF Found
<1>4. KeysOnce'
  BY <1>0 DEF KeysOnce
<1>5. Counted'
  <2>1. InProfile' = InProfile
    BY <1>0, MachinesAssumption DEF InProfile, Machines, TypeOK, Agents
  <2> QED
    BY <2>1 DEF Counted
<1>6. CodesHoldNames'
  BY <1>0 DEF CodesHoldNames, Machines
<1>7. RevokedForGood'
  BY <1>0, MachinesAssumption DEF RevokedForGood
<1> QED
  BY <1>1, <1>2, <1>3, <1>4, <1>5, <1>6, <1>7

LEMMA NewRow ==
  LET b == [NoAgent EXCEPT !.row = TRUE, !.enabled = TRUE] IN
  b \in Agents /\ b.row /\ b.enabled
<1> DEFINE c == [NoAgent EXCEPT !.row = TRUE]
           b == [c EXCEPT !.enabled = TRUE]
<1>1. <<>> \in Seq(Nat)
  OBVIOUS
<1>2. NoAgent \in Agents
  BY <1>1 DEF NoAgent, Agents
<1>3. c \in Agents /\ c.row
  BY <1>2 DEF Agents
<1>4. b \in Agents /\ b.row /\ b.enabled
  BY <1>3 DEF Agents
<1> QED
  BY <1>4

LEMMA RegisterStep ==
  ASSUME KeysInv, NEW m \in Machines, Register(m)
  PROVE  KeysInv'
<1> DEFINE b == [NoAgent EXCEPT !.row = TRUE, !.enabled = TRUE]
           a == WithCode(b)
<1>2. b \in Agents /\ b.row /\ b.enabled
  BY NewRow
<1>3. agent' = [agent EXCEPT ![m] = a]
  BY DEF Register
<1>4. a \in Agents /\ a.row /\ a.enabled /\ ~ a.expired /\ a.codes # <<>>
  BY <1>2, CodedRow DEF KeysInv, TypeOK
<1>5. /\ m \in Registered /\ ~ agent[m].row
      /\ SameName =>
           ~ \E s \in Slots : Open(s) /\ request[s].attempt.kind = "profile" /\ request[s].new
      /\ UNCHANGED <<identity, profile, keys, device, request, reset>>
  BY DEF Register
<1> HIDE DEF a, b
<1> QED
  BY <1>3, <1>4, <1>5, AgentStep

LEMMA IssueCodeStep ==
  ASSUME KeysInv, NEW m \in Machines, IssueCode(m)
  PROVE  KeysInv'
<1> DEFINE a == WithCode(agent[m])
<1>1. agent[m] \in Agents /\ agent[m].row /\ agent[m].enabled
  BY DEF KeysInv, TypeOK, Agents, IssueCode
<1>2. agent' = [agent EXCEPT ![m] = a]
  BY DEF IssueCode
<1>3. /\ a \in Agents /\ a.row /\ a.enabled /\ ~ a.expired /\ a.codes # <<>>
      /\ a.code = Len(agent[m].codes) + 1
  BY <1>1, CodedRow DEF KeysInv, TypeOK
<1>4. UNCHANGED <<identity, profile, keys, device, request, reset>>
  BY DEF IssueCode
<1>5. m \in Registered => a.code # 1
  <2> SUFFICES ASSUME m \in Registered PROVE a.code # 1
    OBVIOUS
  <2>1. agent[m].codes # <<>> /\ agent[m].codes \in Seq(Nat)
    BY <1>1 DEF KeysInv, CodesHoldNames, Agents
  <2>2. Len(agent[m].codes) \in Nat \ {0}
    BY <2>1
  <2> QED
    BY <1>3, <2>2
<1> HIDE DEF a
<1> QED
  BY <1>1, <1>2, <1>3, <1>4, <1>5, AgentStep

LEMMA TimeStep ==
  ASSUME KeysInv, NEW m \in Machines, CodeExpires(m) \/ AgentExpires(m)
  PROVE  KeysInv'
<1>0. agent[m] \in Agents
  BY DEF KeysInv, TypeOK, Agents
<1>1. CASE CodeExpires(m)
  <2> DEFINE a == [agent[m] EXCEPT !.fresh = FALSE]
  <2>1. /\ a \in Agents /\ ~ a.fresh /\ a.row = agent[m].row
        /\ a.enabled = agent[m].enabled /\ a.codes = agent[m].codes
    BY <1>0 DEF Agents
  <2>2. /\ agent' = [agent EXCEPT ![m] = a]
        /\ UNCHANGED <<identity, profile, keys, device, request, reset>>
    BY <1>1 DEF CodeExpires
  <2>3. m \in Registered /\ a.row => a.codes # <<>>
    BY <2>1 DEF KeysInv, CodesHoldNames
  <2> HIDE DEF a
  <2> QED
    BY <2>1, <2>2, <2>3, AgentStep
<1>2. CASE AgentExpires(m)
  <2> DEFINE a == [agent[m] EXCEPT !.expired = TRUE]
  <2>1. /\ a \in Agents /\ ~ a.fresh /\ a.row = agent[m].row
        /\ a.enabled = agent[m].enabled /\ a.codes = agent[m].codes
    BY <1>0, <1>2 DEF Agents, AgentExpires
  <2>2. /\ agent' = [agent EXCEPT ![m] = a]
        /\ UNCHANGED <<identity, profile, keys, device, request, reset>>
    BY <1>2 DEF AgentExpires
  <2>3. m \in Registered /\ a.row => a.codes # <<>>
    BY <2>1 DEF KeysInv, CodesHoldNames
  <2> HIDE DEF a
  <2> QED
    BY <2>1, <2>2, <2>3, AgentStep
<1> QED
  BY <1>1, <1>2
-----------------------------------------------------------------------------
(* Keys that are revoked or lapse. *)

(* Every key of ls was one of ks, and none is usable again. *)
Traces(ks, ls) ==
  \A l \in ls : \E k \in ks :
    l.pub = k.pub /\ l.credential = k.credential /\ (k.state = "revoked" => l.state = "revoked")

LEMMA Restated ==
  ASSUME NEW ks \in SUBSET Keys, Once(ks), NEW f \in [ks -> KeyStates],
         \A k \in ks : (f[k] = "active" => k.state = "active")
                      /\ (k.state = "revoked" => f[k] = "revoked")
  PROVE  LET ls == {[k EXCEPT !.state = f[k]] : k \in ks} IN
         ls \in SUBSET Keys /\ Once(ls) /\ Traces(ks, ls)
<1> DEFINE after(k) == [k EXCEPT !.state = f[k]]
           ls == {after(k) : k \in ks}
<1>1. \A k \in ks : after(k) \in Keys /\ after(k).state = f[k] /\ after(k).pub = k.pub
                   /\ after(k).credential = k.credential
  BY DEF Keys
<1>2. \A l \in ls : \E k \in ks : l = after(k)
  OBVIOUS
<1> HIDE DEF after, ls
<1>3. ls \in SUBSET Keys
  BY <1>1, <1>2
<1>5. Traces(ks, ls)
  <2> SUFFICES ASSUME NEW l \in ls
               PROVE  \E k \in ks : l.pub = k.pub /\ l.credential = k.credential
                                     /\ (k.state = "revoked" => l.state = "revoked")
    BY DEF Traces
  <2>1. PICK k \in ks : l = after(k)
    BY <1>2
  <2> QED
    BY <1>1, <2>1
<1>4. Once(ls)
  <2> SUFFICES ASSUME NEW x \in ls, NEW y \in ls
               PROVE  /\ x.credential = y.credential \/ x.pub = y.pub => x = y
                      /\ x.state = "active" /\ y.state = "active" => x = y
    BY DEF Once
  <2>1. PICK j \in ks : x = after(j)
    BY <1>2
  <2>2. PICK k \in ks : y = after(k)
    BY <1>2
  <2> QED
    BY <1>1, <2>1, <2>2 DEF Once
<1>6. ls = {[k EXCEPT !.state = f[k]] : k \in ks}
  BY DEF ls, after
<1> QED
  BY <1>3, <1>4, <1>5, <1>6

LEMMA RevokedKeys ==
  ASSUME NEW ks \in SUBSET Keys, Once(ks)
  PROVE  /\ Revoked(ks) \in SUBSET Keys /\ Once(Revoked(ks)) /\ Traces(ks, Revoked(ks))
         /\ Usable(Revoked(ks)) = {} /\ (Revoked(ks) # {} => ks # {})
<1> DEFINE f == [k \in ks |-> "revoked"]
<1>1. f \in [ks -> KeyStates]
  BY DEF KeyStates
<1>2. {[k EXCEPT !.state = f[k]] : k \in ks} = Revoked(ks)
  BY DEF Revoked
<1>3. \A k \in ks : f[k] = "revoked"
  OBVIOUS
<1> HIDE DEF f
<1>4. /\ Revoked(ks) \in SUBSET Keys /\ Once(Revoked(ks)) /\ Traces(ks, Revoked(ks))
  BY <1>1, <1>2, <1>3, Restated
<1>5. Usable(Revoked(ks)) = {} /\ (Revoked(ks) # {} => ks # {})
  BY DEF Usable, Revoked, Keys
<1> QED
  BY <1>4, <1>5

LEMMA RevokeStep ==
  ASSUME KeysInv, NEW m \in Machines, Revoke(m)
  PROVE  KeysInv'
<1> USE DEF KeysInv
<1> DEFINE b == [agent[m] EXCEPT !.enabled = FALSE]
           c == [b EXCEPT !.code = 0]
           a == [c EXCEPT !.fresh = FALSE]
<1>1. /\ a \in Agents /\ a.row = agent[m].row /\ ~ a.enabled /\ a.codes = agent[m].codes
      /\ ~ a.fresh /\ a.row
  <2>0. agent[m] \in Agents /\ agent[m].row
    BY DEF TypeOK, Agents, Revoke
  <2>1. b \in Agents /\ b.row = agent[m].row /\ ~ b.enabled /\ b.codes = agent[m].codes
    BY <2>0 DEF Agents
  <2>2. c \in Agents /\ c.row = b.row /\ ~ c.enabled /\ c.codes = b.codes
    BY <2>1 DEF Agents
  <2>3. a \in Agents /\ a.row = c.row /\ ~ a.enabled /\ a.codes = c.codes /\ ~ a.fresh
    BY <2>2 DEF Agents
  <2> HIDE DEF a, b, c
  <2> QED
    BY <2>0, <2>1, <2>2, <2>3
<1>2. agent' = [agent EXCEPT ![m] = a]
  BY DEF Revoke
<1> HIDE DEF a
<1>3. /\ keys' = [keys EXCEPT ![m] = Revoked(keys[m])]
      /\ UNCHANGED <<identity, profile, device, request, reset>>
      /\ \A s \in Slots : Open(s) => request[s].machine # m
      /\ m \notin reset.rows
  BY DEF Revoke, AgentHeld
<1>4. /\ Revoked(keys[m]) \in SUBSET Keys /\ Once(Revoked(keys[m]))
      /\ Usable(Revoked(keys[m])) = {}
  BY RevokedKeys DEF TypeOK, KeysOnce
<1>5. /\ agent'[m] = a /\ keys'[m] = Revoked(keys[m])
      /\ \A n \in Machines : n # m => agent'[n] = agent[n] /\ keys'[n] = keys[n]
  BY <1>2, <1>3 DEF TypeOK
<1>6. TypeOK'
  <2>1. keys' \in [Machines -> SUBSET Keys]
    BY <1>3, <1>4 DEF TypeOK
  <2>2. agent' \in [Machines -> Agents]
    BY <1>1, <1>2 DEF TypeOK, Agents
  <2> QED
    BY <1>3, <2>1, <2>2 DEF TypeOK, Agents
<1>7. OneLock' /\ ProfilesOwn'
  BY <1>3 DEF OneLock, ProfilesOwn, Open
<1>8. Decided'
  <2> SUFFICES ASSUME NEW s \in Slots, Open(s), request[s].new
               PROVE  Found(request[s].machine, request[s].attempt, request[s].key)'
    BY <1>3 DEF Decided, Open
  <2>1. /\ Found(request[s].machine, request[s].attempt, request[s].key)
        /\ request[s].machine \in Machines /\ request[s].machine # m
    BY <1>3, OpenRequest DEF Decided
  <2>2. NamesFree => NamesFree'
    BY <1>1, <1>5 DEF NamesFree, Machines
  <2> QED
    BY <1>3, <1>5, <2>1, <2>2 DEF Found
<1>9. KeysOnce'
  BY <1>1, <1>4, <1>5 DEF KeysOnce
<1>10. Counted'
  <2>1. InProfile' = InProfile
    BY <1>1, <1>5 DEF InProfile, Machines
  <2> QED
    BY <1>3, <2>1 DEF Counted
<1>11. CodesHoldNames'
  BY <1>1, <1>5 DEF CodesHoldNames, Machines
<1>12. RevokedForGood'
  BY <1>3, <1>4, <1>5 DEF RevokedForGood
<1>13. ResetCovers'
  <2>1. reset.rows \subseteq Machines
    BY DEF TypeOK
  <2> QED
    BY <1>3, <1>5, <2>1 DEF ResetCovers
<1> QED
  BY <1>6, <1>7, <1>8, <1>9, <1>10, <1>11, <1>12, <1>13

(* A step that changes the states of keys only, and leaves the reset alone *)
(* or ends it.                                                             *)
LEMMA KeyStep ==
  ASSUME KeysInv, keys' \in [Machines -> SUBSET Keys], identity' \in Nat,
         \A m \in Machines : Once(keys'[m]) /\ Traces(keys[m], keys'[m]),
         UNCHANGED <<profile, agent, device, request>>,
         reset' = reset \/ reset' = NoReset,
         ResetCovers'
  PROVE  KeysInv'
<1> USE DEF KeysInv
<1>1. TypeOK'
  BY DEF TypeOK, NoReset
<1>2. OneLock' /\ ProfilesOwn'
  BY DEF OneLock, ProfilesOwn, Open, NoReset
<1>3. Decided'
  <2> SUFFICES ASSUME NEW s \in Slots, Open(s), request[s].new
               PROVE  Found(request[s].machine, request[s].attempt, request[s].key)'
    BY DEF Decided, Open
  <2>1. /\ Found(request[s].machine, request[s].attempt, request[s].key)
        /\ request[s].machine \in Machines
    BY OpenRequest DEF Decided
  <2>2. NamesFree => NamesFree'
    BY DEF NamesFree
  <2> QED
    BY <2>1, <2>2 DEF Found, Traces
<1>4. KeysOnce'
  BY DEF KeysOnce, Traces
<1>5. Counted' /\ CodesHoldNames'
  BY DEF Counted, CodesHoldNames, InProfile
<1>6. RevokedForGood'
  <2> SUFFICES ASSUME NEW m \in Machines, agent[m].row,
                      ~ agent[m].enabled \/ (m \in Enrolled /\ profile.state = "revoked")
               PROVE  Usable(keys'[m]) = {}
    BY DEF RevokedForGood, Usable
  <2>1. Usable(keys[m]) = {}
    BY DEF RevokedForGood
  <2> QED
    BY <2>1 DEF Usable, Traces
<1> QED
  BY <1>1, <1>2, <1>3, <1>4, <1>5, <1>6

LEMMA GraceEndsStep ==
  ASSUME KeysInv, NEW m \in Machines, GraceEnds(m)
  PROVE  KeysInv'
<1> USE DEF KeysInv
<1> DEFINE f == [k \in keys[m] |-> IF k.state = "retired" THEN "lapsed" ELSE k.state]
           ls == {[k EXCEPT !.state = f[k]] : k \in keys[m]}
<1>0. keys[m] \in SUBSET Keys /\ Once(keys[m])
  BY DEF TypeOK, KeysOnce
<1>1. f \in [keys[m] -> KeyStates]
  BY <1>0 DEF Keys, KeyStates
<1>2. \A k \in keys[m] : (f[k] = "active" => k.state = "active")
                        /\ (k.state = "revoked" => f[k] = "revoked")
  OBVIOUS
<1>3. keys' = [keys EXCEPT ![m] = ls]
  BY DEF GraceEnds
<1> HIDE DEF f
<1>4. ls \in SUBSET Keys /\ Once(ls) /\ Traces(keys[m], ls)
  BY <1>0, <1>1, <1>2, Restated
<1> HIDE DEF ls
<1>5. keys'[m] = ls /\ \A n \in Machines : n # m => keys'[n] = keys[n]
  BY <1>3 DEF TypeOK
<1>6. keys' \in [Machines -> SUBSET Keys]
  BY <1>3, <1>4 DEF TypeOK
<1>7. UNCHANGED <<identity, profile, agent, device, request, reset>>
  BY DEF GraceEnds
<1>8. \A n \in Machines : Once(keys'[n]) /\ Traces(keys[n], keys'[n])
  BY <1>4, <1>5 DEF KeysOnce, Traces
<1>9. ResetCovers'
  <2> SUFFICES ASSUME reset.phase = "revoked", NEW n \in reset.rows, NEW l \in keys'[n],
                      l.state # "revoked"
               PROVE  [machine |-> n, pub |-> l.pub] \in reset.doomed
    BY <1>7 DEF ResetCovers, Usable
  <2>0. n \in Machines
    BY DEF TypeOK
  <2>1. PICK k \in keys[n] : k.pub = l.pub /\ k.state # "revoked"
    BY <1>8, <2>0 DEF Traces
  <2> QED
    BY <2>1 DEF ResetCovers, Usable
<1> QED
  BY <1>6, <1>7, <1>8, <1>9, KeyStep DEF TypeOK
-----------------------------------------------------------------------------
(* The profile. *)

LEMMA ProfileStep ==
  ASSUME KeysInv, RotateBootstrapKey \/ Pause \/ Resume
  PROVE  KeysInv'
<1> USE DEF KeysInv
<1>1. /\ profile.state # "revoked" /\ ~ ProfileHeld /\ ~ ProfileShared
      /\ UNCHANGED <<identity, agent, keys, device, request, reset>>
  BY DEF RotateBootstrapKey, Pause, Resume, SetProfile
<1>2. /\ profile' \in [state : {"active", "paused", "revoked"}, keys : Seq(Nat), count : Nat]
      /\ profile'.state # "revoked" /\ profile'.count = profile.count
  <2>1. CASE RotateBootstrapKey
    <3>1. profile' = [profile EXCEPT !.keys = Append(@, identity)]
      BY <2>1 DEF RotateBootstrapKey, SetProfile
    <3>2. Append(profile.keys, identity) \in Seq(Nat)
      BY DEF TypeOK
    <3> QED
      BY <3>1, <3>2, <1>1 DEF TypeOK
  <2>2. CASE Pause
    BY <2>2 DEF Pause, SetProfile, TypeOK
  <2>3. CASE Resume
    BY <2>3 DEF Resume, SetProfile, TypeOK
  <2> QED
    BY <2>1, <2>2, <2>3
<1>3. TypeOK'
  BY <1>1, <1>2 DEF TypeOK
<1>4. OneLock' /\ ProfilesOwn' /\ KeysOnce' /\ CodesHoldNames' /\ ResetCovers'
  BY <1>1 DEF OneLock, ProfilesOwn, KeysOnce, CodesHoldNames, ResetCovers, Open, Usable
<1>5. Decided'
  <2> SUFFICES ASSUME NEW s \in Slots, Open(s), request[s].new
               PROVE  Found(request[s].machine, request[s].attempt, request[s].key)'
    BY <1>1 DEF Decided, Open
  <2>1. /\ Found(request[s].machine, request[s].attempt, request[s].key)
        /\ request[s].attempt.kind # "profile"
    BY <1>1 DEF Decided, ProfileHeld
  <2> QED
    BY <1>1, <1>2, <2>1 DEF Found
<1>6. Counted'
  <2>1. InProfile' = InProfile
    BY <1>1 DEF InProfile
  <2> QED
    BY <1>2, <2>1 DEF Counted
<1>7. RevokedForGood'
  BY <1>1, <1>2 DEF RevokedForGood
<1> QED
  BY <1>3, <1>4, <1>5, <1>6, <1>7

LEMMA RevokeProfileStep ==
  ASSUME KeysInv, RevokeProfile
  PROVE  KeysInv'
<1> USE DEF KeysInv
<1>1. /\ ~ ProfileHeld /\ ~ ProfileShared
      /\ UNCHANGED <<identity, device, request, reset>>
      /\ profile' = [profile EXCEPT !.state = "revoked"]
      /\ agent' = [m \in Machines |->
                     IF m \in Enrolled THEN [agent[m] EXCEPT !.enabled = FALSE] ELSE agent[m]]
      /\ keys' = [m \in Machines |-> IF m \in Enrolled THEN Revoked(keys[m]) ELSE keys[m]]
  BY DEF RevokeProfile, SetProfile
<1>2. /\ profile' \in [state : {"active", "paused", "revoked"}, keys : Seq(Nat), count : Nat]
      /\ profile'.count = profile.count
  BY <1>1 DEF TypeOK
<1>3. \A m \in Machines :
        /\ agent'[m] \in Agents /\ agent'[m].row = agent[m].row
        /\ m \notin Enrolled => agent'[m] = agent[m] /\ keys'[m] = keys[m]
        /\ m \in Enrolled => keys'[m] = Revoked(keys[m])
  <2> SUFFICES ASSUME NEW m \in Machines
               PROVE  /\ agent'[m] \in Agents /\ agent'[m].row = agent[m].row
                      /\ m \notin Enrolled => agent'[m] = agent[m] /\ keys'[m] = keys[m]
                      /\ m \in Enrolled => keys'[m] = Revoked(keys[m])
    OBVIOUS
  <2> DEFINE a == [agent[m] EXCEPT !.enabled = FALSE]
  <2>1. agent[m] \in Agents
    BY DEF TypeOK, Agents
  <2>2. a \in Agents /\ a.row = agent[m].row
    BY <2>1 DEF Agents
  <2>3. /\ agent'[m] = IF m \in Enrolled THEN a ELSE agent[m]
        /\ keys'[m] = IF m \in Enrolled THEN Revoked(keys[m]) ELSE keys[m]
    BY <1>1
  <2> HIDE DEF a
  <2> QED
    BY <2>1, <2>2, <2>3
<1>4. \A m \in Machines :
        /\ keys'[m] \in SUBSET Keys /\ Once(keys'[m])
        /\ m \in Enrolled => Usable(keys'[m]) = {}
        /\ keys'[m] # {} => keys[m] # {}
  <2> SUFFICES ASSUME NEW m \in Machines
               PROVE  /\ keys'[m] \in SUBSET Keys /\ Once(keys'[m])
                      /\ m \in Enrolled => Usable(keys'[m]) = {}
                      /\ keys'[m] # {} => keys[m] # {}
    OBVIOUS
  <2>1. keys[m] \in SUBSET Keys /\ Once(keys[m])
    BY DEF TypeOK, KeysOnce
  <2>2. CASE m \in Enrolled
    BY <1>3, <2>1, <2>2, RevokedKeys
  <2>3. CASE m \notin Enrolled
    BY <1>3, <2>1, <2>3
  <2> QED
    BY <2>2, <2>3
<1>5. TypeOK'
  <2>1. agent' \in [Machines -> Agents] /\ keys' \in [Machines -> SUBSET Keys]
    BY <1>1, <1>3, <1>4
  <2> QED
    BY <1>1, <1>2, <2>1 DEF TypeOK, Agents
<1>6. OneLock' /\ ProfilesOwn'
  BY <1>1 DEF OneLock, ProfilesOwn, Open
<1>7. Decided'
  <2> SUFFICES ASSUME NEW s \in Slots, Open(s), request[s].new
               PROVE  Found(request[s].machine, request[s].attempt, request[s].key)'
    BY <1>1 DEF Decided, Open
  <2>1. /\ Found(request[s].machine, request[s].attempt, request[s].key)
        /\ request[s].attempt.kind # "profile"
        /\ request[s].machine \in Machines /\ request[s].attempt \in Attempts
    BY <1>1, OpenRequest DEF Decided, ProfileHeld
  <2>2. request[s].machine \notin Enrolled
    <3>1. CASE request[s].attempt.kind = "code"
      BY <2>1, <3>1 DEF Found
    <3>2. CASE request[s].attempt.kind = "renewal"
      BY <1>1, <2>1, <3>2 DEF ProfileShared, Opens
    <3> QED
      BY <2>1, <3>1, <3>2 DEF Attempts
  <2> QED
    BY <1>1, <1>3, <2>1, <2>2 DEF Found
<1>8. KeysOnce'
  BY <1>3, <1>4 DEF KeysOnce
<1>9. Counted'
  <2>1. InProfile' = InProfile
    BY <1>3 DEF InProfile, Machines
  <2> QED
    BY <1>2, <2>1 DEF Counted
<1>10. CodesHoldNames'
  BY <1>3, MachinesAssumption DEF CodesHoldNames, Machines
<1>11. RevokedForGood'
  <2> SUFFICES ASSUME NEW m \in Machines, agent'[m].row,
                      ~ agent'[m].enabled \/ (m \in Enrolled /\ profile'.state = "revoked")
               PROVE  Usable(keys'[m]) = {}
    BY DEF RevokedForGood, Usable
  <2>1. CASE m \in Enrolled
    BY <1>4, <2>1
  <2>2. CASE m \notin Enrolled
    BY <1>3, <2>2 DEF RevokedForGood
  <2> QED
    BY <2>1, <2>2
<1>12. ResetCovers'
  <2>1. reset.phase = "none"
    BY <1>1 DEF ProfileHeld
  <2> QED
    BY <1>1, <2>1 DEF ResetCovers
<1> QED
  BY <1>5, <1>6, <1>7, <1>8, <1>9, <1>10, <1>11, <1>12
-----------------------------------------------------------------------------
(* The reset. *)

(* A step of a reset before its commit. *)
LEMMA ResetStep ==
  ASSUME KeysInv, LockProfiles \/ LockAgents \/ RevokeKeys
  PROVE  KeysInv'
<1> USE DEF KeysInv
<1>1. UNCHANGED <<identity, profile, agent, keys, device, request>>
  BY DEF LockProfiles, LockAgents, RevokeKeys
<1>2. /\ reset' \in [phase : {"none", "profiles", "agents", "revoked"},
                    rows : SUBSET Machines, doomed : SUBSET [machine : Machines, pub : Nat]]
      /\ reset'.rows = reset.rows \/ \A m \in reset'.rows : ~ AgentHeld(m)
      /\ ResetCovers'
  <2>1. CASE LockProfiles
    BY <2>1 DEF LockProfiles, TypeOK, ResetCovers
  <2>2. CASE LockAgents
    <3> DEFINE rows == {m \in Machines : agent[m].row}
    <3>1. /\ reset' = [reset EXCEPT !.phase = "agents", !.rows = rows]
          /\ \A m \in rows : ~ AgentHeld(m)
      BY <2>2 DEF LockAgents
    <3>2. rows \in SUBSET Machines
      OBVIOUS
    <3> HIDE DEF rows
    <3>3. /\ reset' \in [phase : {"none", "profiles", "agents", "revoked"},
                        rows : SUBSET Machines, doomed : SUBSET [machine : Machines, pub : Nat]]
          /\ reset'.rows = rows /\ reset'.phase = "agents"
      BY <3>1, <3>2 DEF TypeOK
    <3> QED
      BY <3>1, <3>3 DEF ResetCovers
  <2>3. CASE RevokeKeys
    <3> DEFINE doomed == UNION {[machine : {m}, pub : {k.pub : k \in Usable(keys[m])}]
                                  : m \in Machines}
    <3>1. reset' = [reset EXCEPT !.phase = "revoked", !.doomed = doomed]
      BY <2>3 DEF RevokeKeys
    <3>2. doomed \in SUBSET [machine : Machines, pub : Nat]
      BY DEF TypeOK, Usable, Keys
    <3>3. \A m \in Machines : \A k \in Usable(keys[m]) : [machine |-> m, pub |-> k.pub] \in doomed
      OBVIOUS
    <3> HIDE DEF doomed
    <3>4. /\ reset' \in [phase : {"none", "profiles", "agents", "revoked"},
                        rows : SUBSET Machines, doomed : SUBSET [machine : Machines, pub : Nat]]
          /\ reset'.rows = reset.rows /\ reset'.doomed = doomed
      BY <3>1, <3>2 DEF TypeOK
    <3>5. ResetCovers'
      BY <1>1, <3>3, <3>4 DEF ResetCovers, Usable
    <3> QED
      BY <3>4, <3>5
  <2> QED
    BY <2>1, <2>2, <2>3
<1>3. TypeOK'
  BY <1>1, <1>2 DEF TypeOK
<1>4. OneLock'
  BY <1>1, <1>2 DEF OneLock, Open, AgentHeld
<1>5. ProfilesOwn' /\ KeysOnce' /\ CodesHoldNames' /\ RevokedForGood'
  BY <1>1 DEF ProfilesOwn, KeysOnce, CodesHoldNames, RevokedForGood, Usable
<1>6. Decided'
  BY <1>1 DEF Decided, Found, Open, NamesFree
<1>7. Counted'
  BY <1>1 DEF Counted, InProfile
<1> QED
  BY <1>2, <1>3, <1>4, <1>5, <1>6, <1>7

LEMMA CommitResetStep ==
  ASSUME KeysInv, CommitReset
  PROVE  KeysInv' /\ \A m \in reset.rows : Usable(keys'[m]) = {}
<1> USE DEF KeysInv
<1> DEFINE f(m) == [k \in keys[m] |->
                      IF [machine |-> m, pub |-> k.pub] \in reset.doomed
                      THEN "revoked" ELSE k.state]
           ls(m) == {[k EXCEPT !.state = f(m)[k]] : k \in keys[m]}
<1>1. /\ identity' = identity + 1 /\ reset' = NoReset /\ reset.phase = "revoked"
      /\ UNCHANGED <<profile, agent, device, request>>
  BY DEF CommitReset
<1>2. ASSUME NEW m \in Machines
      PROVE  /\ keys'[m] = ls(m) /\ ls(m) \in SUBSET Keys /\ Once(ls(m)) /\ Traces(keys[m], ls(m))
             /\ m \in reset.rows => Usable(ls(m)) = {}
  <2>0. keys[m] \in SUBSET Keys /\ Once(keys[m])
    BY DEF TypeOK, KeysOnce
  <2>1. f(m) \in [keys[m] -> KeyStates]
    BY <2>0 DEF Keys, KeyStates
  <2>2. \A k \in keys[m] :
          /\ f(m)[k] = "active" => k.state = "active"
          /\ k.state = "revoked" => f(m)[k] = "revoked"
          /\ f(m)[k] = IF [machine |-> m, pub |-> k.pub] \in reset.doomed
                       THEN "revoked" ELSE k.state
    OBVIOUS
  <2>3. keys'[m] = {IF [machine |-> m, pub |-> k.pub] \in reset.doomed
                    THEN [k EXCEPT !.state = "revoked"] ELSE k : k \in keys[m]}
    BY DEF CommitReset
  <2> HIDE DEF f
  <2> DEFINE g(k) == IF [machine |-> m, pub |-> k.pub] \in reset.doomed
                     THEN [k EXCEPT !.state = "revoked"] ELSE k
             h(k) == [k EXCEPT !.state = f(m)[k]]
  <2>4. \A k \in keys[m] : h(k) = g(k)
    BY <2>0, <2>2 DEF Keys
  <2>5. keys'[m] = ls(m)
    <3>1. keys'[m] = {g(k) : k \in keys[m]} /\ ls(m) = {h(k) : k \in keys[m]}
      BY <2>3
    <3> HIDE DEF g, h, ls
    <3> QED
      BY <2>4, <3>1
  <2>6. ls(m) \in SUBSET Keys /\ Once(ls(m)) /\ Traces(keys[m], ls(m))
    BY <2>0, <2>1, <2>2, Restated
  <2>7. m \in reset.rows => Usable(ls(m)) = {}
    <3> SUFFICES ASSUME m \in reset.rows, NEW k \in keys[m]
                 PROVE  [k EXCEPT !.state = f(m)[k]].state = "revoked"
      BY DEF Usable
    <3>1. f(m)[k] = "revoked"
      BY <1>1, <2>2 DEF ResetCovers, Usable
    <3> QED
      BY <2>0, <3>1 DEF Keys
  <2> QED
    BY <2>5, <2>6, <2>7
<1> HIDE DEF f, ls
<1>3. keys' \in [Machines -> SUBSET Keys]
  <2>1. DOMAIN keys' = Machines /\ keys' = [m \in Machines |-> keys'[m]]
    BY DEF CommitReset
  <2> QED
    BY <1>2, <2>1
<1>4. \A m \in Machines : Once(keys'[m]) /\ Traces(keys[m], keys'[m])
  BY <1>2
<1>5. ResetCovers' /\ identity' \in Nat
  BY <1>1 DEF ResetCovers, NoReset, TypeOK
<1>6. KeysInv'
  BY <1>1, <1>3, <1>4, <1>5, KeyStep
<1>7. \A m \in reset.rows : Usable(keys'[m]) = {}
  BY <1>2 DEF TypeOK
<1> QED
  BY <1>6, <1>7
-----------------------------------------------------------------------------
LEMMA NextInv == KeysInv /\ [Next]_vars => KeysInv'
<1> SUFFICES ASSUME KeysInv, [Next]_vars PROVE KeysInv'
  OBVIOUS
<1>1. CASE \E m \in Machines : Machine(m) \/ Administrator(m) \/ Time(m)
  BY <1>1, MachineStep, RegisterStep, IssueCodeStep, RevokeStep, TimeStep, GraceEndsStep
     DEF Administrator, Time
<1>2. CASE \E s \in Slots : Server(s)
  BY <1>2, RequestEnds, DecideStep, CommitStep DEF Server
<1>3. CASE Administration
  BY <1>3, ProfileStep, RevokeProfileStep, ResetStep, CommitResetStep DEF Administration
<1>4. CASE UNCHANGED vars
  <2>1. TypeOK' /\ ProfilesOwn'
    BY <1>4 DEF KeysInv, TypeOK, ProfilesOwn, vars
  <2>2. \A s \in Slots : Open(s)' => Open(s) /\ request'[s] = request[s]
    BY <1>4 DEF Open, vars
  <2> QED
    BY <1>4, <2>1, <2>2, RequestStep DEF vars
<1> QED
  BY <1>1, <1>2, <1>3, <1>4 DEF Next

(* What a request found under its locks is so when it commits, an agent is *)
(* locked once, and a reset misses no agent it has locked.                 *)
THEOREM Invariant == Spec => []KeysInv
  BY InitInv, NextInv, PTL DEF Spec

(* Every variable keeps its type. *)
THEOREM TypeCorrect == Spec => []TypeOK
<1>1. KeysInv => TypeOK
  BY DEF KeysInv
<1> QED
  BY <1>1, Invariant, PTL

(* However often an enrolment is repeated and whatever runs at once, an    *)
(* agent has one active key and its profile counts it once.                *)
THEOREM EachIsBoundOnce == Spec => []BoundOnce
<1>1. KeysInv => BoundOnce
  <2> SUFFICES ASSUME KeysInv PROVE BoundOnce
    OBVIOUS
  <2>1. profile.count = Cardinality(InProfile)
    BY DEF KeysInv, Counted
  <2>2. ASSUME NEW m \in Machines
        PROVE  /\ Cardinality(Active(keys[m])) <= 1
               /\ \A j, k \in keys[m] : j.credential = k.credential \/ j.pub = k.pub => j = k
    <3>1. Once(keys[m])
      BY DEF KeysInv, KeysOnce
    <3>2. CASE Active(keys[m]) = {}
      BY <3>1, <3>2, FS_EmptySet DEF Once
    <3>3. CASE Active(keys[m]) # {}
      <4>1. PICK k \in Active(keys[m]) : TRUE
        BY <3>3
      <4>2. Active(keys[m]) = {k}
        BY <3>1, <4>1 DEF Active, Once
      <4> QED
        BY <3>1, <4>2, FS_Singleton DEF Once
    <3> QED
      BY <3>2, <3>3
  <2> QED
    BY <2>1, <2>2 DEF BoundOnce
<1> QED
  BY <1>1, Invariant, PTL

(* No key of a revoked agent or profile can be used, and no request that   *)
(* was under way binds another.                                            *)
THEOREM RevocationIsForGood == Spec => []RevokedForGood
<1>1. KeysInv => RevokedForGood
  BY DEF KeysInv
<1> QED
  BY <1>1, Invariant, PTL

(* A reset leaves no key of before with the agents there were.             *)
THEOREM ResetsEndKeys == Spec => ResetEndsKeys
<1>1. KeysInv /\ [Next]_vars => [CommitReset => \A m \in reset.rows : Usable(keys'[m]) = {}]_vars
  BY CommitResetStep
<1> QED
  BY <1>1, Invariant, PTL DEF Spec, ResetEndsKeys

(* A profile's machine takes no name of an agent that waits to enrol.      *)
THEOREM NamesAreNotTaken == Spec => NameNotTaken
<1>1. KeysInv /\ [Next]_vars =>
        [\A s \in Slots :
           Commit(s) /\ request[s].attempt.kind = "profile" /\ request[s].new /\ SameName
             => \A m \in Registered : ~ (agent[m].code = 1 /\ agent[m].fresh)]_vars
  BY DEF KeysInv, Decided, Found, NamesFree, Commit
<1> QED
  BY <1>1, Invariant, PTL DEF Spec, NameNotTaken
-----------------------------------------------------------------------------
(* What a machine asks for and what it is given.  A request that can still *)
(* have a key bound asks for the key its machine has saved, unless the     *)
(* machine has turned to a code that is not used yet (Heeded); so a key    *)
(* that is made active is one the machine waits for, and once the saved    *)
(* key is bound no other is active (SavedIsActive).                        *)

Pubs(m) == {k.pub : k \in keys[m]}
Saved(m) == device[m].attempt # NoAttempt

(* An attempt that m may have made. *)
Sound(m, at) ==
  /\ at.pub \in 1 .. device[m].made
  /\ at.kind = "code" => at.with \in 1 .. Len(agent[m].codes)
  /\ at.kind = "renewal" => at.signer \in Pubs(m)

AttemptsSound ==
  /\ \A m \in Machines : Saved(m) => Sound(m, device[m].attempt)
  /\ \A s \in Slots : request[s] # Free => Sound(request[s].machine, request[s].attempt)

KeysMade ==
  \A m \in Machines :
    /\ Pubs(m) \subseteq 1 .. device[m].made
    /\ device[m].current = 0 \/ device[m].current \in Pubs(m)
    /\ ~ agent[m].row => agent[m].codes = <<>>

(* Two attempts with one key. *)
Alike(a, b) ==
  /\ a.kind = b.kind /\ a.signer = b.signer
  /\ a.kind = "code" => a.with = b.with

Binds(key, at) == key.credential = Credential(at) /\ key.prev = at.signer

(* A key stands for one attempt, in every request and where it is bound. *)
OneAttempt ==
  \A m \in Machines : Saved(m) =>
    /\ \A s \in Slots :
         /\ request[s] # Free
         /\ request[s].machine = m
         /\ request[s].attempt.pub = device[m].attempt.pub
         => Alike(request[s].attempt, device[m].attempt)
    /\ \A k \in keys[m] : k.pub = device[m].attempt.pub => Binds(k, device[m].attempt)

(* A request that has its answer has its key bound. *)
Answered(s) == request[s].state = "answered" \/ (Open(s) /\ ~ request[s].new)

AnswersAreBound ==
  \A s \in Slots :
    /\ Answered(s) => request[s].attempt.pub \in Pubs(request[s].machine)
    /\ Open(s) /\ request[s].new => request[s].key.prev = request[s].attempt.signer

(* Requests that have a key bound, or that may yet. *)
MayYet(m, at) ==
  /\ at.pub \notin Pubs(m)
  /\ at.kind = "code" => agent[m].code = at.with
  /\ at.kind = "profile" => ~ agent[m].row
  /\ at.kind = "renewal" => Signs(m, at.signer, {"active"})

Asks(s) ==
  \/ Open(s) /\ request[s].new
  \/ /\ request[s].state \in {"sent", "admitted"}
     /\ MayYet(request[s].machine, request[s].attempt)

Awaited(m, at) ==
  /\ Saved(m)
  /\ device[m].attempt.pub \notin Pubs(m)
  /\ device[m].attempt.pub = at.pub \/ device[m].attempt.kind = "code"

Heeded == \A s \in Slots : Asks(s) => Awaited(request[s].machine, request[s].attempt)

SavedIsActive ==
  \A m \in Machines :
    Saved(m) /\ device[m].attempt.pub \in Pubs(m) =>
      \A k \in Active(keys[m]) : k.pub = device[m].attempt.pub

AttemptsInv ==
  /\ AttemptsSound
  /\ KeysMade
  /\ OneAttempt
  /\ AnswersAreBound
  /\ Heeded
  /\ SavedIsActive
  /\ ActiveKeyIsTheMachines

LEMMA InitAttempts == Init => AttemptsInv
<1> SUFFICES ASSUME Init PROVE AttemptsInv
  OBVIOUS
<1>1. /\ \A m \in Machines : ~ Saved(m) /\ keys[m] = {} /\ agent[m] = NoAgent
                            /\ device[m].current = 0
      /\ \A s \in Slots : request[s] = Free
  BY DEF Init, Saved
<1>2. \A s \in Slots : ~ Answered(s) /\ ~ Asks(s) /\ ~ Open(s)
  BY <1>1 DEF Answered, Asks, Open, Free
<1>3. AttemptsSound /\ OneAttempt /\ AnswersAreBound /\ Heeded /\ SavedIsActive
  BY <1>1, <1>2 DEF AttemptsSound, OneAttempt, AnswersAreBound, Heeded, SavedIsActive
<1>4. KeysMade
  BY <1>1 DEF KeysMade, Pubs, NoAgent
<1>5. ActiveKeyIsTheMachines
  BY <1>1 DEF ActiveKeyIsTheMachines, Active
<1> QED
  BY <1>3, <1>4, <1>5 DEF AttemptsInv

LEMMA Typed ==
  ASSUME TypeOK
  PROVE  /\ \A m \in Machines :
              /\ device[m].attempt \in Attempts \cup {NoAttempt}
              /\ device[m].made \in Nat /\ device[m].current \in Nat
              /\ agent[m].codes \in Seq(Nat) /\ agent[m].code \in Nat
              /\ keys[m] \in SUBSET Keys
         /\ \A m \in Machines : Saved(m) <=> device[m].attempt \in Attempts
         /\ \A s \in Slots : request[s] # Free =>
              request[s].machine \in Machines /\ request[s].attempt \in Attempts
         /\ \A s \in Slots : Open(s) \/ request[s].state \in {"sent", "admitted", "answered"}
              => request[s] # Free
<1>1. \A m \in Machines :
              /\ device[m].attempt \in Attempts \cup {NoAttempt}
              /\ device[m].made \in Nat /\ device[m].current \in Nat
              /\ agent[m].codes \in Seq(Nat) /\ agent[m].code \in Nat
              /\ keys[m] \in SUBSET Keys
  BY DEF TypeOK
<1>2. NoAttempt \notin Attempts
  BY DEF NoAttempt, Attempts
<1>3. \A s \in Slots : request[s] # Free =>
              request[s].machine \in Machines /\ request[s].attempt \in Attempts
  BY DEF TypeOK, Requests
<1>4. \A s \in Slots : Open(s) \/ request[s].state \in {"sent", "admitted", "answered"}
              => request[s] # Free
  BY DEF Open, Free
<1> QED
  BY <1>1, <1>2, <1>3, <1>4 DEF Saved

(* Keys whose states change: those of before, and none active that was not. *)
Restates(ks, ls) ==
  /\ \A l \in ls : \E k \in ks :
       /\ l.pub = k.pub /\ l.credential = k.credential /\ l.prev = k.prev
       /\ l.state = "active" => k.state = "active"
  /\ \A k \in ks : \E l \in ls : l.pub = k.pub

(* A row whose code is taken back or replaced. *)
Moves(a, b) ==
  /\ Len(a.codes) <= Len(b.codes)
  /\ b.code = a.code \/ b.code = 0 \/ b.code > Len(a.codes)
  /\ a.row => b.row
  /\ ~ b.row => b.codes = <<>>

(* What administrators and time do to the rows. *)
LEMMA RowsStep ==
  ASSUME TypeOK, TypeOK', AttemptsInv, UNCHANGED <<device, request>>,
         \A m \in Machines : Restates(keys[m], keys'[m]) /\ Moves(agent[m], agent'[m])
  PROVE  AttemptsInv'
<1> USE Typed DEF AttemptsInv
<1>1. \A m \in Machines : Pubs(m)' = Pubs(m)
  BY DEF Pubs, Restates
<1>2. \A m \in Machines : \A at \in Attempts : Sound(m, at) => Sound(m, at)'
  <2> SUFFICES ASSUME NEW m \in Machines, NEW at \in Attempts, Sound(m, at)
               PROVE  Sound(m, at)'
    OBVIOUS
  <2>1. Len(agent[m].codes) <= Len(agent'[m].codes)
    BY DEF Moves
  <2>2. Len(agent[m].codes) \in Nat /\ Len(agent'[m].codes) \in Nat
    BY DEF TypeOK
  <2>3. at.kind = "code" => at.with \in 1 .. Len(agent'[m].codes)
    BY <2>1, <2>2 DEF Sound
  <2> QED
    BY <1>1, <2>3 DEF Sound
<1>3. AttemptsSound'
  BY <1>2 DEF AttemptsSound, Saved
<1>4. KeysMade'
  BY <1>1 DEF KeysMade, Moves
<1>5. OneAttempt'
  <2> SUFFICES ASSUME NEW m \in Machines, Saved(m)
               PROVE  /\ \A s \in Slots :
                           /\ request[s] # Free
                           /\ request[s].machine = m
                           /\ request[s].attempt.pub = device[m].attempt.pub
                           => Alike(request[s].attempt, device[m].attempt)
                      /\ \A l \in keys'[m] : l.pub = device[m].attempt.pub =>
                           Binds(l, device[m].attempt)
    BY DEF OneAttempt, Saved
  <2> QED
    BY DEF OneAttempt, Restates, Binds
<1>6. AnswersAreBound'
  BY <1>1 DEF AnswersAreBound, Answered, Open
<1>7. \A m \in Machines : \A at \in Attempts : Sound(m, at) /\ MayYet(m, at)' => MayYet(m, at)
  <2> SUFFICES ASSUME NEW m \in Machines, NEW at \in Attempts, Sound(m, at), MayYet(m, at)'
               PROVE  MayYet(m, at)
    OBVIOUS
  <2>1. at.kind = "code" => agent[m].code = at.with
    <3> SUFFICES ASSUME at.kind = "code" PROVE agent[m].code = at.with
      OBVIOUS
    <3>1. agent'[m].code = at.with
      BY DEF MayYet
    <3>2. at.with \in 1 .. Len(agent[m].codes) /\ Len(agent[m].codes) \in Nat
      BY DEF Sound
    <3>3. \/ agent'[m].code = agent[m].code
          \/ agent'[m].code = 0
          \/ agent'[m].code > Len(agent[m].codes)
      BY DEF Moves
    <3> QED
      BY <3>1, <3>2, <3>3
  <2>2. at.kind = "profile" => ~ agent[m].row
    BY DEF MayYet, Moves
  <2>3. at.kind = "renewal" => Signs(m, at.signer, {"active"})
    BY DEF MayYet, Signs, Restates
  <2> QED
    BY <1>1, <2>1, <2>2, <2>3 DEF MayYet
<1>8. Heeded'
  <2> SUFFICES ASSUME NEW s \in Slots, Asks(s)'
               PROVE  Awaited(request[s].machine, request[s].attempt)'
    BY DEF Heeded
  <2>1. request[s] # Free /\ request[s].machine \in Machines /\ request[s].attempt \in Attempts
    BY DEF Asks, Open, Free
  <2>2. Asks(s)
    BY <1>7, <2>1 DEF Asks, AttemptsSound, Open
  <2>3. Awaited(request[s].machine, request[s].attempt)
    BY <2>2 DEF Heeded
  <2> QED
    BY <1>1, <2>1, <2>3 DEF Awaited, Saved
<1>9. SavedIsActive'
  <2> SUFFICES ASSUME NEW m \in Machines, Saved(m), device[m].attempt.pub \in Pubs(m),
                      NEW l \in keys'[m], l.state = "active"
               PROVE  l.pub = device[m].attempt.pub
    BY <1>1 DEF SavedIsActive, Saved, Active
  <2> QED
    BY DEF SavedIsActive, Restates, Active
<1>10. ActiveKeyIsTheMachines'
  BY DEF ActiveKeyIsTheMachines, Restates, Active
<1> QED
  BY <1>3, <1>4, <1>5, <1>6, <1>8, <1>9, <1>10

(* Requests that are admitted, refused or lost. *)
LEMMA SlotsStep ==
  ASSUME TypeOK, TypeOK', AttemptsInv, UNCHANGED <<device, agent, keys>>,
         \A s \in Slots :
           \/ request'[s] = Free
           \/ request'[s] = request[s]
           \/ /\ request[s].state = "sent"
              /\ request'[s] = [state |-> "admitted", machine |-> request[s].machine,
                                attempt |-> request[s].attempt]
  PROVE  AttemptsInv'
<1>0. ASSUME NEW s \in Slots
      PROVE  /\ request'[s] # Free =>
                  /\ request[s] # Free
                  /\ request'[s].machine = request[s].machine
                  /\ request'[s].attempt = request[s].attempt
             /\ Open(s)' => Open(s) /\ request'[s] = request[s]
             /\ request'[s].state \in {"sent", "admitted"} =>
                  request[s].state \in {"sent", "admitted"} /\ request'[s] # Free
             /\ request'[s].state = "answered" =>
                  request'[s] = request[s] /\ request'[s] # Free
  <2>1. CASE request'[s] = Free
    BY <2>1 DEF Open, Free
  <2>2. CASE request'[s] = request[s]
    BY <2>2 DEF Open, Free
  <2>3. CASE /\ request[s].state = "sent"
             /\ request'[s] = [state |-> "admitted", machine |-> request[s].machine,
                               attempt |-> request[s].attempt]
    BY <2>3 DEF Open, Free
  <2> QED
    BY <2>1, <2>2, <2>3
<1>1. \A s \in Slots : request'[s] # Free =>
        /\ request[s] # Free
        /\ request'[s].machine = request[s].machine
        /\ request'[s].attempt = request[s].attempt
  BY <1>0
<1>2. \A s \in Slots : Open(s)' => Open(s) /\ request'[s] = request[s]
  BY <1>0
<1>3. \A s \in Slots : request'[s].state \in {"sent", "admitted"} =>
        request[s].state \in {"sent", "admitted"} /\ request'[s] # Free
  BY <1>0
<1>4. \A s \in Slots : request'[s].state = "answered" =>
        request'[s] = request[s] /\ request'[s] # Free
  BY <1>0
<1> USE Typed DEF AttemptsInv
<1>5. /\ \A m \in Machines : Pubs(m)' = Pubs(m) /\ Saved(m)' = Saved(m)
      /\ \A m \in Machines, at \in Attempts : Sound(m, at)' = Sound(m, at)
  BY DEF Pubs, Saved, Sound
<1>6. AttemptsSound'
  BY <1>1, <1>5 DEF AttemptsSound
<1>7. KeysMade' /\ SavedIsActive' /\ ActiveKeyIsTheMachines'
  BY <1>5 DEF KeysMade, SavedIsActive, ActiveKeyIsTheMachines
<1>8. OneAttempt'
  BY <1>1, <1>5 DEF OneAttempt
<1>9. AnswersAreBound'
  BY <1>1, <1>2, <1>4, <1>5 DEF AnswersAreBound, Answered, Open
<1>10. Heeded'
  <2> SUFFICES ASSUME NEW s \in Slots, Asks(s)'
               PROVE  Awaited(request[s].machine, request[s].attempt)'
    BY DEF Heeded
  <2>1. request'[s] # Free /\ Asks(s)
    <3>1. CASE Open(s)' /\ request'[s].new
      BY <3>1, <1>2 DEF Asks, Open
    <3>2. CASE /\ request'[s].state \in {"sent", "admitted"}
               /\ MayYet(request[s].machine, request[s].attempt)'
      <4>1. request'[s] # Free /\ request[s].state \in {"sent", "admitted"}
        BY <3>2, <1>3
      <4>2. MayYet(request[s].machine, request[s].attempt)
        BY <3>2, <4>1, <1>1 DEF MayYet, Pubs, Signs
      <4> QED
        BY <4>1, <4>2 DEF Asks
    <3> QED
      BY <3>1, <3>2 DEF Asks
  <2>2. Awaited(request[s].machine, request[s].attempt)
    BY <2>1 DEF Heeded
  <2> QED
    BY <1>1, <2>1, <2>2 DEF Awaited, Saved, Pubs
<1> QED
  BY <1>6, <1>7, <1>8, <1>9, <1>10

(* A key that is made is new, in the rows and in every request. *)
LEMMA StartAttempt ==
  ASSUME TypeOK, TypeOK', AttemptsInv, NEW m \in Machines, NEW at \in Attempts, Start(m, at),
         at.pub = device[m].made + 1,
         at.kind = "code" => at.with \in 1 .. Len(agent[m].codes),
         at.kind = "renewal" => at.signer \in Pubs(m),
         at.kind = "code" \/ device[m].made = 0 \/ device[m].attempt = NoAttempt
  PROVE  AttemptsInv'
<1> USE Typed DEF AttemptsInv
<1>1. /\ device'[m] = [current |-> device[m].current, attempt |-> at, made |-> device[m].made + 1]
      /\ \A n \in Machines : n # m => device'[n] = device[n]
      /\ UNCHANGED <<identity, profile, agent, keys, request, reset>>
  BY DEF Start, TypeOK
<1>2. /\ \A n \in Machines : Pubs(n)' = Pubs(n) /\ device[n].made <= device'[n].made
      /\ \A n \in Machines : device'[n].current = device[n].current
      /\ Saved(m)' /\ device'[m].attempt = at
  <2>1. \A n \in Machines : Pubs(n)' = Pubs(n)
    BY <1>1 DEF Pubs
  <2>2. device'[m].made = device[m].made + 1 /\ device'[m].current = device[m].current
        /\ device'[m].attempt = at
    BY <1>1
  <2>3. device[m].made <= device'[m].made
    BY <2>2
  <2>4. Saved(m)'
    BY <2>2 DEF Saved, NoAttempt, Attempts
  <2>5. ASSUME NEW n \in Machines
        PROVE  device[n].made <= device'[n].made /\ device'[n].current = device[n].current
    <3>1. CASE n = m
      BY <3>1, <2>2, <2>3
    <3>2. CASE n # m
      <4>1. device'[n] = device[n] /\ device[n].made \in Nat
        BY <3>2, <1>1
      <4> QED
        BY <4>1
    <3> QED
      BY <3>1, <3>2
  <2> QED
    BY <2>1, <2>2, <2>4, <2>5
<1>3. \A n \in Machines, a \in Attempts : Sound(n, a) => Sound(n, a)'
  <2> SUFFICES ASSUME NEW n \in Machines, NEW a \in Attempts, Sound(n, a)
               PROVE  Sound(n, a)'
    OBVIOUS
  <2>1. a.pub \in 1 .. device'[n].made
    <3>1. a.pub \in 1 .. device[n].made
      BY DEF Sound
    <3>2. device[n].made <= device'[n].made /\ device[n].made \in Nat /\ device'[n].made \in Nat
      BY <1>2, Typed DEF TypeOK
    <3> QED
      BY <3>1, <3>2
  <2> QED
    BY <1>1, <1>2, <2>1 DEF Sound
<1>4. Sound(m, at)'
  <2>1. at.pub \in 1 .. device'[m].made
    BY <1>1
  <2> QED
    BY <1>1, <1>2, <2>1 DEF Sound
<1>5. AttemptsSound'
  BY <1>1, <1>2, <1>3, <1>4 DEF AttemptsSound, Saved
<1>6. KeysMade'
  <2> SUFFICES ASSUME NEW n \in Machines, NEW p \in Pubs(n)
               PROVE  p \in 1 .. device'[n].made
    BY <1>1, <1>2 DEF KeysMade
  <2>1. p \in 1 .. device[n].made
    BY DEF KeysMade
  <2>2. device[n].made <= device'[n].made /\ device[n].made \in Nat /\ device'[n].made \in Nat
    BY <1>2, Typed DEF TypeOK
  <2> QED
    BY <2>1, <2>2
<1>7. at.pub \notin Pubs(m)
  BY DEF KeysMade
<1>8. \A s \in Slots : request[s] # Free /\ request[s].machine = m => request[s].attempt.pub # at.pub
  BY DEF AttemptsSound, Sound
<1>9. OneAttempt'
  <2> SUFFICES ASSUME NEW n \in Machines, Saved(n)'
               PROVE  /\ \A s \in Slots :
                           /\ request[s] # Free
                           /\ request[s].machine = n
                           /\ request[s].attempt.pub = device'[n].attempt.pub
                           => Alike(request[s].attempt, device'[n].attempt)
                      /\ \A k \in keys[n] : k.pub = device'[n].attempt.pub =>
                           Binds(k, device'[n].attempt)
    BY <1>1 DEF OneAttempt
  <2>1. CASE n = m
    BY <2>1, <1>2, <1>7, <1>8 DEF Pubs
  <2>2. CASE n # m
    BY <2>2, <1>1 DEF OneAttempt, Saved
  <2> QED
    BY <2>1, <2>2
<1>10. AnswersAreBound'
  BY <1>1, <1>2 DEF AnswersAreBound, Answered, Open
<1>11. Heeded'
  <2> SUFFICES ASSUME NEW s \in Slots, Asks(s)'
               PROVE  Awaited(request[s].machine, request[s].attempt)'
    BY DEF Heeded
  <2>1. Asks(s) /\ request[s] # Free /\ request[s].machine \in Machines
    BY <1>1 DEF Asks, MayYet, Open, Pubs, Signs, Free
  <2>2. Awaited(request[s].machine, request[s].attempt)
    BY <2>1 DEF Heeded
  <2>3. CASE request[s].machine = m
    <3>1. device[m].made # 0
      BY <2>1, <2>3 DEF AttemptsSound, Sound
    <3>2. device[m].attempt # NoAttempt
      BY <2>2, <2>3 DEF Awaited, Saved
    <3>3. at.kind = "code"
      BY <3>1, <3>2
    <3> QED
      BY <1>1, <1>2, <1>7, <2>3, <3>3 DEF Awaited
  <2>4. CASE request[s].machine # m
    BY <1>1, <1>2, <2>1, <2>2, <2>4 DEF Awaited, Saved
  <2> QED
    BY <2>3, <2>4
<1>12. SavedIsActive'
  <2> SUFFICES ASSUME NEW n \in Machines, Saved(n)', device'[n].attempt.pub \in Pubs(n)
               PROVE  \A k \in Active(keys[n]) : k.pub = device'[n].attempt.pub
    BY <1>1, <1>2 DEF SavedIsActive
  <2>1. n # m
    BY <1>2, <1>7
  <2> QED
    BY <1>1, <2>1 DEF SavedIsActive, Saved
<1>13. ActiveKeyIsTheMachines'
  <2> SUFFICES ASSUME NEW n \in Machines, NEW k \in Active(keys[n])
               PROVE  \/ k.pub = device'[n].current
                      \/ device'[n].attempt.kind \in {"code"}
                      \/ device'[n].attempt # NoAttempt /\ k.pub = device'[n].attempt.pub
    BY <1>1 DEF ActiveKeyIsTheMachines
  <2>1. CASE n # m
    BY <1>1, <2>1 DEF ActiveKeyIsTheMachines
  <2>2. CASE n = m /\ at.kind = "code"
    BY <1>2, <2>2
  <2>3. CASE n = m /\ device[m].attempt = NoAttempt
    BY <1>2, <2>3 DEF ActiveKeyIsTheMachines, NoAttempt
  <2>4. CASE n = m /\ device[m].made = 0
    <3>1. k.pub \in 1 .. device[m].made
      BY <2>4 DEF Active, KeysMade, Pubs
    <3> QED
      BY <2>4, <3>1
  <2> QED
    BY <2>1, <2>2, <2>3, <2>4
<1> QED
  BY <1>5, <1>6, <1>9, <1>10, <1>11, <1>12, <1>13

LEMMA TakeKeyAttempt ==
  ASSUME TypeOK, TypeOK', AttemptsInv, NEW m \in Machines, TakeBootstrapKey(m)
  PROVE  AttemptsInv'
<1> USE Typed DEF AttemptsInv
<1> DEFINE a == device[m].attempt
           b == [a EXCEPT !.with = Newest(profile.keys)]
<1>1. /\ a \in Attempts /\ a.kind = "profile" /\ a # NoAttempt
      /\ device' = [device EXCEPT ![m] = [device[m] EXCEPT !.attempt = b]]
      /\ UNCHANGED <<identity, profile, agent, keys, request, reset>>
  BY DEF TakeBootstrapKey, NoAttempt
<1>2. /\ b \in Attempts /\ b.kind = "profile" /\ b.pub = a.pub /\ b.signer = a.signer
      /\ Credential(b) = Credential(a)
  <2>1. Newest(profile.keys) \in Nat
    BY DEF TypeOK, Newest
  <2>2. b \in Attempts /\ b.kind = "profile" /\ b.pub = a.pub /\ b.signer = a.signer
    BY <1>1, <2>1 DEF Attempts
  <2> HIDE DEF a, b
  <2> QED
    BY <1>1, <2>2 DEF Credential
<1> HIDE DEF b
<1>3. /\ device'[m].attempt = b /\ device'[m].made = device[m].made
      /\ device'[m].current = device[m].current
      /\ \A n \in Machines : n # m => device'[n] = device[n]
  BY <1>1 DEF TypeOK
<1>4. \A n \in Machines :
        /\ Pubs(n)' = Pubs(n) /\ (Saved(n)' <=> Saved(n))
        /\ device'[n].made = device[n].made /\ device'[n].current = device[n].current
        /\ Saved(n) => /\ device'[n].attempt.pub = device[n].attempt.pub
                       /\ device'[n].attempt.kind = device[n].attempt.kind
                       /\ device'[n].attempt.signer = device[n].attempt.signer
                       /\ device'[n].attempt.kind # "profile" =>
                            device'[n].attempt = device[n].attempt
                       /\ Credential(device'[n].attempt) = Credential(device[n].attempt)
  <2> SUFFICES ASSUME NEW n \in Machines
      PROVE
        /\ Pubs(n)' = Pubs(n) /\ (Saved(n)' <=> Saved(n))
        /\ device'[n].made = device[n].made /\ device'[n].current = device[n].current
        /\ Saved(n) => /\ device'[n].attempt.pub = device[n].attempt.pub
                       /\ device'[n].attempt.kind = device[n].attempt.kind
                       /\ device'[n].attempt.signer = device[n].attempt.signer
                       /\ device'[n].attempt.kind # "profile" =>
                            device'[n].attempt = device[n].attempt
                       /\ Credential(device'[n].attempt) = Credential(device[n].attempt)
    OBVIOUS
  <2>0. Pubs(n)' = Pubs(n)
    BY <1>1 DEF Pubs
  <2>1. CASE n = m
    <3>1. b # NoAttempt
      BY <1>2 DEF NoAttempt, Attempts
    <3>2. Saved(n)' /\ Saved(n)
      BY <2>1, <3>1, <1>1, <1>3 DEF Saved
    <3> HIDE DEF a
    <3>3. a.kind = "profile" /\ a = device[m].attempt
      BY <1>1 DEF a
    <3> QED
      BY <2>0, <2>1, <3>2, <3>3, <1>2, <1>3
  <2>2. CASE n # m
    BY <2>0, <2>2, <1>3 DEF Saved
  <2> QED
    BY <2>1, <2>2
<1>5. AttemptsSound'
  <2>1. \A n \in Machines, at \in Attempts : Sound(n, at) => Sound(n, at)'
    BY <1>1, <1>4 DEF Sound
  <2>2. ASSUME NEW n \in Machines, Saved(n), NEW d, d = device'[n].attempt PROVE Sound(n, d)'
    <3>1. Sound(n, device[n].attempt)
      BY <2>2 DEF AttemptsSound
    <3>3. Sound(n, d)
      BY <3>1, <2>2, <1>4 DEF Sound
    <3>4. Pubs(n)' = Pubs(n) /\ device'[n].made = device[n].made /\ agent' = agent
      BY <1>1, <1>4
    <3> QED
      BY <3>3, <3>4 DEF Sound
  <2>3. \A n \in Machines : Saved(n)' => Sound(n, device[n].attempt)'
    BY <1>4, <2>2
  <2> QED
    BY <1>1, <2>1, <2>3 DEF AttemptsSound
<1>6. KeysMade' /\ AnswersAreBound'
  BY <1>1, <1>4 DEF KeysMade, AnswersAreBound, Answered, Open
<1>7. OneAttempt'
  <2> SUFFICES ASSUME NEW n \in Machines, Saved(n)
               PROVE  /\ \A s \in Slots :
                           /\ request[s] # Free
                           /\ request[s].machine = n
                           /\ request[s].attempt.pub = device[n].attempt.pub
                           => Alike(request[s].attempt, device'[n].attempt)
                      /\ \A k \in keys[n] : k.pub = device[n].attempt.pub =>
                           Binds(k, device'[n].attempt)
    BY <1>1, <1>4 DEF OneAttempt
  <2>1. ASSUME NEW k \in keys[n], k.pub = device[n].attempt.pub
        PROVE  Binds(k, device'[n].attempt)
    BY <2>1, <1>4 DEF OneAttempt, Binds
  <2>2. ASSUME NEW s \in Slots, request[s] # Free, request[s].machine = n,
               request[s].attempt.pub = device[n].attempt.pub
        PROVE  Alike(request[s].attempt, device'[n].attempt)
    <3>1. Alike(request[s].attempt, device[n].attempt)
      BY <2>2 DEF OneAttempt
    <3> QED
      BY <3>1, <1>4 DEF Alike
  <2> QED
    BY <2>1, <2>2
<1>8. Heeded'
  <2> SUFFICES ASSUME NEW s \in Slots, Asks(s)'
               PROVE  Awaited(request[s].machine, request[s].attempt)'
    BY DEF Heeded
  <2>1. Asks(s) /\ request[s] # Free /\ request[s].machine \in Machines
    BY <1>1 DEF Asks, MayYet, Open, Pubs, Signs, Free
  <2>2. Awaited(request[s].machine, request[s].attempt)
    BY <2>1 DEF Heeded
  <2> QED
    BY <1>1, <1>4, <2>1, <2>2 DEF Awaited
<1>9. SavedIsActive'
  BY <1>1, <1>4 DEF SavedIsActive
<1>10. ActiveKeyIsTheMachines'
  <2> SUFFICES ASSUME NEW n \in Machines, NEW k \in Active(keys[n])
               PROVE  \/ k.pub = device'[n].current
                      \/ device'[n].attempt.kind \in {"code"}
                      \/ device'[n].attempt # NoAttempt /\ k.pub = device'[n].attempt.pub
    BY <1>1 DEF ActiveKeyIsTheMachines
  <2>1. CASE Saved(n)
    BY <2>1, <1>4 DEF ActiveKeyIsTheMachines, Saved
  <2>2. CASE ~ Saved(n)
    BY <2>2, <1>4 DEF ActiveKeyIsTheMachines, Saved, NoAttempt
  <2> QED
    BY <2>1, <2>2
<1> QED
  BY <1>5, <1>6, <1>7, <1>8, <1>9, <1>10

LEMMA SendAttempt ==
  ASSUME TypeOK, TypeOK', AttemptsInv, NEW m \in Machines, NEW s \in Slots, Send(s, m)
  PROVE  AttemptsInv'
<1> USE Typed DEF AttemptsInv
<1> DEFINE at == device[m].attempt
<1>1. /\ Saved(m) /\ at \in Attempts /\ request[s] = Free
      /\ request'[s] = [state |-> "sent", machine |-> m, attempt |-> at]
      /\ request'[s] # Free /\ ~ Open(s)'
      /\ \A t \in Slots : t # s => request'[t] = request[t]
      /\ UNCHANGED <<identity, profile, agent, keys, device, reset>>
  BY DEF Send, TypeOK, Saved, Open, Free
<1>2. /\ \A n \in Machines : Pubs(n)' = Pubs(n) /\ Saved(n)' = Saved(n)
      /\ \A n \in Machines, a \in Attempts : Sound(n, a)' = Sound(n, a)
  BY <1>1 DEF Pubs, Saved, Sound
<1>3. AttemptsSound'
  BY <1>1, <1>2 DEF AttemptsSound
<1>4. KeysMade' /\ SavedIsActive' /\ ActiveKeyIsTheMachines'
  BY <1>1, <1>2 DEF KeysMade, SavedIsActive, ActiveKeyIsTheMachines
<1>5. OneAttempt'
  BY <1>1, <1>2 DEF OneAttempt, Alike
<1>6. AnswersAreBound'
  BY <1>1, <1>2 DEF AnswersAreBound, Answered, Open
<1>7. Heeded'
  <2> SUFFICES ASSUME NEW t \in Slots, Asks(t)'
               PROVE  Awaited(request[t].machine, request[t].attempt)'
    BY DEF Heeded
  <2>1. CASE t = s
    <3>1. at.pub \notin Pubs(m)
      BY <2>1, <1>1, <1>2 DEF Asks, MayYet
    <3> QED
      BY <2>1, <3>1, <1>1, <1>2 DEF Awaited
  <2>2. CASE t # s
    <3>1. Asks(t) /\ request[t] # Free /\ request[t].machine \in Machines
      BY <2>2, <1>1 DEF Asks, MayYet, Open, Pubs, Signs, Free
    <3>2. Awaited(request[t].machine, request[t].attempt)
      BY <3>1 DEF Heeded
    <3> QED
      BY <1>1, <1>2, <2>2, <3>1, <3>2 DEF Awaited
  <2> QED
    BY <2>1, <2>2
<1> QED
  BY <1>3, <1>4, <1>5, <1>6, <1>7

(* A grant: the key is bound, so no request asks for another. *)
LEMMA GrantedAttempt ==
  ASSUME TypeOK, TypeOK', AttemptsInv, NEW s \in Slots, Granted(s)
  PROVE  AttemptsInv'
<1> USE Typed DEF AttemptsInv
<1> DEFINE m == request[s].machine
           at == request[s].attempt
<1>1. /\ request[s] # Free /\ m \in Machines /\ at \in Attempts /\ at.pub \in Pubs(m)
      /\ request'[s] = Free
      /\ \A t \in Slots : t # s => request'[t] = request[t]
      /\ UNCHANGED <<identity, profile, agent, keys, reset>>
  BY DEF Granted, AnswersAreBound, Answered, TypeOK, Free
<1>2. CASE device[m].attempt # at
  <2>1. UNCHANGED device
    BY <1>2 DEF Granted
  <2> QED
    BY <1>1, <2>1, SlotsStep
<1>3. CASE device[m].attempt = at
  <2>1. /\ device'[m].current = at.pub /\ device'[m].attempt = NoAttempt
        /\ device'[m].made = device[m].made
        /\ \A n \in Machines : n # m => device'[n] = device[n]
        /\ Saved(m)
    <3>1. device' = [device EXCEPT ![m] = [current |-> at.pub, attempt |-> NoAttempt,
                                          made |-> device[m].made]]
      BY <1>3 DEF Granted
    <3>2. Saved(m)
      BY <1>1, <1>3
    <3> QED
      BY <1>1, <3>1, <3>2 DEF TypeOK
  <2>2. /\ \A n \in Machines : Pubs(n)' = Pubs(n) /\ device'[n].made = device[n].made
        /\ \A n \in Machines : Saved(n)' => n # m /\ Saved(n) /\ device'[n] = device[n]
    BY <1>1, <2>1 DEF Pubs, Saved
  <2>3. \A n \in Machines, a \in Attempts : Sound(n, a) => Sound(n, a)'
    BY <1>1, <2>2 DEF Sound
  <2>4. AttemptsSound'
    BY <1>1, <2>2, <2>3 DEF AttemptsSound
  <2>5. KeysMade'
    BY <1>1, <2>1, <2>2 DEF KeysMade
  <2>6. OneAttempt'
    <3> SUFFICES ASSUME NEW n \in Machines, Saved(n)'
                 PROVE  /\ \A t \in Slots :
                             /\ request'[t] # Free
                             /\ request'[t].machine = n
                             /\ request'[t].attempt.pub = device'[n].attempt.pub
                             => Alike(request'[t].attempt, device'[n].attempt)
                        /\ \A k \in keys'[n] : k.pub = device'[n].attempt.pub =>
                             Binds(k, device'[n].attempt)
      BY DEF OneAttempt
    <3>1. Saved(n) /\ device'[n] = device[n] /\ keys'[n] = keys[n]
      BY <1>1, <2>2
    <3>2. \A t \in Slots : request'[t] # Free => request'[t] = request[t]
      BY <1>1
    <3> QED
      BY <3>1, <3>2 DEF OneAttempt
  <2>7. AnswersAreBound'
    BY <1>1, <2>2 DEF AnswersAreBound, Answered, Open, Free
  <2>8. Heeded'
    <3> SUFFICES ASSUME NEW t \in Slots, Asks(t)'
                 PROVE  Awaited(request[t].machine, request[t].attempt)'
      BY DEF Heeded
    <3>1. t # s
      BY <1>1 DEF Asks, Open, Free
    <3>2. Asks(t) /\ request[t] # Free /\ request[t].machine \in Machines
      BY <3>1, <1>1 DEF Asks, MayYet, Open, Pubs, Signs, Free
    <3>3. Awaited(request[t].machine, request[t].attempt)
      BY <3>2 DEF Heeded
    <3>4. request[t].machine # m
      BY <3>3, <1>1, <1>3 DEF Awaited
    <3> QED
      BY <1>1, <2>1, <2>2, <3>1, <3>2, <3>3, <3>4 DEF Awaited, Saved
  <2>9. SavedIsActive'
    BY <1>1, <2>2 DEF SavedIsActive
  <2>10. ActiveKeyIsTheMachines'
    <3> SUFFICES ASSUME NEW n \in Machines, NEW k \in Active(keys[n])
                 PROVE  \/ k.pub = device'[n].current
                        \/ device'[n].attempt.kind \in {"code"}
                        \/ device'[n].attempt # NoAttempt /\ k.pub = device'[n].attempt.pub
      BY <1>1 DEF ActiveKeyIsTheMachines
    <3>1. CASE n = m
      BY <3>1, <1>1, <1>3, <2>1 DEF SavedIsActive
    <3>2. CASE n # m
      BY <3>2, <2>1 DEF ActiveKeyIsTheMachines
    <3> QED
      BY <3>1, <3>2
  <2> QED
    BY <2>4, <2>5, <2>6, <2>7, <2>8, <2>9, <2>10
<1> QED
  BY <1>2, <1>3

LEMMA MachineAttempts ==
  ASSUME TypeOK, TypeOK', AttemptsInv, NEW m \in Machines, Machine(m)
  PROVE  AttemptsInv'
<1>1. CASE StartWithCode(m)
  <2> DEFINE at == [kind |-> "code", pub |-> NewKey(m), with |-> Newest(agent[m].codes),
                    signer |-> 0]
  <2>1. agent[m].codes \in Seq(Nat) /\ agent[m].codes # <<>> /\ device[m].made \in Nat
    BY <1>1 DEF StartWithCode, TypeOK
  <2>2. at \in Attempts /\ at.with \in 1 .. Len(agent[m].codes) /\ at.pub = device[m].made + 1
    BY <2>1 DEF Attempts, NewKey, Newest
  <2>3. Start(m, at) /\ at.kind = "code"
    BY <1>1 DEF StartWithCode
  <2> HIDE DEF at
  <2> QED
    BY <2>2, <2>3, StartAttempt
<1>2. CASE StartWithProfile(m)
  <2> DEFINE at == [kind |-> "profile", pub |-> NewKey(m), with |-> Newest(profile.keys),
                    signer |-> 0]
  <2>1. at \in Attempts /\ at.pub = device[m].made + 1
    BY DEF TypeOK, NewKey, Newest, Attempts
  <2>2. Start(m, at) /\ at.kind = "profile" /\ device[m].made = 0
    BY <1>2 DEF StartWithProfile
  <2> HIDE DEF at
  <2> QED
    BY <2>1, <2>2, StartAttempt
<1>3. CASE StartRenewal(m)
  <2> DEFINE at == [kind |-> "renewal", pub |-> NewKey(m), with |-> 0,
                    signer |-> device[m].current]
  <2>1. at \in Attempts /\ at.pub = device[m].made + 1
    BY DEF TypeOK, NewKey, Attempts
  <2>2. Start(m, at) /\ at.kind = "renewal" /\ device[m].attempt = NoAttempt
    BY <1>3 DEF StartRenewal
  <2>3. at.signer \in Pubs(m)
    BY <1>3 DEF StartRenewal, AttemptsInv, KeysMade
  <2> HIDE DEF at
  <2> QED
    BY <2>1, <2>2, <2>3, StartAttempt
<1> QED
  BY <1>1, <1>2, <1>3, TakeKeyAttempt, SendAttempt DEF Machine

LEMMA DecideAttempt ==
  ASSUME KeysInv, TypeOK', AttemptsInv, NEW s \in Slots, Decide(s)
  PROVE  AttemptsInv'
<1>0. TypeOK
  BY DEF KeysInv
<1> USE <1>0, Typed DEF AttemptsInv
<1> DEFINE m == request[s].machine
           at == request[s].attempt
<1>1. /\ request[s].state = "admitted" /\ request[s] # Free /\ m \in Machines /\ at \in Attempts
      /\ UNCHANGED <<identity, profile, agent, keys, device, reset>>
  BY DEF Decide
<1>2. PICK new \in BOOLEAN :
        /\ Grants(m, at, new)
        /\ request' = [request EXCEPT ![s] =
             [state |-> "open", machine |-> m, attempt |-> at, new |-> new,
              key |-> IF new THEN [pub |-> at.pub, state |-> "active", prev |-> at.signer,
                                   credential |-> Credential(at)]
                      ELSE NoKey]]
  BY DEF Decide
<1> DEFINE key == IF new THEN [pub |-> at.pub, state |-> "active", prev |-> at.signer,
                               credential |-> Credential(at)]
                  ELSE NoKey
<1>3. /\ \A t \in Slots : t # s => request'[t] = request[t]
      /\ request'[s] = [state |-> "open", machine |-> m, attempt |-> at, new |-> new, key |-> key]
      /\ request'[s] # Free
  BY <1>2 DEF TypeOK, Free
<1>4. new => MayYet(m, at) /\ key.prev = at.signer
  <2> SUFFICES ASSUME new PROVE MayYet(m, at)
    OBVIOUS
  <2>1. CASE at.kind = "code"
    <3>1. agent[m].code = at.with /\ MayBind(m, at)
      BY <2>1, <1>2 DEF Grants, CodeGrants
    <3> QED
      BY <2>1, <3>1 DEF MayYet, MayBind, Pubs
  <2>2. CASE at.kind = "profile"
    <3>1. ~ agent[m].row
      BY <2>2, <1>2 DEF Grants, ProfileGrants
    <3>2. CASE at.pub \notin Pubs(m)
      BY <2>2, <3>1, <3>2 DEF MayYet
    <3>3. CASE at.pub \in Pubs(m)
      BY <3>1, <3>3, <1>1 DEF Pubs, KeysInv, KeysOnce
    <3> QED
      BY <3>2, <3>3
  <2>3. CASE at.kind = "renewal"
    <3>1. Signs(m, at.signer, {"active"}) /\ MayBind(m, at)
      BY <2>3, <1>2 DEF Grants, RenewalGrants
    <3> QED
      BY <2>3, <3>1 DEF MayYet, MayBind, Pubs
  <2> QED
    BY <1>1, <2>1, <2>2, <2>3 DEF Attempts
<1>5. ~ new => at.pub \in Pubs(m)
  <2> SUFFICES ASSUME ~ new PROVE BoundBefore(m, at)
    BY DEF BoundBefore, Bound, Pubs
  <2>1. CASE at.kind = "code"
    BY <2>1, <1>2 DEF Grants, CodeGrants
  <2>2. CASE at.kind = "profile"
    BY <2>2, <1>2 DEF Grants, ProfileGrants
  <2>3. CASE at.kind = "renewal"
    BY <2>3, <1>2 DEF Grants, RenewalGrants
  <2> QED
    BY <1>1, <2>1, <2>2, <2>3 DEF Attempts
<1> HIDE DEF key
<1>6. /\ \A n \in Machines : Pubs(n)' = Pubs(n) /\ Saved(n)' = Saved(n)
      /\ \A n \in Machines, a \in Attempts : Sound(n, a)' = Sound(n, a)
  BY <1>1 DEF Pubs, Saved, Sound
<1>7. \A t \in Slots :
        /\ request'[t] # Free <=> request[t] # Free
        /\ request[t] # Free => request'[t].machine = request[t].machine
                                /\ request'[t].attempt = request[t].attempt
  BY <1>1, <1>3
<1>8. AttemptsSound'
  <2>1. ASSUME NEW t \in Slots, request[t] # Free
        PROVE  Sound(request[t].machine, request[t].attempt)'
    <3>1. Sound(request[t].machine, request[t].attempt)
      BY <2>1 DEF AttemptsSound
    <3> QED
      BY <2>1, <3>1, <1>1, <1>6, <1>7 DEF Sound
  <2>2. ASSUME NEW n \in Machines, Saved(n) PROVE Sound(n, device[n].attempt)'
    BY <2>2, <1>1, <1>6 DEF AttemptsSound, Sound
  <2> QED
    BY <1>6, <1>7, <2>1, <2>2 DEF AttemptsSound
<1>9. KeysMade' /\ SavedIsActive' /\ ActiveKeyIsTheMachines'
  BY <1>1, <1>6 DEF KeysMade, SavedIsActive, ActiveKeyIsTheMachines
<1>10. OneAttempt'
  BY <1>1, <1>6, <1>7 DEF OneAttempt
<1>11. AnswersAreBound'
  <2> SUFFICES ASSUME NEW t \in Slots
               PROVE  /\ (Answered(t) => request[t].attempt.pub \in Pubs(request[t].machine))'
                      /\ (Open(t) /\ request[t].new =>
                             request[t].key.prev = request[t].attempt.signer)'
    BY DEF AnswersAreBound
  <2>1. CASE t = s
    BY <2>1, <1>1, <1>3, <1>4, <1>5, <1>6 DEF Answered, Open
  <2>2. CASE t # s
    BY <2>2, <1>3, <1>6 DEF AnswersAreBound, Answered, Open
  <2> QED
    BY <2>1, <2>2
<1>12. Heeded'
  <2> SUFFICES ASSUME NEW t \in Slots, Asks(t)'
               PROVE  Awaited(request[t].machine, request[t].attempt)'
    BY DEF Heeded
  <2>1. Asks(t)
    <3>1. CASE t = s
      BY <3>1, <1>1, <1>3, <1>4 DEF Asks
    <3>2. CASE t # s
      BY <3>2, <1>1, <1>3 DEF Asks, MayYet, Open, Pubs, Signs
    <3> QED
      BY <3>1, <3>2
  <2>2. Awaited(request[t].machine, request[t].attempt) /\ request[t] # Free
    BY <2>1 DEF Heeded, Asks
  <2> QED
    BY <1>1, <1>6, <1>7, <2>2 DEF Awaited
<1> QED
  BY <1>8, <1>9, <1>10, <1>11, <1>12

(* What a binding leaves: the new key is the machine's only active one, so *)
(* nothing that was signed with another may bind.                          *)
LEMMA WithKeyKeys ==
  ASSUME NEW ks \in SUBSET Keys, NEW key \in Keys
  PROVE  /\ key \in WithKey(ks, key)
         /\ \A k \in ks : \E l \in WithKey(ks, key) : l.pub = k.pub
         /\ \A l \in WithKey(ks, key) :
              \/ l = key
              \/ /\ l.state # "active"
                 /\ \E k \in ks : l.pub = k.pub /\ l.credential = k.credential /\ l.prev = k.prev
<1> DEFINE after(k) == [k EXCEPT !.state = IF @ = "active" THEN "retired" ELSE @]
<1>1. \A k \in ks :
        /\ after(k).state # "active" /\ after(k).pub = k.pub
        /\ after(k).credential = k.credential /\ after(k).prev = k.prev
  BY DEF Keys, KeyStates
<1>2. /\ \A l \in WithKey(ks, key) : l = key \/ \E k \in ks : l = after(k)
      /\ \A k \in ks : after(k) \in WithKey(ks, key)
      /\ key \in WithKey(ks, key)
  BY DEF WithKey
<1> HIDE DEF after
<1> QED
  BY <1>1, <1>2

LEMMA CommitAttempt ==
  ASSUME KeysInv, TypeOK', AttemptsInv, NEW s \in Slots, Commit(s)
  PROVE  AttemptsInv'
<1>0. TypeOK
  BY DEF KeysInv
<1> USE <1>0, Typed DEF AttemptsInv
<1>9. Open(s) /\ request[s] # Free
  BY DEF Commit
<1>10. PICK m \in Machines, at \in Attempts :
         m = request[s].machine /\ at = request[s].attempt
  BY <1>9
<1>11. PICK key : key = request[s].key
  OBVIOUS
<1> USE <1>10, <1>11
<1>1. Open(s) /\ m \in Machines /\ at \in Attempts /\ request[s] # Free
  BY <1>9
<1>2. /\ \A t \in Slots : t # s => request'[t] = request[t]
      /\ request'[s] = [state |-> "answered", machine |-> m, attempt |-> at]
      /\ request'[s] # Free /\ ~ Open(s)'
      /\ UNCHANGED <<identity, device, reset>>
  BY DEF Commit, TypeOK, Open, Free
<1>3. \A t \in Slots :
        /\ request'[t] # Free <=> request[t] # Free
        /\ request[t] # Free => request'[t].machine = request[t].machine
                                /\ request'[t].attempt = request[t].attempt
  BY <1>1, <1>2
<1>4. \A n \in Machines : Saved(n)' = Saved(n)
  BY <1>2 DEF Saved
<1>5. CASE ~ request[s].new
  <2>1. UNCHANGED <<keys, agent, profile>>
    BY <1>5 DEF Commit
  <2>2. at.pub \in Pubs(m)
    BY <1>1, <1>5 DEF AnswersAreBound, Answered
  <2>3. \A n \in Machines : Pubs(n)' = Pubs(n)
    BY <2>1 DEF Pubs
  <2>4. KeysMade' /\ SavedIsActive' /\ ActiveKeyIsTheMachines'
    BY <1>2, <1>4, <2>1, <2>3 DEF KeysMade, SavedIsActive, ActiveKeyIsTheMachines
  <2>5. AttemptsSound'
    <3>1. ASSUME NEW t \in Slots, request[t] # Free
          PROVE  Sound(request[t].machine, request[t].attempt)'
      <4>1. Sound(request[t].machine, request[t].attempt)
        BY <3>1 DEF AttemptsSound
      <4> QED
        BY <3>1, <4>1, <1>2, <1>3, <2>1, <2>3 DEF Sound
    <3>2. ASSUME NEW n \in Machines, Saved(n) PROVE Sound(n, device[n].attempt)'
      BY <3>2, <1>2, <2>1, <2>3 DEF AttemptsSound, Sound
    <3> QED
      BY <1>3, <1>4, <3>1, <3>2 DEF AttemptsSound
  <2>6. OneAttempt'
    BY <1>2, <1>3, <1>4, <2>1 DEF OneAttempt
  <2>7. AnswersAreBound'
    BY <1>1, <1>2, <2>2, <2>3 DEF AnswersAreBound, Answered, Open
  <2>8. Heeded'
    <3> SUFFICES ASSUME NEW t \in Slots, Asks(t)'
                 PROVE  Awaited(request[t].machine, request[t].attempt)'
      BY DEF Heeded
    <3>1. t # s
      BY <1>2 DEF Asks
    <3>2. Asks(t) /\ request[t] # Free /\ request[t].machine \in Machines
      BY <3>1, <1>2, <2>1 DEF Asks, MayYet, Open, Pubs, Signs, Free
    <3>3. Awaited(request[t].machine, request[t].attempt)
      BY <3>2 DEF Heeded
    <3> QED
      BY <1>2, <1>4, <2>3, <3>1, <3>2, <3>3 DEF Awaited
  <2> QED
    BY <2>4, <2>5, <2>6, <2>7, <2>8
<1>6. CASE request[s].new
  <2>1. /\ Found(m, at, key) /\ key.prev = at.signer /\ Awaited(m, at)
        /\ key \in Keys /\ key.pub = at.pub /\ key.state = "active"
        /\ key.credential = Credential(at) /\ at.pub \notin Pubs(m)
    BY <1>1, <1>6 DEF KeysInv, Decided, Found, AnswersAreBound, Heeded, Asks, Pubs
  <2>2. /\ keys'[m] = WithKey(keys[m], key) /\ agent'[m] = AfterBinding(m, at)
        /\ \A n \in Machines : n # m => keys'[n] = keys[n] /\ agent'[n] = agent[n]
    BY <1>1, <1>6 DEF Commit, TypeOK
  <2>3. /\ key \in keys'[m]
        /\ \A k \in keys[m] : \E l \in keys'[m] : l.pub = k.pub
        /\ \A l \in keys'[m] :
             \/ l = key
             \/ /\ l.state # "active"
                /\ \E k \in keys[m] : l.pub = k.pub /\ l.credential = k.credential /\ l.prev = k.prev
    <3>1. keys[m] \in SUBSET Keys
      OBVIOUS
    <3>2. /\ key \in WithKey(keys[m], key)
          /\ \A k \in keys[m] : \E l \in WithKey(keys[m], key) : l.pub = k.pub
          /\ \A l \in WithKey(keys[m], key) :
               \/ l = key
               \/ /\ l.state # "active"
                  /\ \E k \in keys[m] :
                       l.pub = k.pub /\ l.credential = k.credential /\ l.prev = k.prev
      BY <2>1, <3>1, WithKeyKeys
    <3> QED
      BY <2>2, <3>2
  <2>4. /\ agent[m].codes # <<>> => at.kind # "profile"
        /\ at.kind # "profile" => agent'[m].codes = agent[m].codes
        /\ at.kind = "profile" => ~ agent[m].row
        /\ at.kind = "code" => agent'[m].code = 0
        /\ at.kind = "renewal" => agent'[m].code = agent[m].code
        /\ agent'[m].row
    <3>1. at.kind = "code" => agent[m].row
      BY <2>1 DEF Found
    <3>2. at.kind = "profile" => ~ agent[m].row /\ agent[m].codes = <<>>
      BY <1>1, <2>1 DEF Found, KeysMade
    <3>3. at.kind = "renewal" => agent[m].row
      BY <2>1 DEF Found
    <3>4. at.kind = "code" => agent'[m].code = 0
      <4> SUFFICES ASSUME at.kind = "code" PROVE agent'[m].code = 0
        OBVIOUS
      <4>1. agent'[m] = [agent[m] EXCEPT !.code = 0, !.fresh = FALSE, !.expired = FALSE]
        BY <2>2 DEF AfterBinding
      <4>2. agent[m] \in Agents
        BY DEF TypeOK, Agents
      <4> QED
        BY <4>1, <4>2 DEF Agents
    <3> QED
      BY <3>1, <3>2, <3>3, <3>4, <1>1, <2>2, BoundRow DEF Attempts
  <2>5. /\ Pubs(m)' = Pubs(m) \cup {at.pub}
        /\ \A n \in Machines : n # m => Pubs(n)' = Pubs(n)
    <3>1. Pubs(m)' = {l.pub : l \in keys'[m]}
      BY DEF Pubs
    <3> QED
      BY <2>1, <2>2, <2>3, <3>1 DEF Pubs
  <2>6. /\ device[m].attempt \in Attempts /\ Saved(m) /\ device[m].attempt.pub \notin Pubs(m)
        /\ device[m].attempt.pub = at.pub \/ device[m].attempt.kind = "code"
    BY <1>1, <2>1 DEF Awaited
  <2>7. device[m].attempt.pub = at.pub => Alike(at, device[m].attempt)
    BY <1>1, <2>6 DEF OneAttempt
  <2>8. \A n \in Machines, a \in Attempts : Sound(n, a) => Sound(n, a)'
    <3> SUFFICES ASSUME NEW n \in Machines, NEW a \in Attempts, Sound(n, a) PROVE Sound(n, a)'
      OBVIOUS
    <3>1. CASE n # m
      BY <3>1, <1>2, <2>2, <2>5 DEF Sound
    <3>2. CASE n = m
      <4>1. a.kind = "code" => a.with \in 1 .. Len(agent'[m].codes)
        <5> SUFFICES ASSUME a.kind = "code" PROVE a.with \in 1 .. Len(agent'[m].codes)
          OBVIOUS
        <5>1. a.with \in 1 .. Len(agent[m].codes)
          BY <3>2 DEF Sound
        <5>2. agent[m].codes # <<>>
          BY <5>1
        <5> QED
          BY <5>1, <5>2, <2>4
      <4> QED
        BY <3>2, <4>1, <1>2, <2>5 DEF Sound
    <3> QED
      BY <3>1, <3>2
  <2>9. AttemptsSound'
    <3>1. ASSUME NEW t \in Slots, request[t] # Free
          PROVE  Sound(request[t].machine, request[t].attempt)'
      <4> DEFINE n == request[t].machine
                 a == request[t].attempt
      <4>1. Sound(n, a) /\ n \in Machines /\ a \in Attempts
        BY <3>1 DEF AttemptsSound
      <4>2. \A x \in Machines, y \in Attempts : x = n /\ y = a => Sound(x, y)'
        BY <4>1, <2>8
      <4>3. request'[t].machine = n /\ request'[t].attempt = a
        BY <3>1, <1>3
      <4> QED
        BY <4>1, <4>2, <4>3
    <3>2. ASSUME NEW n \in Machines, Saved(n) PROVE Sound(n, device[n].attempt)'
      <4>1. Sound(n, device[n].attempt) /\ device[n].attempt \in Attempts
        BY <3>2 DEF AttemptsSound
      <4>2. \A y \in Attempts : y = device[n].attempt => Sound(n, y)'
        BY <4>1, <2>8
      <4> QED
        BY <4>1, <4>2, <1>2
    <3> QED
      BY <1>3, <1>4, <3>1, <3>2 DEF AttemptsSound
  <2>10. KeysMade'
    <3> SUFFICES ASSUME NEW n \in Machines
                 PROVE  /\ Pubs(n)' \subseteq 1 .. device[n].made
                        /\ device[n].current = 0 \/ device[n].current \in Pubs(n)'
                        /\ ~ agent'[n].row => agent'[n].codes = <<>>
      BY <1>2 DEF KeysMade
    <3>1. CASE n = m
      <4>1. at.pub \in 1 .. device[m].made
        BY <1>1 DEF AttemptsSound, Sound
      <4> QED
        BY <3>1, <4>1, <2>4, <2>5 DEF KeysMade
    <3>2. CASE n # m
      BY <3>2, <2>2, <2>5 DEF KeysMade
    <3> QED
      BY <3>1, <3>2
  <2>11. OneAttempt'
    <3> SUFFICES ASSUME NEW n \in Machines, Saved(n)
                 PROVE  /\ \A t \in Slots :
                             /\ request[t] # Free
                             /\ request[t].machine = n
                             /\ request[t].attempt.pub = device[n].attempt.pub
                             => Alike(request[t].attempt, device[n].attempt)
                        /\ \A l \in keys'[n] : l.pub = device[n].attempt.pub =>
                             Binds(l, device[n].attempt)
      BY <1>2, <1>3, <1>4 DEF OneAttempt
    <3>1. ASSUME NEW l \in keys'[n], l.pub = device[n].attempt.pub
          PROVE  Binds(l, device[n].attempt)
      <4>1. CASE n # m
        BY <3>1, <4>1, <2>2 DEF OneAttempt
      <4>2. CASE n = m /\ l # key
        <5>1. \E k \in keys[m] : l.pub = k.pub
          BY <4>2, <2>3
        <5>2. l.pub \in Pubs(m)
          BY <5>1 DEF Pubs
        <5> QED
          BY <3>1, <4>2, <5>2, <2>6
      <4>3. CASE n = m /\ l = key
        <5> DEFINE d == device[m].attempt
        <5>1. Alike(at, d) /\ d.pub = at.pub /\ d \in Attempts
          BY <3>1, <4>3, <2>1, <2>6, <2>7
        <5>2. Credential(d) = Credential(at)
          <6> HIDE DEF d
          <6> QED
            BY <5>1, <1>1 DEF Credential, Alike, Attempts
        <5> QED
          BY <4>3, <5>1, <5>2, <2>1 DEF Binds, Alike
      <4> QED
        BY <4>1, <4>2, <4>3
    <3> QED
      BY <3>1 DEF OneAttempt
  <2>12. AnswersAreBound'
    <3> SUFFICES ASSUME NEW t \in Slots
                 PROVE  /\ (Answered(t) => request[t].attempt.pub \in Pubs(request[t].machine))'
                        /\ (Open(t) /\ request[t].new =>
                              request[t].key.prev = request[t].attempt.signer)'
      BY DEF AnswersAreBound
    <3>1. CASE t = s
      BY <3>1, <1>1, <1>2, <2>5
    <3>2. CASE t # s
      <4>1. \A n \in Machines : Pubs(n) \subseteq Pubs(n)'
        BY <2>5
      <4>2. request'[t] = request[t] /\ (Answered(t)' <=> Answered(t)) /\ (Open(t)' <=> Open(t))
        BY <3>2, <1>2 DEF Answered, Open
      <4>3. Answered(t) => request[t].machine \in Machines
        BY DEF Answered
      <4>4. Answered(t) => \E n \in Machines :
              n = request[t].machine /\ request[t].attempt.pub \in Pubs(n)
        BY <4>3 DEF AnswersAreBound
      <4>5. Answered(t) => \E n \in Machines :
              n = request[t].machine /\ request[t].attempt.pub \in Pubs(n)'
        BY <4>1, <4>4
      <4> QED
        BY <4>2, <4>5 DEF AnswersAreBound
    <3> QED
      BY <3>1, <3>2
  <2>13. SavedIsActive'
    <3> SUFFICES ASSUME NEW n \in Machines, Saved(n), device[n].attempt.pub \in Pubs(n)',
                        NEW l \in keys'[n], l.state = "active"
                 PROVE  l.pub = device[n].attempt.pub
      BY <1>2, <1>4 DEF SavedIsActive, Active
    <3>1. CASE n = m
      BY <3>1, <2>1, <2>3, <2>5, <2>6
    <3>2. CASE n # m
      BY <3>2, <2>2, <2>5 DEF SavedIsActive, Active
    <3> QED
      BY <3>1, <3>2
  <2>14. ActiveKeyIsTheMachines'
    <3> SUFFICES ASSUME NEW n \in Machines, NEW l \in keys'[n], l.state = "active"
                 PROVE  \/ l.pub = device[n].current
                        \/ device[n].attempt.kind \in {"code"}
                        \/ device[n].attempt # NoAttempt /\ l.pub = device[n].attempt.pub
      BY <1>2 DEF ActiveKeyIsTheMachines, Active
    <3>1. CASE n = m
      BY <3>1, <2>1, <2>3, <2>6 DEF Saved
    <3>2. CASE n # m
      BY <3>2, <2>2 DEF ActiveKeyIsTheMachines, Active
    <3> QED
      BY <3>1, <3>2
  <2>15. Heeded'
    <3> SUFFICES ASSUME NEW t \in Slots, Asks(t)'
                 PROVE  Awaited(request[t].machine, request[t].attempt)'
      BY DEF Heeded
    <3>1. t # s
      BY <1>2 DEF Asks
    <3>2. /\ request'[t] = request[t] /\ request[t] # Free /\ request[t].machine \in Machines
          /\ request[t].attempt \in Attempts
          /\ Open(t)' <=> Open(t)
      BY <3>1, <1>2 DEF Asks, Open, Free
    <3>3. CASE request[t].machine # m
      <4>1. Asks(t)
        BY <3>2, <3>3, <2>2, <2>5 DEF Asks, MayYet, Signs
      <4>2. Awaited(request[t].machine, request[t].attempt)
        BY <4>1 DEF Heeded
      <4> QED
        BY <3>2, <3>3, <4>2, <1>2, <1>4, <2>5 DEF Awaited
    <3>4. CASE request[t].machine = m
      <4>0. PICK a \in Attempts : a = request[t].attempt
        BY <3>2
      <4>1. ~ Open(t)
        BY <3>1, <3>4, <1>1 DEF KeysInv, OneLock
      <4>2. request[t].state \in {"sent", "admitted"} /\ MayYet(m, a)'
        BY <3>2, <3>4, <4>0, <4>1 DEF Asks
      <4>3. Sound(m, a)
        BY <3>2, <3>4, <4>0 DEF AttemptsSound
      <4>4. a.kind # "profile"
        BY <4>2, <2>4 DEF MayYet
      <4>5. a.kind # "renewal"
        <5> SUFFICES ASSUME a.kind = "renewal" PROVE FALSE
          OBVIOUS
        <5>1. PICK l \in keys'[m] : l.pub = a.signer /\ l.state = "active"
          BY <4>2 DEF MayYet, Signs
        <5>2. l.pub = at.pub
          BY <5>1, <2>1, <2>3
        <5>3. a.signer \in Pubs(m)
          BY <4>3 DEF Sound
        <5> QED
          BY <5>1, <5>2, <5>3, <2>1
      <4>6. a.kind = "code" /\ agent'[m].code = a.with /\ a.with # 0
        <5>1. a.kind = "code"
          BY <4>4, <4>5 DEF Attempts
        <5>2. a.with \in 1 .. Len(agent[m].codes)
          BY <4>3, <5>1 DEF Sound
        <5> QED
          BY <4>2, <5>1, <5>2 DEF MayYet
      <4>7. at.kind = "renewal"
        <5>1. at.kind # "code"
          BY <4>6, <2>4
        <5>2. at.kind # "profile"
          BY <4>3, <4>6, <2>4 DEF Sound
        <5> QED
          BY <5>1, <5>2 DEF Attempts
      <4>8. a.pub \notin Pubs(m)
        BY <4>2, <2>5 DEF MayYet
      <4>9. Asks(t)
        BY <3>2, <3>4, <4>0, <4>2, <4>6, <4>7, <4>8, <2>4 DEF Asks, MayYet
      <4>10. device[m].attempt.pub = a.pub \/ device[m].attempt.kind = "code"
        BY <3>4, <4>0, <4>9 DEF Heeded, Awaited
      <4>11. device[m].attempt.pub # at.pub
        <5>1. CASE device[m].attempt.pub = a.pub
          BY <5>1, <4>2, <2>5 DEF MayYet
        <5>2. CASE device[m].attempt.kind = "code"
          BY <5>2, <4>7, <2>7 DEF Alike
        <5> QED
          BY <4>10, <5>1, <5>2
      <4>12. device[m].attempt.pub \notin Pubs(m)'
        BY <4>11, <2>5, <2>6
      <4>13. request'[t].machine = m /\ request'[t].attempt = a
        BY <3>2, <3>4, <4>0
      <4> QED
        BY <4>10, <4>12, <4>13, <1>2, <1>4, <2>6 DEF Awaited
    <3> QED
      BY <3>3, <3>4
  <2> QED
    BY <2>9, <2>10, <2>11, <2>12, <2>13, <2>14, <2>15
<1> QED
  BY <1>5, <1>6

LEMMA SameRows ==
  ASSUME TypeOK, AttemptsInv, NEW m \in Machines
  PROVE  Moves(agent[m], agent[m]) /\ Restates(keys[m], keys[m])
<1>1. Len(agent[m].codes) \in Nat
  BY DEF TypeOK
<1>2. ~ agent[m].row => agent[m].codes = <<>>
  BY DEF AttemptsInv, KeysMade
<1> QED
  BY <1>1, <1>2 DEF Moves, Restates

(* One machine's rows change. *)
LEMMA RowStep ==
  ASSUME TypeOK, TypeOK', AttemptsInv, NEW m \in Machines, UNCHANGED <<device, request>>,
         \A n \in Machines : n # m => agent'[n] = agent[n] /\ keys'[n] = keys[n],
         Moves(agent[m], agent'[m]), Restates(keys[m], keys'[m])
  PROVE  AttemptsInv'
<1>1. \A n \in Machines : Restates(keys[n], keys'[n]) /\ Moves(agent[n], agent'[n])
  BY SameRows
<1> QED
  BY <1>1, RowsStep

LEMMA RevokedRestates ==
  ASSUME NEW ks \in SUBSET Keys
  PROVE  Restates(ks, Revoked(ks))
<1> DEFINE after(k) == [k EXCEPT !.state = "revoked"]
<1>1. \A k \in ks :
        /\ after(k).state = "revoked" /\ after(k).pub = k.pub
        /\ after(k).credential = k.credential /\ after(k).prev = k.prev
  BY DEF Keys
<1>2. Revoked(ks) = {after(k) : k \in ks}
  BY DEF Revoked
<1> HIDE DEF after
<1> QED
  BY <1>1, <1>2 DEF Restates

LEMMA CodeAttempts ==
  ASSUME KeysInv, TypeOK', AttemptsInv, NEW m \in Machines, Register(m) \/ IssueCode(m)
  PROVE  AttemptsInv'
<1>0. TypeOK /\ identity \in Nat /\ agent[m] \in Agents
  BY DEF KeysInv, TypeOK, Agents
<1>1. PICK a \in Agents :
        /\ agent' = [agent EXCEPT ![m] = WithCode(a)]
        /\ a.codes = agent[m].codes /\ a.row
        /\ UNCHANGED <<identity, profile, keys, device, request, reset>>
  <2>1. CASE Register(m)
    <3> DEFINE a == [NoAgent EXCEPT !.row = TRUE, !.enabled = TRUE]
    <3>1. a \in Agents /\ a.row
      BY NewRow
    <3>2. agent[m].codes = <<>>
      BY <2>1 DEF Register, AttemptsInv, KeysMade
    <3>3. a.codes = <<>>
      BY DEF NoAgent
    <3> HIDE DEF a
    <3>4. /\ agent' = [agent EXCEPT ![m] = WithCode(a)]
          /\ UNCHANGED <<identity, profile, keys, device, request, reset>>
      BY <2>1 DEF Register, a
    <3> QED
      BY <3>1, <3>2, <3>3, <3>4
  <2>2. CASE IssueCode(m)
    BY <2>2, <1>0 DEF IssueCode
  <2> QED
    BY <2>1, <2>2
<1>2. agent'[m] = WithCode(a) /\ \A n \in Machines : n # m => agent'[n] = agent[n]
  BY <1>0, <1>1 DEF TypeOK
<1>3. /\ agent'[m].row /\ agent'[m].codes = Append(agent[m].codes, identity)
      /\ agent'[m].code = Len(agent[m].codes) + 1
  BY <1>0, <1>1, <1>2, CodedRow
<1>4. Len(agent'[m].codes) = Len(agent[m].codes) + 1 /\ Len(agent[m].codes) \in Nat
  BY <1>0, <1>3 DEF Agents
<1>5. Moves(agent[m], agent'[m])
  BY <1>3, <1>4 DEF Moves
<1> QED
  BY <1>0, <1>1, <1>2, <1>5, RowStep, SameRows

LEMMA RevokeAttempts ==
  ASSUME TypeOK, TypeOK', AttemptsInv, NEW m \in Machines, Revoke(m)
  PROVE  AttemptsInv'
<1>1. /\ keys'[m] = Revoked(keys[m])
      /\ agent'[m] = [agent[m] EXCEPT !.enabled = FALSE, !.code = 0, !.fresh = FALSE]
      /\ agent[m].row
      /\ \A n \in Machines : n # m => agent'[n] = agent[n] /\ keys'[n] = keys[n]
      /\ UNCHANGED <<device, request>>
  BY DEF Revoke, TypeOK
<1>2. keys[m] \in SUBSET Keys /\ agent[m] \in Agents
  BY DEF TypeOK, Agents
<1>3. agent'[m].row = agent[m].row /\ agent'[m].codes = agent[m].codes /\ agent'[m].code = 0
  BY <1>1, <1>2 DEF Agents
<1>4. Len(agent[m].codes) \in Nat
  BY <1>2 DEF Agents
<1>5. Moves(agent[m], agent'[m])
  BY <1>1, <1>3, <1>4 DEF Moves
<1>6. Restates(keys[m], keys'[m])
  BY <1>1, <1>2, RevokedRestates
<1> QED
  BY <1>1, <1>5, <1>6, RowStep

LEMMA RevokeProfileAttempts ==
  ASSUME TypeOK, TypeOK', AttemptsInv, RevokeProfile
  PROVE  AttemptsInv'
<1>1. /\ UNCHANGED <<device, request>>
      /\ agent' = [m \in Machines |->
                     IF m \in Enrolled THEN [agent[m] EXCEPT !.enabled = FALSE] ELSE agent[m]]
      /\ keys' = [m \in Machines |-> IF m \in Enrolled THEN Revoked(keys[m]) ELSE keys[m]]
  BY DEF RevokeProfile, SetProfile
<1>2. ASSUME NEW m \in Machines
      PROVE  Restates(keys[m], keys'[m]) /\ Moves(agent[m], agent'[m])
  <2>1. keys[m] \in SUBSET Keys /\ agent[m] \in Agents
    BY DEF TypeOK, Agents
  <2>2. CASE m \notin Enrolled
    BY <2>2, <1>1, SameRows
  <2>3. CASE m \in Enrolled
    <3>1. keys'[m] = Revoked(keys[m]) /\ agent'[m] = [agent[m] EXCEPT !.enabled = FALSE]
      BY <2>3, <1>1
    <3>2. /\ agent'[m].row = agent[m].row /\ agent'[m].codes = agent[m].codes
          /\ agent'[m].code = agent[m].code
      BY <2>1, <3>1 DEF Agents
    <3>3. Moves(agent[m], agent'[m])
      BY <3>2, SameRows DEF Moves
    <3> QED
      BY <2>1, <3>1, <3>3, RevokedRestates
  <2> QED
    BY <2>2, <2>3
<1> QED
  BY <1>1, <1>2, RowsStep

LEMMA TimeAttempts ==
  ASSUME TypeOK, TypeOK', AttemptsInv, NEW m \in Machines, Time(m)
  PROVE  AttemptsInv'
<1>0. agent[m] \in Agents /\ keys[m] \in SUBSET Keys
  BY DEF TypeOK, Agents
<1>1. CASE CodeExpires(m) \/ AgentExpires(m)
  <2>1. /\ agent'[m].row = agent[m].row /\ agent'[m].codes = agent[m].codes
        /\ agent'[m].code = agent[m].code
        /\ \A n \in Machines : n # m => agent'[n] = agent[n]
        /\ UNCHANGED <<keys, device, request>>
    BY <1>0, <1>1 DEF CodeExpires, AgentExpires, TypeOK, Agents
  <2>2. Moves(agent[m], agent'[m]) /\ Restates(keys[m], keys'[m])
    BY <2>1, SameRows DEF Moves
  <2> QED
    BY <2>1, <2>2, RowStep
<1>2. CASE GraceEnds(m)
  <2> DEFINE after(k) == [k EXCEPT !.state = IF @ = "retired" THEN "lapsed" ELSE @]
  <2>1. \A k \in keys[m] :
          /\ after(k).state = "active" => k.state = "active"
          /\ after(k).pub = k.pub /\ after(k).credential = k.credential /\ after(k).prev = k.prev
    BY <1>0 DEF Keys
  <2>2. keys'[m] = {after(k) : k \in keys[m]}
    BY <1>2 DEF GraceEnds, TypeOK
  <2>3. /\ \A n \in Machines : n # m => keys'[n] = keys[n]
        /\ UNCHANGED <<agent, device, request>>
    BY <1>2 DEF GraceEnds, TypeOK
  <2> HIDE DEF after
  <2>4. Moves(agent[m], agent'[m])
    BY <2>3, SameRows
  <2>5. Restates(keys[m], keys'[m])
    BY <2>1, <2>2 DEF Restates
  <2> QED
    BY <2>3, <2>4, <2>5, RowStep
<1> QED
  BY <1>1, <1>2 DEF Time

LEMMA ResetAttempts ==
  ASSUME TypeOK, TypeOK', AttemptsInv, CommitReset
  PROVE  AttemptsInv'
<1>1. UNCHANGED <<agent, device, request>>
  BY DEF CommitReset
<1>2. ASSUME NEW m \in Machines
      PROVE  Restates(keys[m], keys'[m]) /\ Moves(agent[m], agent'[m])
  <2> DEFINE after(k) == IF [machine |-> m, pub |-> k.pub] \in reset.doomed
                         THEN [k EXCEPT !.state = "revoked"] ELSE k
  <2>1. \A k \in keys[m] :
          /\ after(k).state = "active" => k.state = "active"
          /\ after(k).pub = k.pub /\ after(k).credential = k.credential /\ after(k).prev = k.prev
    BY DEF Keys, TypeOK
  <2>2. keys'[m] = {after(k) : k \in keys[m]}
    BY DEF CommitReset
  <2> HIDE DEF after
  <2>3. Restates(keys[m], keys'[m])
    BY <2>1, <2>2 DEF Restates
  <2> QED
    BY <1>1, <2>3, SameRows
<1> QED
  BY <1>1, <1>2, RowsStep

LEMMA EndAttempts ==
  ASSUME TypeOK, TypeOK', AttemptsInv, NEW s \in Slots, Lost(s) \/ Refuse(s) \/ Admit(s)
  PROVE  AttemptsInv'
<1>1. CASE Lost(s) \/ Refuse(s)
  <2>1. /\ request'[s] = Free /\ \A t \in Slots : t # s => request'[t] = request[t]
        /\ UNCHANGED <<device, agent, keys>>
    BY <1>1 DEF Lost, Refuse, TypeOK
  <2> QED
    BY <2>1, SlotsStep
<1>2. CASE Admit(s)
  <2>1. request[s].state = "sent"
    BY <1>2 DEF Admit
  <2>2. [request[s] EXCEPT !.state = "admitted"]
          = [state |-> "admitted", machine |-> request[s].machine,
             attempt |-> request[s].attempt]
    BY <2>1, SentRequest
  <2>3. /\ request'[s] = [request[s] EXCEPT !.state = "admitted"]
        /\ \A t \in Slots : t # s => request'[t] = request[t]
        /\ UNCHANGED <<device, agent, keys>>
    BY <1>2 DEF Admit, TypeOK
  <2> QED
    BY <2>1, <2>2, <2>3, SlotsStep
<1> QED
  BY <1>1, <1>2

LEMMA NextAttempts == KeysInv /\ TypeOK' /\ AttemptsInv /\ [Next]_vars => AttemptsInv'
<1> SUFFICES ASSUME KeysInv, TypeOK', AttemptsInv, [Next]_vars PROVE AttemptsInv'
  OBVIOUS
<1>0. TypeOK
  BY DEF KeysInv
<1>1. CASE \E m \in Machines : Machine(m) \/ Administrator(m) \/ Time(m)
  BY <1>0, <1>1, MachineAttempts, CodeAttempts, RevokeAttempts, TimeAttempts DEF Administrator
<1>2. CASE \E s \in Slots : Server(s)
  BY <1>0, <1>2, GrantedAttempt, EndAttempts, DecideAttempt, CommitAttempt DEF Server
<1>3. CASE Administration
  <2>1. CASE UNCHANGED <<agent, keys, device, request>>
    BY <1>0, <2>1, RowsStep, SameRows
  <2>2. CASE RotateBootstrapKey \/ Pause \/ Resume \/ LockProfiles \/ LockAgents \/ RevokeKeys
    BY <2>1, <2>2 DEF RotateBootstrapKey, Pause, Resume, SetProfile, LockProfiles, LockAgents,
                      RevokeKeys
  <2> QED
    BY <1>0, <1>3, <2>2, RevokeProfileAttempts, ResetAttempts DEF Administration
<1>4. CASE UNCHANGED vars
  BY <1>0, <1>4, RowsStep, SameRows DEF vars
<1> QED
  BY <1>1, <1>2, <1>3, <1>4 DEF Next

(* A request that may yet have a key bound asks for the key its machine    *)
(* has saved, and a key stands for one attempt wherever it is found.       *)
THEOREM AttemptsInvariant == Spec => []AttemptsInv
<1>1. KeysInv => TypeOK
  BY DEF KeysInv
<1> QED
  BY <1>1, InitAttempts, NextAttempts, Invariant, PTL DEF Spec

(* However requests are lost, late or repeated, the active key is one that *)
(* its machine holds or asks for.                                          *)
THEOREM ActiveKeysAreHeld == Spec => []ActiveKeyIsTheMachines
<1>1. AttemptsInv => ActiveKeyIsTheMachines
  BY DEF AttemptsInv
<1> QED
  BY <1>1, AttemptsInvariant, PTL

(* A machine that asks again, with the key it has saved, for an answer     *)
(* that was lost is granted it.                                            *)
THEOREM LostAnswersAreGivenAgain == Spec => []AnswerNotLostForGood
<1>1. KeysInv /\ AttemptsInv => AnswerNotLostForGood
  <2> SUFFICES ASSUME KeysInv, AttemptsInv, NEW m \in Machines, NEW at, at = device[m].attempt,
                      at # NoAttempt, \E k \in Active(keys[m]) : k.pub = at.pub, Live(m),
                      at.kind = "profile" =>
                        profile.state = "active" /\ at.with = Newest(profile.keys),
                      at.kind = "renewal" => Signs(m, at.signer, {"active", "retired"}),
                      PinsIdentity(m, at)
               PROVE  Grants(m, at, FALSE)
    BY DEF AnswerNotLostForGood
  <2>1. PICK k \in keys[m] : k.state = "active" /\ k.pub = at.pub
    BY DEF Active
  <2>2. Binds(k, at)
    BY <2>1 DEF AttemptsInv, OneAttempt, Saved
  <2>3. BoundBefore(m, at)
    BY <2>1, <2>2 DEF BoundBefore, Bound, Binds
  <2>4. \A j \in Bound(m, at) : j.prev = at.signer
    <3> SUFFICES ASSUME NEW j \in keys[m], j.credential = Credential(at)
                 PROVE  j.prev = at.signer
      BY DEF Bound
    <3>1. j = k
      BY <2>1, <2>2 DEF KeysInv, KeysOnce, Once, Binds
    <3> QED
      BY <3>1, <2>2 DEF Binds
  <2>5. at \in Attempts
    BY DEF KeysInv, TypeOK
  <2>6. CASE at.kind = "code"
    BY <2>6, <2>3 DEF Grants, CodeGrants, Live
  <2>7. CASE at.kind = "profile"
    BY <2>7, <2>3 DEF Grants, ProfileGrants, Live
  <2>8. CASE at.kind = "renewal"
    BY <2>8, <2>3, <2>4 DEF Grants, RenewalGrants
  <2> QED
    BY <2>5, <2>6, <2>7, <2>8 DEF Attempts
<1> QED
  BY <1>1, Invariant, AttemptsInvariant, PTL
=============================================================================
