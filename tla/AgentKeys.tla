------------------------------ MODULE AgentKeys ------------------------------
(***************************************************************************)
(* The keys of Keen Agents: registration, enrolment with a code or with a  *)
(* profile's bootstrap key, renewal, revocation, and the reset of KEEN's   *)
(* own identity (app/services/agent_enrollment.py, app/services/agents.py, *)
(* app/agents/credentials.py, reset_identity in app/agents/server_keys.py).*)
(*                                                                         *)
(* A request is admitted on what the database shows it, then locks its     *)
(* rows and decides and binds under them, and then commits; requests can   *)
(* be lost or late at every point.  A change by an administrator locks the *)
(* same rows and is one short transaction, hence one action; a reset is    *)
(* longer and takes its statements one at a time.                          *)
(*                                                                         *)
(* The agent is a program outside this repository.  What it does here is   *)
(* what the API is written for: it saves a key and its credential before   *)
(* it asks, and asks again with the same ones until it has an answer.      *)
(***************************************************************************)
EXTENDS Integers, Sequences, FiniteSets

CONSTANTS
  Registered,  \* machines an administrator registers one by one
  Enrolled,    \* machines that enrol under the profile
  SameName,    \* whether all machines go by one name
  Slots,       \* requests under way at once
  MaxEnrollments,
  KeysOf,      \* bound on the keys each machine makes
  CodesOf,     \* bound on the codes issued to each agent
  MaxBootstraps, \* bound on the bootstrap keys of the profile
  MaxResets    \* bound on resets of KEEN's identity

Machines == Registered \cup Enrolled

ASSUME MachinesAssumption == Registered \cap Enrolled = {}
ASSUME SameNameAssumption == SameName \in BOOLEAN
ASSUME BoundsAssumption ==
  /\ MaxEnrollments \in Nat
  /\ KeysOf \in [Machines -> Nat]
  /\ CodesOf \in [Machines -> Nat]
  /\ MaxBootstraps \in Nat
  /\ MaxResets \in Nat

VARIABLES
  identity,  \* the number of KEEN's identity key
  profile,   \* the row of the enrolment profile
  agent,     \* the rows of keen_agents, a machine's own
  keys,      \* the rows of agent_keys, by machine
  device,    \* what a machine has saved
  request,   \* the request in each slot
  reset      \* the transaction of a reset

vars == <<identity, profile, agent, keys, device, request, reset>>

(* An attempt to have a key bound: with a code or a bootstrap key, by its  *)
(* number, or signed by the machine's current key.                         *)
Attempts == [kind : {"code", "profile", "renewal"}, pub : Nat,
             with : Nat, signer : Nat]
NoAttempt == [kind |-> "none"]

(* The digest a binding is remembered by: a code's, or that of the nonce   *)
(* that was saved with the key.                                            *)
Credential(at) ==
  CASE at.kind = "code" -> [kind |-> "code", n |-> at.with]
    [] at.kind = "profile" -> [kind |-> "profile", n |-> 0]
    [] at.kind = "renewal" -> [kind |-> "renewal", n |-> at.pub]

(* "lapsed" is retired for longer than RENEWAL_GRACE. *)
KeyStates == {"active", "retired", "lapsed", "revoked"}
Keys == [pub : Nat, state : KeyStates, prev : Nat,
         credential : [kind : {"code", "profile", "renewal"}, n : Nat]]
NoKey == [pub |-> 0]

NoAgent == [row |-> FALSE, enabled |-> FALSE, expired |-> FALSE,
            codes |-> <<>>, code |-> 0, fresh |-> FALSE]
NoReset == [phase |-> "none", rows |-> {}, doomed |-> {}]
Free == [state |-> "free"]

Active(ks) == {k \in ks : k.state = "active"}
Usable(ks) == {k \in ks : k.state # "revoked"}
Bound(m, at) == {k \in keys[m] : k.credential = Credential(at)}
InProfile == {m \in Enrolled : agent[m].row}

Requests ==
  {Free}
    \cup [state : {"sent", "admitted", "answered"}, machine : Machines, attempt : Attempts]
    \cup [state : {"open"}, machine : Machines, attempt : Attempts, new : BOOLEAN,
          key : Keys \cup {NoKey}]

TypeOK ==
  /\ identity \in Nat
  /\ profile \in [state : {"active", "paused", "revoked"}, keys : Seq(Nat), count : Nat]
  /\ agent \in [Machines -> [row : BOOLEAN, enabled : BOOLEAN, expired : BOOLEAN,
                            codes : Seq(Nat), code : Nat, fresh : BOOLEAN]]
  /\ keys \in [Machines -> SUBSET Keys]
  /\ device \in [Machines -> [current : Nat, attempt : Attempts \cup {NoAttempt}, made : Nat]]
  /\ request \in [Slots -> Requests]
  /\ reset \in [phase : {"none", "profiles", "agents", "revoked"},
                rows : SUBSET Machines, doomed : SUBSET [machine : Machines, pub : Nat]]

Init ==
  /\ identity = 0
  /\ profile = [state |-> "active", keys |-> <<0>>, count |-> 0]
  /\ agent = [m \in Machines |-> NoAgent]
  /\ keys = [m \in Machines |-> {}]
  /\ device = [m \in Machines |-> [current |-> 0, attempt |-> NoAttempt, made |-> 0]]
  /\ request = [s \in Slots |-> Free]
  /\ reset = NoReset
-----------------------------------------------------------------------------
(* Row locks.  Requests that are open hold them, and so does a reset. *)

Open(s) == request[s].state = "open"
Opens(s, m, kind) == Open(s) /\ request[s].machine = m /\ request[s].attempt.kind = kind

AgentHeld(m) ==
  \/ \E s \in Slots : Open(s) /\ request[s].machine = m
  \/ m \in reset.rows

ProfileHeld ==
  \/ \E s \in Slots : Open(s) /\ request[s].attempt.kind = "profile"
  \/ reset.phase # "none"

ProfileShared ==
  \E s \in Slots, m \in Enrolled : Opens(s, m, "renewal")

(* The rows an attempt of m locks: a renewal shares the profile's. *)
LocksFree(m, at) ==
  /\ ~ AgentHeld(m)
  /\ at.kind = "renewal" /\ m \in Enrolled => ~ ProfileHeld
  /\ at.kind = "profile" => ~ ProfileHeld /\ ~ ProfileShared
-----------------------------------------------------------------------------
(* The machine. *)

Start(m, at) ==
  /\ device[m].made < KeysOf[m]
  /\ device' = [device EXCEPT ![m] =
                  [current |-> @.current, attempt |-> at, made |-> @.made + 1]]
  /\ UNCHANGED <<identity, profile, agent, keys, request, reset>>

NewKey(m) == device[m].made + 1
Newest(issued) == Len(issued)

(* A code is used once the agent has seen the identity it ends with. *)
StartWithCode(m) ==
  /\ agent[m].codes # <<>>
  /\ agent[m].codes[Newest(agent[m].codes)] = identity
  /\ ~ (device[m].attempt.kind = "code" /\ device[m].attempt.with = Newest(agent[m].codes))
  /\ Start(m, [kind |-> "code", pub |-> NewKey(m),
               with |-> Newest(agent[m].codes), signer |-> 0])

StartWithProfile(m) ==
  /\ m \in Enrolled
  /\ device[m].made = 0
  /\ profile.keys[Newest(profile.keys)] = identity
  /\ Start(m, [kind |-> "profile", pub |-> NewKey(m),
               with |-> Newest(profile.keys), signer |-> 0])

(* The machine is given the profile's new bootstrap key; it keeps the key  *)
(* and the nonce it has saved.                                             *)
TakeBootstrapKey(m) ==
  /\ device[m].attempt.kind = "profile"
  /\ device[m].attempt.with # Newest(profile.keys)
  /\ profile.keys[Newest(profile.keys)] = identity
  /\ device' = [device EXCEPT ![m].attempt.with = Newest(profile.keys)]
  /\ UNCHANGED <<identity, profile, agent, keys, request, reset>>

StartRenewal(m) ==
  /\ device[m].current # 0
  /\ device[m].attempt = NoAttempt
  /\ Start(m, [kind |-> "renewal", pub |-> NewKey(m), with |-> 0,
               signer |-> device[m].current])

Send(s, m) ==
  /\ request[s] = Free
  /\ device[m].attempt # NoAttempt
  /\ request' = [request EXCEPT ![s] =
                   [state |-> "sent", machine |-> m, attempt |-> device[m].attempt]]
  /\ UNCHANGED <<identity, profile, agent, keys, device, reset>>

(* The grant arrives, if the machine still waits for it. *)
Granted(s) ==
  /\ request[s].state = "answered"
  /\ LET m == request[s].machine IN
     device' = IF device[m].attempt = request[s].attempt
               THEN [device EXCEPT ![m] = [current |-> request[s].attempt.pub,
                                           attempt |-> NoAttempt, made |-> @.made]]
               ELSE device
  /\ request' = [request EXCEPT ![s] = Free]
  /\ UNCHANGED <<identity, profile, agent, keys, reset>>

(* A request or its answer is lost, or its handler stops; a transaction    *)
(* that is open is rolled back.                                            *)
Lost(s) ==
  /\ request[s] # Free
  /\ request' = [request EXCEPT ![s] = Free]
  /\ UNCHANGED <<identity, profile, agent, keys, device, reset>>
-----------------------------------------------------------------------------
(* Enrolment and renewal. *)

(* The identity whose fingerprint ends the credential. *)
Pinned(m, at) ==
  IF at.kind = "code" THEN agent[m].codes[at.with] ELSE profile.keys[at.with]

PinsIdentity(m, at) == at.kind # "renewal" => Pinned(m, at) = identity

(* locked_agent: what every request of an agent needs. *)
Live(m) ==
  /\ agent[m].row
  /\ m \in Enrolled => profile.state # "revoked"
  /\ agent[m].enabled
  /\ ~ agent[m].expired

(* signing_key with the grace of a renewal. *)
Signs(m, pub, states) == \E k \in keys[m] : k.pub = pub /\ k.state \in states

(* The checks made without locks. *)
HoldsCredential(m, at) ==
  CASE at.kind = "code" -> agent[m].code = at.with \/ Bound(m, at) # {}
    [] at.kind = "profile" -> at.with = Newest(profile.keys)
    [] at.kind = "renewal" -> Live(m) /\ Signs(m, at.signer, {"active", "retired"})

(* previous_binding: the binding the attempt has made before ... *)
BoundBefore(m, at) ==
  \E k \in Bound(m, at) : k.state = "active" /\ k.pub = at.pub

(* ... or a new one, made by bind. *)
MayBind(m, at) == Bound(m, at) = {} /\ \A k \in keys[m] : k.pub # at.pub

NameHeldOutside ==
  SameName /\ \E m \in Registered :
    agent[m].row /\ agent[m].enabled /\ ~ agent[m].expired

(* Mutant: a used code is not recognised. *)
CodeGrantsOnce(m, at, new) ==
  /\ agent[m].row
  /\ agent[m].enabled
  /\ agent[m].code = at.with
  /\ IF new THEN agent[m].fresh /\ m \notin Enrolled /\ MayBind(m, at) ELSE BoundBefore(m, at)

(* Whether an attempt is granted, and with a new binding or the one made   *)
(* before.                                                                 *)
CodeGrants(m, at, new) ==
  /\ agent[m].row
  /\ agent[m].enabled
  /\ IF new
     THEN /\ agent[m].code = at.with
          /\ agent[m].fresh
          /\ m \notin Enrolled
          /\ MayBind(m, at)
     ELSE BoundBefore(m, at)

(* Mutant: the machine is not looked for among the profile's agents. *)
ProfileGrantsEach(m, at, new) ==
  /\ profile.state = "active"
  /\ at.with = Newest(profile.keys)
  /\ new /\ profile.count < MaxEnrollments /\ ~ NameHeldOutside

ProfileGrants(m, at, new) ==
  /\ profile.state = "active"
  /\ at.with = Newest(profile.keys)
  /\ IF agent[m].row
     THEN ~ new /\ agent[m].enabled /\ ~ agent[m].expired /\ BoundBefore(m, at)
     ELSE new /\ profile.count < MaxEnrollments /\ ~ NameHeldOutside

RenewalGrants(m, at, new) ==
  /\ Live(m)
  /\ IF new
     THEN Signs(m, at.signer, {"active"}) /\ MayBind(m, at)
     ELSE /\ Signs(m, at.signer, {"active", "retired"})
          /\ BoundBefore(m, at)
          /\ \A k \in Bound(m, at) : k.prev = at.signer

Grants(m, at, new) ==
  /\ CASE at.kind = "code" -> CodeGrants(m, at, new)
       [] at.kind = "profile" -> ProfileGrants(m, at, new)
       [] at.kind = "renewal" -> RenewalGrants(m, at, new)
  /\ PinsIdentity(m, at)

(* The request is admitted on what it reads without locks ... *)
Admit(s) ==
  LET m == request[s].machine
      at == request[s].attempt IN
  /\ request[s].state = "sent"
  /\ PinsIdentity(m, at)
  /\ HoldsCredential(m, at)
  /\ request' = [request EXCEPT ![s].state = "admitted"]
  /\ UNCHANGED <<identity, profile, agent, keys, device, reset>>

(* ... decides again under its locks, and binds ... *)
Decide(s) ==
  LET m == request[s].machine
      at == request[s].attempt IN
  /\ request[s].state = "admitted"
  /\ LocksFree(m, at)
  /\ \E new \in BOOLEAN :
       /\ Grants(m, at, new)
       /\ request' = [request EXCEPT ![s] =
            [state |-> "open", machine |-> m, attempt |-> at, new |-> new,
             key |-> IF new THEN [pub |-> at.pub, state |-> "active", prev |-> at.signer,
                                  credential |-> Credential(at)]
                     ELSE NoKey]]
  /\ UNCHANGED <<identity, profile, agent, keys, device, reset>>

(* ... or is refused, as busy or for good. *)
Refuse(s) ==
  LET m == request[s].machine
      at == request[s].attempt IN
  /\ \/ /\ request[s].state = "sent"
        /\ ~ (PinsIdentity(m, at) /\ HoldsCredential(m, at))
     \/ /\ request[s].state = "admitted"
        /\ ~ LocksFree(m, at) \/ \A new \in BOOLEAN : ~ Grants(m, at, new)
  /\ request' = [request EXCEPT ![s] = Free]
  /\ UNCHANGED <<identity, profile, agent, keys, device, reset>>

(* Mutant: the key before stays active. *)
WithKeyBeside(ks, key) == ks \cup {key}

(* bind makes the new key the agent's only active one. *)
WithKey(ks, key) ==
  {[k EXCEPT !.state = IF @ = "active" THEN "retired" ELSE @] : k \in ks} \cup {key}

(* The row of the agent after a binding; a profile's agent is made by it. *)
AfterBinding(m, at) ==
  CASE at.kind = "code" -> [agent[m] EXCEPT !.code = 0, !.fresh = FALSE, !.expired = FALSE]
    [] at.kind = "profile" -> [NoAgent EXCEPT !.row = TRUE, !.enabled = TRUE]
    [] at.kind = "renewal" -> [agent[m] EXCEPT !.expired = FALSE]

(* bind updates key rows, so it waits for a reset that has revoked them. *)
Commit(s) ==
  LET r == request[s]
      m == r.machine IN
  /\ Open(s)
  /\ IF r.new
     THEN /\ ~ \E d \in reset.doomed : d.machine = m
          /\ keys' = [keys EXCEPT ![m] = WithKey(@, r.key)]
          /\ agent' = [agent EXCEPT ![m] = AfterBinding(m, r.attempt)]
          /\ profile' = [profile EXCEPT !.count = IF r.attempt.kind = "profile"
                                                  THEN @ + 1 ELSE @]
     ELSE UNCHANGED <<keys, agent, profile>>
  /\ request' = [request EXCEPT ![s] =
                   [state |-> "answered", machine |-> m, attempt |-> r.attempt]]
  /\ UNCHANGED <<identity, device, reset>>
-----------------------------------------------------------------------------
(* Administrators. *)

WithCode(a) ==
  [a EXCEPT !.codes = Append(@, identity), !.code = Len(a.codes) + 1,
            !.fresh = TRUE, !.expired = FALSE]

(* Mutant: the name is not locked. *)
RegisterUnlocked(m) ==
  /\ m \in Registered
  /\ ~ agent[m].row
  /\ agent' = [agent EXCEPT ![m] =
                 WithCode([NoAgent EXCEPT !.row = TRUE, !.enabled = TRUE])]
  /\ UNCHANGED <<identity, profile, keys, device, request, reset>>

(* register, under the lock on the name that profile enrolments take. *)
Register(m) ==
  /\ m \in Registered
  /\ ~ agent[m].row
  /\ SameName =>
       ~ \E s \in Slots : Open(s) /\ request[s].attempt.kind = "profile" /\ request[s].new
  /\ agent' = [agent EXCEPT ![m] =
                 WithCode([NoAgent EXCEPT !.row = TRUE, !.enabled = TRUE])]
  /\ UNCHANGED <<identity, profile, keys, device, request, reset>>

(* rotate *)
IssueCode(m) ==
  /\ agent[m].row
  /\ agent[m].enabled
  /\ ~ AgentHeld(m)
  /\ Len(agent[m].codes) < CodesOf[m]
  /\ agent' = [agent EXCEPT ![m] = WithCode(@)]
  /\ UNCHANGED <<identity, profile, keys, device, request, reset>>

Revoked(ks) == {[k EXCEPT !.state = "revoked"] : k \in ks}

(* Mutant: the agent is read without its lock. *)
RevokeUnlocked(m) ==
  /\ agent[m].row
  /\ agent[m].enabled
  /\ agent' = [agent EXCEPT ![m] =
                 [@ EXCEPT !.enabled = FALSE, !.code = 0, !.fresh = FALSE]]
  /\ keys' = [keys EXCEPT ![m] = Revoked(@)]
  /\ UNCHANGED <<identity, profile, device, request, reset>>

Revoke(m) ==
  /\ agent[m].row
  /\ agent[m].enabled
  /\ ~ AgentHeld(m)
  /\ ~ \E d \in reset.doomed : d.machine = m
  /\ agent' = [agent EXCEPT ![m] =
                 [@ EXCEPT !.enabled = FALSE, !.code = 0, !.fresh = FALSE]]
  /\ keys' = [keys EXCEPT ![m] = Revoked(@)]
  /\ UNCHANGED <<identity, profile, device, request, reset>>

(* manage *)
SetProfile(p) ==
  /\ profile.state # "revoked"
  /\ ~ ProfileHeld
  /\ ~ ProfileShared
  /\ profile' = p
  /\ UNCHANGED <<identity, device, request, reset>>

RotateBootstrapKey ==
  /\ Len(profile.keys) < MaxBootstraps
  /\ SetProfile([profile EXCEPT !.keys = Append(@, identity)])
  /\ UNCHANGED <<agent, keys>>

Pause == SetProfile([profile EXCEPT !.state = "paused"]) /\ UNCHANGED <<agent, keys>>
Resume == SetProfile([profile EXCEPT !.state = "active"]) /\ UNCHANGED <<agent, keys>>

RevokeProfile ==
  /\ SetProfile([profile EXCEPT !.state = "revoked"])
  /\ agent' = [m \in Machines |->
                 IF m \in Enrolled THEN [agent[m] EXCEPT !.enabled = FALSE] ELSE agent[m]]
  /\ keys' = [m \in Machines |-> IF m \in Enrolled THEN Revoked(keys[m]) ELSE keys[m]]

(* reset_identity: lock the profiles, then the agents there are, revoke    *)
(* what is committed, and commit with a new identity.                      *)
LockProfiles ==
  /\ reset.phase = "none"
  /\ identity < MaxResets
  /\ ~ ProfileHeld
  /\ ~ ProfileShared
  /\ reset' = [reset EXCEPT !.phase = "profiles"]
  /\ UNCHANGED <<identity, profile, agent, keys, device, request>>

(* Mutant: the agents' rows are read, not locked. *)
LockNoAgents ==
  /\ reset.phase = "profiles"
  /\ reset' = [reset EXCEPT !.phase = "agents", !.rows = {m \in Machines : agent[m].row}]
  /\ UNCHANGED <<identity, profile, agent, keys, device, request>>

LockAgents ==
  LET rows == {m \in Machines : agent[m].row} IN
  /\ reset.phase = "profiles"
  /\ \A m \in rows : ~ AgentHeld(m)
  /\ reset' = [reset EXCEPT !.phase = "agents", !.rows = rows]
  /\ UNCHANGED <<identity, profile, agent, keys, device, request>>

RevokeKeys ==
  /\ reset.phase = "agents"
  /\ reset' = [reset EXCEPT
       !.phase = "revoked",
       !.doomed = UNION {[machine : {m}, pub : {k.pub : k \in Usable(keys[m])}] : m \in Machines}]
  /\ UNCHANGED <<identity, profile, agent, keys, device, request>>

CommitReset ==
  /\ reset.phase = "revoked"
  /\ keys' = [m \in Machines |->
                {IF [machine |-> m, pub |-> k.pub] \in reset.doomed
                 THEN [k EXCEPT !.state = "revoked"] ELSE k : k \in keys[m]}]
  /\ identity' = identity + 1
  /\ reset' = NoReset
  /\ UNCHANGED <<profile, agent, device, request>>
-----------------------------------------------------------------------------
(* Time. *)

CodeExpires(m) ==
  /\ agent[m].fresh
  /\ agent' = [agent EXCEPT ![m].fresh = FALSE]
  /\ UNCHANGED <<identity, profile, keys, device, request, reset>>

(* An agent outlives its code: issue_code sees to it. *)
AgentExpires(m) ==
  /\ agent[m].row
  /\ ~ agent[m].expired
  /\ ~ agent[m].fresh
  /\ agent' = [agent EXCEPT ![m].expired = TRUE]
  /\ UNCHANGED <<identity, profile, keys, device, request, reset>>

(* RENEWAL_GRACE has passed since the machine's keys were retired. *)
GraceEnds(m) ==
  /\ \E k \in keys[m] : k.state = "retired"
  /\ ~ \E d \in reset.doomed : d.machine = m
  /\ keys' = [keys EXCEPT ![m] =
                {[k EXCEPT !.state = IF @ = "retired" THEN "lapsed" ELSE @] : k \in @}]
  /\ UNCHANGED <<identity, profile, agent, device, request, reset>>

Machine(m) ==
  \/ StartWithCode(m) \/ StartWithProfile(m) \/ TakeBootstrapKey(m) \/ StartRenewal(m)
  \/ \E s \in Slots : Send(s, m)

Server(s) == Granted(s) \/ Lost(s) \/ Admit(s) \/ Decide(s) \/ Refuse(s) \/ Commit(s)

Administrator(m) == Register(m) \/ IssueCode(m) \/ Revoke(m)

Administration ==
  RotateBootstrapKey \/ Pause \/ Resume \/ RevokeProfile
  \/ LockProfiles \/ LockAgents \/ RevokeKeys \/ CommitReset

Time(m) == CodeExpires(m) \/ AgentExpires(m) \/ GraceEnds(m)

Next ==
  \/ \E m \in Machines : Machine(m) \/ Administrator(m) \/ Time(m)
  \/ \E s \in Slots : Server(s)
  \/ Administration

Spec == Init /\ [][Next]_vars
-----------------------------------------------------------------------------
(* Properties. *)

(* However often a machine repeats its request, and whatever enrolments    *)
(* and renewals of it run at once, it is bound once: an agent has one      *)
(* active key, a key keeps the credential that bound it to itself, and a   *)
(* profile counts each of its machines once.                               *)
BoundOnce ==
  /\ \A m \in Machines :
       /\ Cardinality(Active(keys[m])) <= 1
       /\ \A j, k \in keys[m] : j.credential = k.credential \/ j.pub = k.pub => j = k
  /\ profile.count = Cardinality(InProfile)

(* Once an agent or its profile is revoked no key of it can be used, and   *)
(* no request that was under way binds another.                            *)
RevokedForGood ==
  \A m \in Machines :
    agent[m].row /\ (~ agent[m].enabled \/ (m \in Enrolled /\ profile.state = "revoked"))
      => Usable(keys[m]) = {}

(* KEEN never makes a key active that its machine does not hold: the       *)
(* active key is the machine's current one, or the one it asks for.  A     *)
(* machine that was given a new code has let go of what it asked for.      *)
ActiveKeyIsTheMachines ==
  \A m \in Machines : \A k \in Active(keys[m]) :
    \/ k.pub = device[m].current
    \/ device[m].attempt.kind \in {"code"}
    \/ device[m].attempt # NoAttempt /\ k.pub = device[m].attempt.pub

(* A machine whose key was bound, but whose answer was lost, gets its      *)
(* grant by asking again, while nobody has paused or changed what it       *)
(* depends on and, for a renewal, for 24 hours.                            *)
AnswerNotLostForGood ==
  \A m \in Machines :
    LET at == device[m].attempt IN
    /\ at # NoAttempt
    /\ \E k \in Active(keys[m]) : k.pub = at.pub
    /\ Live(m)
    /\ at.kind = "profile" =>
         profile.state = "active" /\ at.with = Newest(profile.keys)
    /\ at.kind = "renewal" => Signs(m, at.signer, {"active", "retired"})
    /\ PinsIdentity(m, at)
    => Grants(m, at, FALSE)

(* A reset leaves no agent that was registered when it began with a key of *)
(* before, renewals and enrolments that were under way included.           *)
ResetEndsKeys ==
  [][CommitReset =>
       \A m \in reset.rows : Usable(keys'[m]) = {}]_vars

(* A profile's machine takes no name of an agent that waits to enrol with  *)
(* the code it was registered with, however the two requests run together. *)
NameNotTaken ==
  [][\A s \in Slots :
       Commit(s) /\ request[s].attempt.kind = "profile" /\ request[s].new /\ SameName
         => \A m \in Registered : ~ (agent[m].code = 1 /\ agent[m].fresh)]_vars
=============================================================================
