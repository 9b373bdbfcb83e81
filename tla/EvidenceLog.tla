----------------------------- MODULE EvidenceLog -----------------------------
(***************************************************************************)
(* What the delivery of an agent's evidence promises, without its          *)
(* requests, retries and locks.  An envelope waits at the agent until KEEN *)
(* has kept it or the agent gives it up; it is kept at most once, a batch  *)
(* as a whole, and what is kept stays kept.  AgentChain implements this    *)
(* specification.                                                          *)
(***************************************************************************)
CONSTANT Envelopes

VARIABLES
  pending,  \* envelopes that wait at the agent
  dropped,  \* envelopes the agent gave up
  kept      \* envelopes KEEN has taken

vars == <<pending, dropped, kept>>

Init ==
  /\ pending = {}
  /\ dropped = {}
  /\ kept = {}

(* The agent gives up some of what waits, and may write an envelope.  One  *)
(* that it wrote is never written again.                                   *)
Agent(written, gone) ==
  /\ written \subseteq Envelopes \ (pending \cup dropped \cup kept)
  /\ gone \subseteq pending
  /\ pending' = (pending \ gone) \cup written
  /\ dropped' = dropped \cup gone
  /\ kept' = kept

(* KEEN keeps a whole batch; what the agent gave up meanwhile may be in it. *)
Keep(batch) ==
  /\ batch \subseteq (pending \cup dropped) \ kept
  /\ kept' = kept \cup batch
  /\ UNCHANGED <<pending, dropped>>

(* What KEEN has kept need not wait any more. *)
Release(batch) ==
  /\ batch \subseteq pending \cap kept
  /\ pending' = pending \ batch
  /\ UNCHANGED <<dropped, kept>>

Next ==
  \E batch, gone \in SUBSET Envelopes :
    Agent(batch, gone) \/ Keep(batch) \/ Release(batch)

SafeSpec == Init /\ [][Next]_vars

(* Nothing waits for ever. *)
Settled == \A e \in Envelopes : e \in pending ~> e \notin pending

Spec == SafeSpec /\ Settled
=============================================================================
