-------------------------------- MODULE Wire --------------------------------
(***************************************************************************)
(* The agent channel: the socket a hub and an enrolled agent share, as     *)
(* src/lib/hub.js (/ws/agent) and src/lib/agent.js (connect) drive it.     *)
(*                                                                         *)
(* A node has at most one registered connection: /ws/agent answers 409     *)
(* while fabric.peers holds the node, and the agent opens a socket only    *)
(* after the previous one closed.  The two ends notice a loss separately:  *)
(* peers[n] is the hub's view and conn[n] the agent's.                     *)
(*                                                                         *)
(* A channel is the set of messages sent and not yet handled.  A set       *)
(* forgets the order of a WebSocket and merges equal copies; the agent     *)
(* repeats receipts every three seconds anyway, so every order and every   *)
(* repetition of the code is among those of the model.                     *)
(***************************************************************************)
EXTENDS Naturals

CONSTANTS
  Node,             \* enrolled agents: the ids of the grants
  RetentionLimit,   \* jobs the hub keeps (1000 in fabric.js)
  Result,           \* what an executor can return
  NoResult          \* no result, or the fixed text of an uncertain one

ASSUME RetentionAssumption == RetentionLimit \in Nat \ {0}
ASSUME ResultAssumption    == NoResult \notin Result

VARIABLES
  peers,      \* fabric.peers: none, live, or closed with its disconnect queued
  conn,       \* the agent's WebSocket: closed, opening (no welcome yet), ready
  toHub,      \* receipts an agent sent that fabric.receipt has not handled
  toAgent     \* execute and receipt.ack messages the agent has not handled

wireVars == <<peers, conn, toHub, toAgent>>

Job == 1 .. RetentionLimit

(***************************************************************************)
(* Messages.  A lease is the random id of one assignment of a job: only    *)
(* its being fresh matters, so it counts the assignments of that job.      *)
(***************************************************************************)
Lease == Nat

ReceiptState == {"SUCCEEDED", "FAILED", "UNKNOWN"}

Receipt == [job : Job, lease : Lease, state : ReceiptState,
            result : Result \cup {NoResult}]

AgentMsg == [type : {"execute", "ack"}, job : Job, lease : Lease]

WireTypeOK ==
  /\ peers   \in [Node -> {"none", "live", "closed"}]
  /\ conn    \in [Node -> {"closed", "opening", "ready"}]
  /\ toHub   \in [Node -> SUBSET Receipt]
  /\ toAgent \in [Node -> SUBSET AgentMsg]

WireInit ==
  /\ peers   = [n \in Node |-> "none"]
  /\ conn    = [n \in Node |-> "closed"]
  /\ toHub   = [n \in Node |-> {}]
  /\ toAgent = [n \in Node |-> {}]

-----------------------------------------------------------------------------
(* What reaches the other end: a frame written to a socket the other side *)
(* has already left is lost.                                              *)

Delivered(sent, n, msgs) ==
  IF conn[n] = "closed" THEN sent ELSE [sent EXCEPT ![n] = @ \cup msgs]

Uploaded(sent, n, msgs) ==
  IF peers[n] = "live" /\ conn[n] # "closed"
  THEN [sent EXCEPT ![n] = @ \cup msgs]
  ELSE sent

-----------------------------------------------------------------------------

(* The upgrade is admitted, the first message is a register the grant      *)
(* allows, fabric.register stores the peer and the welcome goes out.  It   *)
(* runs between the serialized operations, at any time.                    *)
Register(n) ==
  /\ conn[n] = "closed"
  /\ peers[n] = "none"
  /\ peers' = [peers EXCEPT ![n] = "live"]
  /\ conn' = [conn EXCEPT ![n] = "opening"]
  /\ UNCHANGED <<toHub, toAgent>>

(* The hub's end of the socket closes: a network error, silence past the   *)
(* limit, a changed or revoked grant, too many messages.                   *)
HubSocketClosed(n) ==
  /\ peers[n] = "live"
  /\ peers' = [peers EXCEPT ![n] = "closed"]
  /\ UNCHANGED <<conn, toHub, toAgent>>

(* A receipt that had not arrived when the hub's end closed is lost; those *)
(* that had are queued in serial(), ahead of the disconnect.               *)
FrameLost(n) ==
  /\ peers[n] = "closed"
  /\ \E r \in toHub[n] : toHub' = [toHub EXCEPT ![n] = @ \ {r}]
  /\ UNCHANGED <<peers, conn, toAgent>>

(* The agent's end of the socket closes. *)
AgentSocketClosed(n) ==
  /\ conn[n] # "closed"
  /\ conn' = [conn EXCEPT ![n] = "closed"]
  /\ toAgent' = [toAgent EXCEPT ![n] = {}]
  /\ UNCHANGED <<peers, toHub>>

=============================================================================
