---------------------------- MODULE HubAgentLive ----------------------------
(***************************************************************************)
(* The job path when faults stop: HubAgent.tla with the fairness the code  *)
(* has, and what is promised when from some step on nothing breaks, of     *)
(* however many faults there were before.                                  *)
(*                                                                         *)
(* Weak fairness: the hub's and the agent's timers fire, a socket whose    *)
(* other end is gone is closed (fifteen seconds of silence at the hub, a   *)
(* failing write at the agent), the reconnect timer opens a new one, a     *)
(* message on an open socket arrives, an executor or a placement settles   *)
(* (both adapters are killed after ten seconds).  Strong fairness for      *)
(* receipts, disconnects and the tick that finds every deadline passed:    *)
(* serial() is a queue, so each has its turn although the turn is often    *)
(* another's.                                                              *)
(***************************************************************************)
EXTENDS HubAgent

Placing == (NotPlaced \/ \E n \in Node : Place(n) \/ PlaceUnsent(n)) /\ UNCHANGED agentVars

HubFairness(n) ==
  /\ SF_allVars(Disconnect(n) /\ UNCHANGED agentVars)
  /\ \A j \in Job :
       SF_allVars((\E r \in toHub[n] : r.job = j /\ TakeReceipt(n, r)) /\ UNCHANGED agentVars)

AgentFairness(n) ==
  /\ WF_allVars(Connect(n))
  /\ WF_allVars(NoticesLoss(n))
  /\ WF_allVars(Welcome(n) /\ UNCHANGED fabricVars)
  /\ WF_allVars(Resend(n) /\ UNCHANGED fabricVars)
  /\ WF_allVars((\E m \in toAgent[n] : OnAck(n, m)) /\ UNCHANGED fabricVars)
  /\ WF_allVars((\E m \in toAgent[n] : OnExecute(n, m) \/ OnRefuse(n, m)) /\ UNCHANGED fabricVars)
  /\ WF_allVars((\E o \in Outcomes : Finish(n, o)) /\ UNCHANGED fabricVars)

LiveSpec ==
  /\ Spec
  /\ WF_allVars(Placing)
  /\ SF_allVars(AssignedJobs # {} /\ Tick(AssignedJobs) /\ UNCHANGED agentVars)
  /\ \A n \in Node : HubFairness(n) /\ AgentFairness(n)

-----------------------------------------------------------------------------

(* From some step on nothing breaks. *)
FaultsStop == <>[][Step]_allVars

(* "If an agent has a durable result, reconnect replays it until           *)
(* acknowledged": a result saved by an agent that stays up reaches the hub *)
(* and is acknowledged, after any broken connection, hub restart, refused  *)
(* journal write and rejected receipt there were.                          *)
ResultIsDelivered ==
  FaultsStop => \A n \in Node, j \in Job :
    (alive[n] = "up" /\ j \in Unacked(disk[n])) ~>
      (j \notin Unacked(disk[n]) \/ alive[n] # "up")

(* A running agent that lost its connection gets a new one: the entry of   *)
(* the old one, which makes the hub answer 409, does not stay, not even    *)
(* when its disconnect waits behind a placement or the journal refuses it. *)
Reconnects ==
  FaultsStop => \A n \in Node :
    (alive[n] = "up" /\ conn[n] = "closed") ~> (conn[n] = "ready" \/ alive[n] # "up")

(* No job stays ASSIGNED: it gets its verdict, or becomes UNKNOWN by its   *)
(* deadline, so that the operator can act on it.                           *)
AssignmentsResolve ==
  FaultsStop => \A j \in Job : (jobs[j].state = "ASSIGNED") ~> (jobs[j].state # "ASSIGNED")

=============================================================================
