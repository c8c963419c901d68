------------------------------ MODULE HubAgent ------------------------------
(***************************************************************************)
(* The job path end to end: the coordinator of Fabric.tla, the executors   *)
(* of Agent.tla and the channel of Wire.tla between them.  Every component *)
(* may crash and restart at any point, every connection may break with     *)
(* messages in flight, the journal and the state files may refuse writes,  *)
(* and the operator may abandon jobs.                                      *)
(***************************************************************************)
EXTENDS Fabric, Agent

allVars == <<wireVars, fabricVars, agentVars>>

Init == FabricInit /\ AgentInit

Hub   == HubStep /\ UNCHANGED agentVars
Agents == \E n \in Node : AgentStep(n) /\ UNCHANGED fabricVars

(* A socket is opened by a running agent. *)
Connect(n) ==
  /\ alive[n] = "up"
  /\ Register(n)
  /\ UNCHANGED <<fabricVars, agentVars>>

(* Each end notices that the other has left. *)
NoticesLoss(n) ==
  /\ \/ conn[n] = "closed" /\ HubSocketClosed(n)
     \/ peers[n] # "live" /\ AgentSocketClosed(n)
  /\ UNCHANGED <<fabricVars, agentVars>>

Step == Hub \/ Agents \/ \E n \in Node : Connect(n) \/ NoticesLoss(n)

(* What breaks. *)
Fault ==
  \/ HubFault /\ UNCHANGED agentVars
  \/ \E n \in Node : AgentFault(n) /\ UNCHANGED fabricVars
  \/ \E n \in Node : /\ HubSocketClosed(n) \/ AgentSocketClosed(n) \/ FrameLost(n)
                     /\ UNCHANGED <<fabricVars, agentVars>>

Next == Step \/ Fault

Spec == Init /\ [][Next]_allVars

-----------------------------------------------------------------------------

(* The system keeps the contract of a job. *)
Contract == INSTANCE JobContract WITH
  Jobs <- Job, Results <- Result,
  status <- [j \in Job |-> jobs[j].state],
  result <- [j \in Job |-> jobs[j].result]

KeepsContract == Contract!ContractSpec

(* The hub never rejects what its own agents report: a receipt in flight   *)
(* belongs to a recorded assignment of its sender and does not contradict  *)
(* a recorded verdict, however often the agent crashed, reconnected and    *)
(* repeated it.  A rejection closes the socket, and the agent would repeat *)
(* the same receipt on the next one for ever.                              *)
ReceiptsAgree ==
  \A n \in Node : \A r \in toHub[n] : Ours(n, r) /\ Agrees(r)

(* The agent lets go of a receipt only when the hub needs it no more: an   *)
(* entry marked acknowledged, in memory or on disk, is recorded with the   *)
(* same verdict at the hub, or was given up by the operator.               *)
AckedIsRecorded ==
  \A n \in Node, j \in Job : \A e \in {cache[n][j], disk[n][j]} :
    e.acked =>
      \/ jobs[j].state = "ABANDONED"
      \/ jobs[j].state = e.state /\ jobs[j].result = e.result

(* No agent works on a job behind the hub's back: the one it runs is held  *)
(* open at the hub in its name, or the operator has given it up.           *)
BusyIsReserved ==
  \A n \in Node : busy[n] # 0 =>
    \/ jobs[busy[n]].state \in {"ASSIGNED", "UNKNOWN"} /\ jobs[busy[n]].node = n
    \/ jobs[busy[n]].state = "ABANDONED"

=============================================================================
