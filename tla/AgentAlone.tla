----------------------------- MODULE AgentAlone -----------------------------
(***************************************************************************)
(* An agent against any hub that keeps one rule of fabric.js: a job whose  *)
(* receipt it has acknowledged is not sent again.  Until then this hub may *)
(* repeat an execute, send it under another lease, send a second job while *)
(* one runs, and drop or delay what it likes.                              *)
(***************************************************************************)
EXTENDS Agent

CONSTANTS
  SentLease,     \* leases this hub uses for each job
  MaxInFlight    \* bound on its messages in flight to an agent

ASSUME SentLeaseAssumption == SentLease \in [Job -> SUBSET Nat]

VARIABLE closedJobs    \* jobs this hub has acknowledged

aloneVars == <<wireVars, agentVars, closedJobs>>

AloneInit == WireInit /\ AgentInit /\ closedJobs = {}

Sends(n, m) ==
  /\ peers[n] = "live"
  /\ Cardinality(toAgent[n]) < MaxInFlight
  /\ toAgent' = Delivered(toAgent, n, {m})
  /\ UNCHANGED <<peers, conn, toHub, agentVars>>

HubExecutes(n, j, lease) ==
  /\ j \notin closedJobs
  /\ Sends(n, [type |-> "execute", job |-> j, lease |-> lease])
  /\ UNCHANGED closedJobs

(* It handles a receipt, and may acknowledge it.  The socket keeps its     *)
(* order, so an execute of the job sent before is handled before the       *)
(* acknowledgement: it cannot come after it here either.                   *)
HubTakes(n, r) ==
  /\ toHub' = [toHub EXCEPT ![n] = @ \ {r}]
  /\ \/ /\ peers[n] = "live"
        /\ closedJobs' = closedJobs \cup {r.job}
        /\ toAgent' = [Delivered(toAgent, n, {[type |-> "ack", job |-> r.job, lease |-> r.lease]})
                         EXCEPT ![n] = {m \in @ : m.type = "ack" \/ m.job # r.job}]
     \/ UNCHANGED <<toAgent, closedJobs>>
  /\ UNCHANGED <<peers, conn, agentVars>>

(* The hub forgets a closed connection. *)
HubForgets(n) ==
  /\ peers[n] = "closed"
  /\ toHub[n] = {}
  /\ peers' = [peers EXCEPT ![n] = "none"]
  /\ UNCHANGED <<conn, toHub, toAgent, agentVars, closedJobs>>

Channel(n) ==
  /\ \/ alive[n] = "up" /\ Register(n)
     \/ HubSocketClosed(n) \/ FrameLost(n) \/ AgentSocketClosed(n)
  /\ UNCHANGED <<agentVars, closedJobs>>

AloneNext ==
  \E n \in Node :
    \/ AgentStep(n) /\ UNCHANGED closedJobs
    \/ AgentFault(n) /\ UNCHANGED closedJobs
    \/ Channel(n)
    \/ HubForgets(n)
    \/ \E j \in Job : \E lease \in SentLease[j] : HubExecutes(n, j, lease)
    \/ \E r \in toHub[n] : HubTakes(n, r)

AloneSpec == AloneInit /\ [][AloneNext]_aloneVars

-----------------------------------------------------------------------------

(* One agent runs a job at most once, whatever the hub repeats, and across *)
(* crashes, failed saves and pruning: EXECUTING is on disk before the      *)
(* executor starts, a restart keeps it, and pruning takes only what the    *)
(* hub has closed.                                                         *)
RunsOnce == \A j \in Job : effect[j].phase # "again"

(* A receipt is sent only after it is on disk: as long as the hub may      *)
(* still read it from the socket, the file says the same, or has let go of *)
(* an acknowledged entry.                                                  *)
ReceiptIsDurable ==
  \A n \in Node : \A r \in toHub[n] :
    \/ AsReceipt(disk[n], r.job) = r
    \/ r.job \in closedJobs /\ disk[n][r.job].state = "none"

(* The file never claims more than what happened: a result on disk is the  *)
(* one the executor gave, and an execution that never ended has none.      *)
DiskIsTruthful ==
  \A n \in Node, j \in Job :
    disk[n][j].state \in {"SUCCEEDED", "FAILED"} =>
      /\ effect[j].phase = "ended"
      /\ effect[j].state = disk[n][j].state
      /\ effect[j].result = disk[n][j].result

(* An unacknowledged result survives every step, crashes and a full store  *)
(* included, until the hub's acknowledgement arrives.                      *)
UnackedIsKept ==
  [][\A n \in Node : \A j \in Unacked(disk[n]) :
       disk'[n][j] \in {disk[n][j], [disk[n][j] EXCEPT !.acked = TRUE]}]_aloneVars

=============================================================================
