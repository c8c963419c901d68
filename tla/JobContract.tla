----------------------------- MODULE JobContract -----------------------------
(***************************************************************************)
(* What the fabric promises of a job, as a client and an operator see it:  *)
(* the state it answers with and what running it came to.  The states and  *)
(* their order are those fabric.js records; the rest of the system,        *)
(* connections, crashes, journals and receipt stores, does not show.       *)
(*                                                                         *)
(*   - a job is run at most once, and only after it was assigned;          *)
(*   - SUCCEEDED and FAILED are what the one run ended with, and final;    *)
(*   - a job whose outcome is open is UNKNOWN, never queued again, and     *)
(*     leaves that state by its original run's result or by the operator.  *)
(***************************************************************************)
EXTENDS Naturals

CONSTANTS Jobs, Results, NoResult

VARIABLES status, result, effect

contractVars == <<status, result, effect>>

NoRun == [phase |-> "none", state |-> "none", result |-> NoResult]

ContractInit ==
  /\ status = [j \in Jobs |-> "absent"]
  /\ result = [j \in Jobs |-> NoResult]
  /\ effect = [j \in Jobs |-> NoRun]

Request(j) ==
  /\ status[j] = "absent"
  /\ status' = [status EXCEPT ![j] = "QUEUED"]
  /\ UNCHANGED <<result, effect>>

(* Assigned; at once UNKNOWN when the assignment could not be sent. *)
Assign(j) ==
  /\ status[j] = "QUEUED"
  /\ \E s \in {"ASSIGNED", "UNKNOWN"} : status' = [status EXCEPT ![j] = s]
  /\ UNCHANGED <<result, effect>>

(* Disconnect, deadline, restart, or an executor that cannot tell. *)
Doubt(S) ==
  /\ \A j \in S : status[j] = "ASSIGNED"
  /\ status' = [j \in Jobs |-> IF j \in S THEN "UNKNOWN" ELSE status[j]]
  /\ UNCHANGED <<result, effect>>

GiveUp(j) ==
  /\ status[j] \in {"QUEUED", "UNKNOWN"}
  /\ status' = [status EXCEPT ![j] = "ABANDONED"]
  /\ UNCHANGED <<result, effect>>

(* The verdict is that of the run. *)
Settle(j) ==
  /\ status[j] \in {"ASSIGNED", "UNKNOWN"}
  /\ effect[j].phase = "ended"
  /\ status' = [status EXCEPT ![j] = effect[j].state]
  /\ result' = [result EXCEPT ![j] = effect[j].result]
  /\ UNCHANGED effect

Run(j) ==
  /\ status[j] \in {"ASSIGNED", "UNKNOWN", "ABANDONED"}
  /\ effect[j].phase = "none"
  /\ effect' = [effect EXCEPT ![j].phase = "running"]
  /\ UNCHANGED <<status, result>>

End(j) ==
  /\ effect[j].phase = "running"
  /\ \E s \in {"SUCCEEDED", "FAILED"}, r \in Results :
       effect' = [effect EXCEPT ![j] = [phase |-> "ended", state |-> s, result |-> r]]
  /\ UNCHANGED <<status, result>>

Lose(j) ==
  /\ effect[j].phase = "running"
  /\ effect' = [effect EXCEPT ![j].phase = "lost"]
  /\ UNCHANGED <<status, result>>

ContractNext ==
  \/ \E j \in Jobs :
       Request(j) \/ Assign(j) \/ GiveUp(j) \/ Settle(j) \/ Run(j) \/ End(j) \/ Lose(j)
  \/ \E S \in SUBSET Jobs : Doubt(S)

ContractSpec == ContractInit /\ [][ContractNext]_contractVars

=============================================================================
