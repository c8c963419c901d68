-------------------------------- MODULE Agent --------------------------------
(***************************************************************************)
(* The executors: startAgent of src/lib/agent.js, one per node.            *)
(*                                                                         *)
(* cache is the receipt map in memory and disk the state file it is saved  *)
(* to as a whole: atomic() replaces the file or leaves it as it was.       *)
(* Message handlers run to completion except for the executor call, so     *)
(* messages, timers and closes come between an execution's start and end.  *)
(* A failed save stops the agent for good: it only lets a running          *)
(* execution finish and be saved.                                          *)
(***************************************************************************)
EXTENDS Wire, FiniteSets

CONSTANTS
  ReceiptCap,      \* RECEIPT_CAP: entries the store may hold
  PruneTo          \* RECEIPT_PRUNE_TO

ASSUME PruneAssumption == ReceiptCap \in Nat /\ PruneTo \in Nat /\ PruneTo < ReceiptCap

VARIABLES
  cache,     \* the receipts in memory
  disk,      \* the state file
  busy,      \* the job whose executor runs, 0 if none
  alive,     \* up, stopped (by stop() or a failed save), down
  effect     \* ghost: what running the job came to, over all nodes

agentVars == <<cache, disk, busy, alive, effect>>

Final == {"SUCCEEDED", "FAILED", "UNKNOWN"}

Entry == [state : {"none", "EXECUTING"} \cup Final, lease : Lease,
          result : Result \cup {NoResult}, acked : BOOLEAN]

NoEntry == [state |-> "none", lease |-> 0, result |-> NoResult, acked |-> FALSE]

Store == [Job -> Entry]

(* again: a second execution of the same job was started. *)
Effect == [phase : {"none", "running", "ended", "lost", "again"},
           state : {"none", "SUCCEEDED", "FAILED"}, result : Result \cup {NoResult}]

NoEffect == [phase |-> "none", state |-> "none", result |-> NoResult]

AgentTypeOK ==
  /\ WireTypeOK
  /\ cache \in [Node -> Store]
  /\ disk  \in [Node -> Store]
  /\ busy  \in [Node -> Job \cup {0}]
  /\ alive \in [Node -> {"up", "stopped", "down"}]
  /\ effect \in [Job -> Effect]

AgentInit ==
  /\ cache = [n \in Node |-> [j \in Job |-> NoEntry]]
  /\ disk  = [n \in Node |-> [j \in Job |-> NoEntry]]
  /\ busy  = [n \in Node |-> 0]
  /\ alive = [n \in Node |-> "down"]
  /\ effect = [j \in Job |-> NoEffect]

-----------------------------------------------------------------------------
(* The receipt store *)

Held(store) == {j \in Job : store[j].state # "none"}

Unacked(store) == {j \in Job : store[j].state \in Final /\ ~ store[j].acked}

AsReceipt(store, j) == [job |-> j, lease |-> store[j].lease,
                        state |-> store[j].state, result |-> store[j].result]

(* Mutant: an uncertain outcome is not worth a receipt. *)
ReceiptsCertain(store) ==
  {AsReceipt(store, j) : j \in {i \in Unacked(store) : store[i].state # "UNKNOWN"}}

(* receipts(): every result not acknowledged yet. *)
Receipts(store) == {AsReceipt(store, j) : j \in Unacked(store)}

Without(store, gone) == [j \in Job |-> IF j \in gone THEN NoEntry ELSE store[j]]

(* Mutant: the oldest entries go, acknowledged or not. *)
PrunedOldest(store) ==
  IF Cardinality(Held(store)) < ReceiptCap THEN {store}
  ELSE {Without(store, gone) : gone \in
          {g \in SUBSET Held(store) : Cardinality(Held(store) \ g) = PruneTo}}

(* prune(): a full store drops acknowledged entries, and only those, down  *)
(* to PruneTo if there are enough (the oldest first; here any of them).    *)
Pruned(store) ==
  IF Cardinality(Held(store)) < ReceiptCap THEN {store}
  ELSE {Without(store, gone) : gone \in
          {g \in SUBSET {j \in Held(store) : store[j].acked} :
             \/ Cardinality(Held(store) \ g) = PruneTo
             \/ Cardinality(Held(store) \ g) > PruneTo
                /\ \A j \in Held(store) \ g : ~ store[j].acked}}

(* Mutants: a starting process forgets an execution that was running, or   *)
(* calls it failed.                                                        *)
LoadedForgets(store) == Without(store, {j \in Job : store[j].state = "EXECUTING"})
LoadedFailed(store) ==
  [j \in Job |-> IF store[j].state = "EXECUTING"
                 THEN [store[j] EXCEPT !.state = "FAILED"] ELSE store[j]]

(* What a starting process makes of the file: an execution that was        *)
(* running is uncertain.                                                   *)
Loaded(store) ==
  [j \in Job |-> IF store[j].state = "EXECUTING"
                 THEN [state |-> "UNKNOWN", lease |-> store[j].lease,
                       result |-> NoResult, acked |-> store[j].acked]
                 ELSE store[j]]

-----------------------------------------------------------------------------
(* Saving *)

(* The store becomes s in memory and on disk. *)
Save(n, s) ==
  /\ cache' = [cache EXCEPT ![n] = s]
  /\ disk' = [disk EXCEPT ![n] = s]

(* It becomes s in memory only, and the agent stops and closes its socket. *)
SaveFails(n, s) ==
  /\ cache' = [cache EXCEPT ![n] = s]
  /\ UNCHANGED disk
  /\ alive' = [alive EXCEPT ![n] = "stopped"]
  /\ conn' = [conn EXCEPT ![n] = "closed"]
  /\ toAgent' = [toAgent EXCEPT ![n] = {}]

Took(n, m) == toAgent' = [toAgent EXCEPT ![n] = @ \ {m}]

(* A protocol error: the agent closes the socket, code 4008. *)
CloseSocket(n) ==
  /\ conn' = [conn EXCEPT ![n] = "closed"]
  /\ toAgent' = [toAgent EXCEPT ![n] = {}]

Receiving(n, m) == alive[n] = "up" /\ conn[n] = "ready" /\ m \in toAgent[n]

-----------------------------------------------------------------------------
(* Messages and timers *)

(* welcome: the connection is ready and every open receipt is sent. *)
Welcome(n) ==
  /\ alive[n] = "up"
  /\ conn[n] = "opening"
  /\ conn' = [conn EXCEPT ![n] = "ready"]
  /\ toHub' = Uploaded(toHub, n, Receipts(cache[n]))
  /\ UNCHANGED <<peers, toAgent, agentVars>>

(* The three-second timer: heartbeat and open receipts. *)
Resend(n) ==
  /\ alive[n] = "up"
  /\ conn[n] = "ready"
  /\ toHub' = Uploaded(toHub, n, Receipts(cache[n]))
  /\ UNCHANGED <<peers, conn, toAgent, agentVars>>

(* receipt.ack, for an entry under that lease; any other is ignored. *)
Answered(n, m) == cache[n][m.job].state # "none" /\ cache[n][m.job].lease = m.lease

Acked(n, m) == [cache[n] EXCEPT ![m.job].acked = TRUE]

OnAck(n, m) ==
  /\ Receiving(n, m) /\ m.type = "ack"
  /\ IF Answered(n, m) THEN Save(n, Acked(n, m)) ELSE UNCHANGED <<cache, disk>>
  /\ Took(n, m)
  /\ UNCHANGED <<peers, conn, toHub, busy, alive, effect>>

OnAckFails(n, m) ==
  /\ Receiving(n, m) /\ m.type = "ack"
  /\ Answered(n, m)
  /\ SaveFails(n, Acked(n, m))
  /\ UNCHANGED <<peers, toHub, busy, effect>>

(* execute for a job the store holds under the same lease: its receipt     *)
(* once more, or nothing while it still runs.                              *)
OnExecuteAgain(n, m) ==
  /\ Receiving(n, m) /\ m.type = "execute"
  /\ cache[n][m.job].state # "none"
  /\ cache[n][m.job].lease = m.lease
  /\ toHub' = IF cache[n][m.job].state \in Final
              THEN Uploaded(toHub, n, {AsReceipt(cache[n], m.job)}) ELSE toHub
  /\ Took(n, m)
  /\ UNCHANGED <<peers, conn, agentVars>>

(* JOB_EQUIVOCATION: the job is held under another lease. *)
OnEquivocation(n, m) ==
  /\ Receiving(n, m) /\ m.type = "execute"
  /\ cache[n][m.job].state # "none"
  /\ cache[n][m.job].lease # m.lease
  /\ CloseSocket(n)
  /\ UNCHANGED <<peers, toHub, agentVars>>

(* JOB_REFUSED: the agent is busy, the store is full of unacknowledged     *)
(* entries, or the deadline has passed on the agent's clock.  What was     *)
(* pruned is saved with the next change.                                   *)
OnRefuse(n, m) ==
  /\ Receiving(n, m) /\ m.type = "execute"
  /\ cache[n][m.job].state = "none"
  /\ \E s \in Pruned(cache[n]) : cache' = [cache EXCEPT ![n] = s]
  /\ CloseSocket(n)
  /\ UNCHANGED <<peers, toHub, disk, busy, alive, effect>>

Started(j) == [effect EXCEPT ![j].phase = IF @ = "none" THEN "running" ELSE "again"]

WithExecuting(s, m) ==
  [s EXCEPT ![m.job] = [state |-> "EXECUTING", lease |-> m.lease,
                        result |-> NoResult, acked |-> FALSE]]

(* The new job is saved as EXECUTING, then its executor starts. *)
OnExecute(n, m) ==
  /\ Receiving(n, m) /\ m.type = "execute"
  /\ cache[n][m.job].state = "none"
  /\ busy[n] = 0
  /\ \E s \in Pruned(cache[n]) :
       /\ Cardinality(Held(s)) < ReceiptCap
       /\ Save(n, WithExecuting(s, m))
  /\ busy' = [busy EXCEPT ![n] = m.job]
  /\ effect' = Started(m.job)
  /\ Took(n, m)
  /\ UNCHANGED <<peers, conn, toHub, alive>>

OnExecuteFails(n, m) ==
  /\ Receiving(n, m) /\ m.type = "execute"
  /\ cache[n][m.job].state = "none"
  /\ busy[n] = 0
  /\ \E s \in Pruned(cache[n]) :
       /\ Cardinality(Held(s)) < ReceiptCap
       /\ SaveFails(n, WithExecuting(s, m))
  /\ UNCHANGED <<peers, toHub, busy, effect>>

-----------------------------------------------------------------------------
(* The executor settles *)

Outcomes == [state : {"SUCCEEDED", "FAILED"}, result : Result]

WithOutcome(n, o) ==
  [cache[n] EXCEPT ![busy[n]] = [state |-> o.state, lease |-> cache[n][busy[n]].lease,
                                 result |-> o.result, acked |-> cache[n][busy[n]].acked]]

Ended(j, o) ==
  [effect EXCEPT ![j] = [phase |-> IF @.phase = "running" THEN "ended" ELSE @.phase,
                         state |-> o.state, result |-> o.result]]

(* The result is saved, then every open receipt is sent if the socket is   *)
(* open.                                                                   *)
Finish(n, o) ==
  /\ busy[n] # 0
  /\ alive[n] # "down"
  /\ Save(n, WithOutcome(n, o))
  /\ toHub' = Uploaded(toHub, n, Receipts(WithOutcome(n, o)))
  /\ busy' = [busy EXCEPT ![n] = 0]
  /\ effect' = Ended(busy[n], o)
  /\ UNCHANGED <<peers, conn, toAgent, alive>>

(* Mutant: the receipt is sent first, and then the save fails. *)
FinishFailsSent(n, o) ==
  /\ busy[n] # 0
  /\ alive[n] # "down"
  /\ SaveFails(n, WithOutcome(n, o))
  /\ toHub' = Uploaded(toHub, n, Receipts(WithOutcome(n, o)))
  /\ busy' = [busy EXCEPT ![n] = 0]
  /\ effect' = Ended(busy[n], o)
  /\ UNCHANGED peers

FinishFails(n, o) ==
  /\ busy[n] # 0
  /\ alive[n] # "down"
  /\ SaveFails(n, WithOutcome(n, o))
  /\ busy' = [busy EXCEPT ![n] = 0]
  /\ effect' = Ended(busy[n], o)
  /\ UNCHANGED <<peers, toHub>>

-----------------------------------------------------------------------------
(* Processes *)

(* The lock is taken, the file loaded, uncertain executions marked, a full *)
(* store pruned, and the result saved before anything else.                *)
Start(n) ==
  /\ alive[n] = "down"
  /\ \E s \in Pruned(Loaded(disk[n])) : Save(n, s)
  /\ alive' = [alive EXCEPT ![n] = "up"]
  /\ UNCHANGED <<wireVars, busy, effect>>

(* stop(): the socket closes; a running execution is waited for. *)
Stop(n) ==
  /\ alive[n] = "up"
  /\ alive' = [alive EXCEPT ![n] = "stopped"]
  /\ CloseSocket(n)
  /\ UNCHANGED <<peers, toHub, cache, disk, busy, effect>>

(* The process exits, at any point; with it goes a running execution and   *)
(* the memory (cache repeats the file until the next start).               *)
Exit(n) ==
  /\ alive[n] # "down"
  /\ alive' = [alive EXCEPT ![n] = "down"]
  /\ CloseSocket(n)
  /\ busy' = [busy EXCEPT ![n] = 0]
  /\ effect' = IF busy[n] = 0 THEN effect
               ELSE [effect EXCEPT ![busy[n]].phase = IF @ = "running" THEN "lost" ELSE @]
  /\ cache' = [cache EXCEPT ![n] = disk[n]]
  /\ UNCHANGED <<peers, toHub, disk>>

AgentStep(n) ==
  \/ Welcome(n) \/ Resend(n) \/ Start(n)
  \/ \E m \in toAgent[n] :
       \/ OnAck(n, m) \/ OnExecuteAgain(n, m) \/ OnExecute(n, m)
       \/ OnEquivocation(n, m) \/ OnRefuse(n, m)
  \/ \E o \in Outcomes : Finish(n, o)

AgentFault(n) ==
  \/ \E m \in toAgent[n] : OnAckFails(n, m) \/ OnExecuteFails(n, m)
  \/ \E o \in Outcomes : FinishFails(n, o)
  \/ Stop(n) \/ Exit(n)

=============================================================================
