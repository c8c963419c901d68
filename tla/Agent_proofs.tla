----------------------------- MODULE Agent_proofs -----------------------------
(***************************************************************************)
(* Theorems about an agent (module AgentAlone): it runs a job at most      *)
(* once and loses no result that has not been acknowledged, whatever it    *)
(* is sent, whichever saves fail and wherever its process exits.           *)
(*                                                                         *)
(* The hub of AgentAlone closes a job for one agent; the theorems are      *)
(* about one agent, with any number of jobs and any size of its store.     *)
(***************************************************************************)
EXTENDS AgentAlone, AgentStore_proofs

OneNode == \A n, k \in Node : n = k

-----------------------------------------------------------------------------
(* The inductive invariant *)

\* What memory may say of a job, by what the file says of it.
Agrees(n, j) ==
  /\ disk[n][j].state = "none" =>
       cache[n][j].state = "none" \/ (cache[n][j].state = "EXECUTING" /\ Done(n))
  /\ disk[n][j].state = "EXECUTING" =>
       cache[n][j].state = "EXECUTING" \/ (cache[n][j].state \in Final /\ Done(n))
  /\ disk[n][j].state \in Final =>
       \/ SameResult(cache[n][j], disk[n][j])
       \/ cache[n][j].state = "none" /\ disk[n][j].acked
  /\ alive[n] = "up" /\ cache[n][j].acked => disk[n][j].acked

\* Acknowledged is what the hub has closed, and that is not running.
Closes(n, j) ==
  /\ cache[n][j].acked \/ disk[n][j].acked => j \in closedJobs
  /\ j \in closedJobs => cache[n][j].state # "EXECUTING" /\ disk[n][j].state # "EXECUTING"

\* A job that was ever started is in the file, or has been closed.
Began(n, j) == effect[j].phase # "none" => disk[n][j].state # "none" \/ j \in closedJobs

JobInv(n, j) == Agrees(n, j) /\ Closes(n, j) /\ Began(n, j)

\* The running job is in memory and in the file as such.
Runs(n) == busy[n] # 0 =>
  /\ alive[n] # "down"
  /\ cache[n][busy[n]].state = "EXECUTING" /\ disk[n][busy[n]].state = "EXECUTING"

\* Messages: nothing closed is sent for execution, nothing else is acknowledged.
Sent(n) == \A m \in toAgent[n] :
  /\ m.type = "ack" => m.job \in closedJobs
  /\ m.type = "execute" => m.job \notin closedJobs

\* What the hub may still read is in the file, or it has read it before.
Durable(n) == \A r \in toHub[n] :
  AsReceipt(disk[n], r.job) = r \/ (r.job \in closedJobs /\ disk[n][r.job].state = "none")

AloneTypeOK == AgentTypeOK /\ closedJobs \in SUBSET Job

NodeInv(n) == Runs(n) /\ Sent(n) /\ Durable(n) /\ \A j \in Job : JobInv(n, j)

AloneInv == AloneTypeOK /\ RunsOnce /\ \A n \in Node : NodeInv(n)

-----------------------------------------------------------------------------
(* Types *)

\* What the hub and the channel do keeps the types.
LEMMA HubTypes ==
  ASSUME AloneTypeOK, NEW n \in Node,
         \/ Channel(n) \/ HubForgets(n)
         \/ \E j \in Job : \E lease \in SentLease[j] : HubExecutes(n, j, lease)
         \/ \E r \in toHub[n] : HubTakes(n, r)
  PROVE  AloneTypeOK'
<1>0. TypeParts' => AgentTypeOK'
  BY TypePartsLemma, PTL
<1> SUFFICES TypeParts' /\ closedJobs' \in SUBSET Job
  BY <1>0 DEF AloneTypeOK
<1>1. TypeParts /\ closedJobs \in SUBSET Job
  BY TypePartsLemma DEF AloneTypeOK
<1>2. CASE Channel(n)
  BY <1>1, <1>2 DEF Channel, Register, HubSocketClosed, FrameLost, AgentSocketClosed, TypeParts, agentVars
<1>3. CASE HubForgets(n)
  BY <1>1, <1>3 DEF HubForgets, TypeParts, agentVars
<1>4. ASSUME NEW j \in Job, NEW lease \in SentLease[j], HubExecutes(n, j, lease)
      PROVE  TypeParts' /\ closedJobs' \in SUBSET Job
  <2>1. {[type |-> "execute", job |-> j, lease |-> lease]} \in SUBSET AgentMsg
    BY SentLeaseAssumption DEF AgentMsg, Lease
  <2>2. toAgent' \in [Node -> SUBSET AgentMsg]
    BY <1>1, <1>4, <2>1, SentLemma DEF HubExecutes, Sends, TypeParts
  <2> QED BY <1>1, <1>4, <2>2 DEF HubExecutes, Sends, TypeParts, agentVars
<1>5. ASSUME NEW r \in toHub[n], HubTakes(n, r)
      PROVE  TypeParts' /\ closedJobs' \in SUBSET Job
  <2> DEFINE ack == [type |-> "ack", job |-> r.job, lease |-> r.lease]
             sent == Delivered(toAgent, n, {ack})
  <2>1. r \in Receipt /\ r.job \in Job
    BY <1>1 DEF TypeParts, Receipt
  <2>2. {ack} \in SUBSET AgentMsg
    BY <2>1 DEF AgentMsg, Receipt
  <2>3. sent \in [Node -> SUBSET AgentMsg]
    BY <1>1, <2>2, SentLemma DEF TypeParts
  <2>4. \/ UNCHANGED <<toAgent, closedJobs>>
        \/ /\ toAgent' = [sent EXCEPT ![n] = {m \in sent[n] : m.type = "ack" \/ m.job # r.job}]
           /\ closedJobs' = closedJobs \cup {r.job}
    BY <1>5 DEF HubTakes
  <2>5. toAgent' \in [Node -> SUBSET AgentMsg] /\ closedJobs' \in SUBSET Job
    <3> HIDE DEF sent
    <3> QED BY <1>1, <2>1, <2>3, <2>4 DEF TypeParts
  <2> QED BY <1>1, <1>5, <2>5 DEF HubTakes, TypeParts, agentVars
<1> QED BY <1>2, <1>3, <1>4, <1>5

\* Every step keeps the types.
LEMMA TypeStep ==
  ASSUME AloneTypeOK, [AloneNext]_aloneVars
  PROVE  AloneTypeOK'
<1>1. ASSUME NEW n \in Node, AgentStep(n) \/ AgentFault(n), UNCHANGED closedJobs
      PROVE  AloneTypeOK'
  BY <1>1, AgentTypes DEF AloneTypeOK
<1>2. CASE AloneNext
  BY <1>1, <1>2, HubTypes DEF AloneNext
<1>3. CASE UNCHANGED aloneVars
  BY <1>3 DEF aloneVars, wireVars, agentVars, AloneTypeOK, AgentTypeOK, WireTypeOK
<1> QED BY <1>2, <1>3

-----------------------------------------------------------------------------
(* One step of an agent, by what it does to the store *)

\* No unacknowledged result in the file is lost or changed by the step.
Kept(n) == \A j \in Unacked(disk[n]) :
  disk'[n][j] \in {disk[n][j], [disk[n][j] EXCEPT !.acked = TRUE]}

\* What a step must leave of the store.
StoreGood(n) == Runs(n)' /\ (\A j \in Job : JobInv(n, j)') /\ Kept(n)

\* What the invariant says of one agent.
LEMMA Unfold ==
  ASSUME AloneInv, NEW n \in Node
  PROVE  /\ cache[n] \in Store /\ disk[n] \in Store
         /\ toHub[n] \in SUBSET Receipt /\ toAgent[n] \in SUBSET AgentMsg
         /\ Runs(n) /\ Sent(n) /\ Durable(n)
         /\ \A j \in Job : /\ cache[n][j] \in Entry /\ disk[n][j] \in Entry
                           /\ Agrees(n, j) /\ Closes(n, j) /\ Began(n, j)
         /\ alive[n] \in {"up", "stopped", "down"}
         /\ busy[n] \in Job \cup {0}
BY DEF AloneInv, AloneTypeOK, AgentTypeOK, WireTypeOK, NodeInv, JobInv, Store

\* Handlers that leave the store alone.
LEMMA QuietStore ==
  ASSUME AloneInv, NEW n \in Node, UNCHANGED <<cache, disk, busy, effect, closedJobs>>,
         alive'[n] = alive[n] \/ (alive[n] = "up" /\ alive'[n] = "stopped")
  PROVE  StoreGood(n)
<1>1. Runs(n) /\ \A j \in Job : JobInv(n, j)
  BY Unfold DEF JobInv
<1>2. Done(n) => Done(n)'
  BY DEF Done
<1>3. alive'[n] = "up" => alive[n] = "up"
  OBVIOUS
<1>4. Runs(n)'
  BY <1>1 DEF Runs
<1>5. ASSUME NEW j \in Job PROVE JobInv(n, j)'
  BY <1>1, <1>2, <1>3, <1>5 DEF JobInv, Agrees, Closes, Began
<1>6. Kept(n)
  BY DEF Kept
<1> QED BY <1>4, <1>5, <1>6 DEF StoreGood

\* The store is saved: the file says what memory says, and keeps what it held.
Keeps(n, s) == \A j \in Job :
  /\ disk[n][j].state \in Final =>
       \/ SameResult(s[j], disk[n][j])
       \/ s[j].state = "none" /\ disk[n][j].acked
  /\ s[j].acked => j \in closedJobs
  /\ j \in closedJobs => s[j].state # "EXECUTING"
  /\ j \in closedJobs /\ disk[n][j].state = "none" => s[j].state = "none"
  /\ effect'[j].phase # "none" => s[j].state # "none" \/ j \in closedJobs

\* A handler whose save succeeds leaves memory and the file agreed.
LEMMA SavedStore ==
  ASSUME AloneInv, NEW n \in Node, NEW s \in Store,
         cache'[n] = s, disk'[n] = s, Keeps(n, s), UNCHANGED closedJobs,
         busy'[n] # 0 => alive'[n] # "down" /\ s[busy'[n]].state = "EXECUTING"
  PROVE  StoreGood(n)
<1>1. Runs(n)'
  BY DEF Runs
<1>2. ASSUME NEW j \in Job PROVE JobInv(n, j)'
  <2>1. s[j] \in Entry
    BY DEF Store
  <2>2. Agrees(n, j)'
    BY <2>1, EntryLemma DEF Agrees, SameResult, Final
  <2>3. Closes(n, j)'
    BY DEF Closes, Keeps
  <2>4. Began(n, j)'
    BY DEF Began, Keeps
  <2> QED BY <2>2, <2>3, <2>4 DEF JobInv
<1>3. ASSUME NEW j \in Unacked(disk[n])
      PROVE  disk'[n][j] \in {disk[n][j], [disk[n][j] EXCEPT !.acked = TRUE]}
  <2>1. j \in Job /\ disk[n][j] \in Entry /\ s[j] \in Entry
    BY Unfold DEF Unacked, Store
  <2>2. SameResult(s[j], disk[n][j])
    BY <1>3, <2>1 DEF Unacked, Keeps
  <2> QED BY <2>1, <2>2, SMT DEF Entry, SameResult
<1> QED BY <1>1, <1>2, <1>3 DEF StoreGood, Kept

\* The save fails: memory changes, the file does not, and the agent is stopped.
Strays(n, s) == \A j \in Job :
  /\ disk[n][j].state = "none" =>
       s[j].state = "none" \/ (s[j].state = "EXECUTING" /\ busy'[n] = 0)
  /\ disk[n][j].state = "EXECUTING" =>
       s[j].state = "EXECUTING" \/ (s[j].state \in Final /\ busy'[n] = 0)
  /\ disk[n][j].state \in Final =>
       SameResult(s[j], disk[n][j]) \/ (s[j].state = "none" /\ disk[n][j].acked)
  /\ s[j].acked => j \in closedJobs
  /\ j \in closedJobs => s[j].state # "EXECUTING"
  /\ effect'[j].phase # "none" => effect[j].phase # "none"

\* One whose save fails leaves the file as it was, and the agent stopped.
LEMMA UnsavedStore ==
  ASSUME AloneInv, NEW n \in Node, NEW s \in Store,
         cache'[n] = s, UNCHANGED <<disk, closedJobs>>, alive'[n] = "stopped", Strays(n, s),
         busy'[n] # 0 => s[busy'[n]].state = "EXECUTING" /\ disk[n][busy'[n]].state = "EXECUTING"
  PROVE  StoreGood(n)
<1>1. \A j \in Job : Closes(n, j) /\ Began(n, j)
  BY Unfold
<1>2. Runs(n)'
  BY DEF Runs
<1>3. ASSUME NEW j \in Job PROVE JobInv(n, j)'
  <2>1. Agrees(n, j)'
    BY DEF Agrees, Strays, Done
  <2>2. Closes(n, j)' /\ Began(n, j)'
    BY <1>1 DEF Closes, Began, Strays
  <2> QED BY <2>1, <2>2 DEF JobInv
<1>4. Kept(n)
  BY DEF Kept
<1> QED BY <1>2, <1>3, <1>4 DEF StoreGood

-----------------------------------------------------------------------------
(* The messages *)

\* Fewer messages to the agent are as good.
LEMMA SentLess ==
  ASSUME AloneInv, NEW n \in Node, UNCHANGED closedJobs, toAgent'[n] \subseteq toAgent[n]
  PROVE  Sent(n)'
BY Unfold DEF Sent

\* Of a store that agrees with the file, the receipts are those of the file.
LEMMA ReceiptsOfFile ==
  ASSUME AloneInv, NEW n \in Node, NEW j \in Job, ~ Done(n), cache[n][j].state \in Final
  PROVE  AsReceipt(cache[n], j) = AsReceipt(disk[n], j)
<1>1. Agrees(n, j) /\ disk[n][j] \in Entry
  BY Unfold
<1>2. SameResult(cache[n][j], disk[n][j])
  BY <1>1, EntryLemma DEF Agrees, Final
<1> QED BY <1>2 DEF SameResult, AsReceipt

\* Receipts on their way stay durable while the file stays as it is.
LEMMA DurableSame ==
  ASSUME AloneInv, NEW n \in Node, UNCHANGED disk, closedJobs \subseteq closedJobs',
         \A r \in toHub'[n] : r \in toHub[n] \/ AsReceipt(disk[n], r.job) = r
  PROVE  Durable(n)'
<1>1. Durable(n)
  BY Unfold
<1> QED BY <1>1 DEF Durable, AsReceipt

\* And when a store is saved that keeps what the file tells.
LEMMA DurableSaved ==
  ASSUME AloneInv, NEW n \in Node, NEW s \in Store, disk'[n] = s, Keeps(n, s),
         UNCHANGED closedJobs, \A r \in toHub'[n] : r \in toHub[n] \/ r \in Receipts(s)
  PROVE  Durable(n)'
<1> SUFFICES ASSUME NEW r \in toHub'[n]
             PROVE  AsReceipt(s, r.job) = r \/ (r.job \in closedJobs /\ s[r.job].state = "none")
  BY DEF Durable, AsReceipt
<1>1. CASE r \in Receipts(s)
  BY <1>1, ReceiptsLemma
<1>2. CASE r \in toHub[n]
  <2>1. r \in Receipt /\ r.job \in Job /\ r.state \in Final
    BY <1>2, Unfold DEF Receipt, ReceiptState, Final
  <2>2. s[r.job] \in Entry /\ disk[n][r.job] \in Entry /\ Closes(n, r.job)
    BY <2>1, Unfold DEF Store
  <2>3. CASE AsReceipt(disk[n], r.job) = r
    <3>1. disk[n][r.job].state \in Final
      BY <2>1, <2>3 DEF AsReceipt
    <3>2. CASE SameResult(s[r.job], disk[n][r.job])
      BY <2>3, <3>2 DEF SameResult, AsReceipt
    <3>3. CASE s[r.job].state = "none" /\ disk[n][r.job].acked
      BY <2>2, <3>3 DEF Closes
    <3> QED BY <2>1, <3>1, <3>2, <3>3 DEF Keeps
  <2>4. CASE r.job \in closedJobs /\ disk[n][r.job].state = "none"
    BY <2>1, <2>4 DEF Keeps
  <2>5. Durable(n)
    BY Unfold
  <2> QED BY <1>2, <2>3, <2>4, <2>5 DEF Durable
<1> QED BY <1>1, <1>2

-----------------------------------------------------------------------------
(* The agent's actions *)

Good(n) == NodeInv(n)' /\ Kept(n) /\ RunsOnce'

\* The parts of what a step must leave true, put together.
LEMMA GoodLemma ==
  ASSUME NEW n \in Node, StoreGood(n), Sent(n)', Durable(n)', RunsOnce'
  PROVE  Good(n)
BY DEF Good, StoreGood, NodeInv

\* Welcome, the three-second timer, and messages that change no entry.
LEMMA QuietSteps ==
  ASSUME AloneInv, NEW n \in Node, UNCHANGED closedJobs,
         \/ Welcome(n) \/ Resend(n) \/ Stop(n)
         \/ \E m \in toAgent[n] : OnExecuteAgain(n, m) \/ OnEquivocation(n, m)
  PROVE  Good(n)
<1>1. UNCHANGED <<cache, disk, busy, effect>>
  BY DEF Welcome, Resend, Stop, CloseSocket, OnExecuteAgain, OnEquivocation, agentVars
<1>2. alive'[n] = alive[n] \/ (alive[n] = "up" /\ alive'[n] = "stopped")
  <2>1. alive \in [Node -> {"up", "stopped", "down"}]
    BY DEF AloneInv, AloneTypeOK, AgentTypeOK
  <2> QED BY <2>1 DEF Welcome, Resend, Stop, OnExecuteAgain, OnEquivocation, agentVars
<1>3. StoreGood(n)
  BY <1>1, <1>2, QuietStore
<1>4. RunsOnce'
  BY <1>1 DEF AloneInv, RunsOnce
<1>5. toAgent'[n] \subseteq toAgent[n]
  <2>1. toAgent \in [Node -> SUBSET AgentMsg]
    BY DEF AloneInv, AloneTypeOK, AgentTypeOK, WireTypeOK
  <2> QED BY <2>1 DEF Welcome, Resend, Stop, CloseSocket, OnExecuteAgain, OnEquivocation, Took
<1>6. \A r \in toHub'[n] : r \in toHub[n] \/ AsReceipt(disk[n], r.job) = r
  <2>1. toHub \in [Node -> SUBSET Receipt]
    BY DEF AloneInv, AloneTypeOK, AgentTypeOK, WireTypeOK
  <2>2. CASE Stop(n) \/ \E m \in toAgent[n] : OnEquivocation(n, m)
    BY <2>2 DEF Stop, OnEquivocation
  <2>3. CASE Welcome(n) \/ Resend(n)
    <3>1. toHub' = Uploaded(toHub, n, Receipts(cache[n])) /\ ~ Done(n)
      BY <2>3 DEF Welcome, Resend, Done
    <3>2. Receipts(cache[n]) \in SUBSET Receipt
      BY Unfold, ReceiptsLemma
    <3>3. \A r \in toHub'[n] : r \in toHub[n] \/ r \in Receipts(cache[n])
      BY <2>1, <3>1, <3>2, UploadedLemma
    <3>4. \A r \in Receipts(cache[n]) : AsReceipt(disk[n], r.job) = r
      BY <3>1, Unfold, ReceiptsLemma, ReceiptsOfFile
    <3> QED BY <3>3, <3>4
  <2>4. ASSUME NEW m \in toAgent[n], OnExecuteAgain(n, m)
        PROVE  \A r \in toHub'[n] : r \in toHub[n] \/ AsReceipt(disk[n], r.job) = r
    <3>1. m.job \in Job /\ ~ Done(n)
      BY <2>4, Unfold DEF AgentMsg, OnExecuteAgain, Receiving, Done
    <3>2. CASE cache[n][m.job].state \notin Final
      BY <2>4, <3>2 DEF OnExecuteAgain
    <3>3. CASE cache[n][m.job].state \in Final
      <4> DEFINE rs == {AsReceipt(cache[n], m.job)}
      <4>1. rs \in SUBSET Receipt /\ AsReceipt(cache[n], m.job).job = m.job
        BY <3>1, <3>3, Unfold, EntryLemma DEF AsReceipt, Final, Receipt, ReceiptState
      <4>2. \A r \in Uploaded(toHub, n, rs)[n] : r \in toHub[n] \/ r \in rs
        BY <2>1, <4>1, UploadedLemma
      <4>3. toHub' = Uploaded(toHub, n, rs)
        BY <2>4, <3>3 DEF OnExecuteAgain
      <4>4. AsReceipt(disk[n], m.job) = AsReceipt(cache[n], m.job)
        BY <3>1, <3>3, ReceiptsOfFile
      <4> QED BY <4>1, <4>2, <4>3, <4>4
    <3> QED BY <3>2, <3>3
  <2> QED BY <2>2, <2>3, <2>4
<1> QED BY <1>1, <1>3, <1>4, <1>5, <1>6, GoodLemma, SentLess, DurableSame

\* A full store is pruned, and the agent refuses: memory forgets what the hub has closed.
LEMMA RefuseStep ==
  ASSUME AloneInv, NEW n \in Node, NEW m \in toAgent[n], UNCHANGED closedJobs, OnRefuse(n, m)
  PROVE  Good(n)
<1>1. PICK s \in Pruned(cache[n]) : cache' = [cache EXCEPT ![n] = s]
  BY DEF OnRefuse
<1>2. s \in Store /\ \A j \in Job : s[j] = cache[n][j] \/ (s[j] = NoEntry /\ cache[n][j].acked)
  BY Unfold, PrunedLemma
<1>3. cache'[n] = s /\ alive[n] = "up" /\ UNCHANGED <<disk, busy, alive, effect>>
  BY <1>1 DEF OnRefuse, Receiving, AloneInv, AloneTypeOK, AgentTypeOK
<1>4. ASSUME NEW j \in Job PROVE JobInv(n, j)'
  <2>1. Agrees(n, j) /\ Closes(n, j) /\ Began(n, j) /\ ~ Done(n)
    BY <1>3, Unfold DEF Done
  <2>2. s[j] = cache[n][j] \/ (s[j] = NoEntry /\ cache[n][j].acked)
    BY <1>2
  <2>3. Began(n, j)'
    BY <1>3, <2>1 DEF Began
  <2>4. CASE s[j] = cache[n][j]
    BY <1>3, <2>1, <2>3, <2>4 DEF JobInv, Agrees, Closes, Done
  <2>5. CASE s[j] = NoEntry /\ cache[n][j].acked
    <3>1. disk[n][j].acked /\ disk[n][j].state # "EXECUTING"
      BY <1>3, <2>1, <2>5 DEF Agrees, Closes
    <3>2. Agrees(n, j)'
      BY <1>3, <2>5, <3>1, NoEntryLemma DEF Agrees
    <3>3. Closes(n, j)'
      BY <1>3, <2>1, <2>5, <3>1, NoEntryLemma DEF Closes
    <3> QED BY <2>3, <3>2, <3>3 DEF JobInv
  <2> QED BY <2>2, <2>4, <2>5
<1>5. Runs(n)'
  <2>1. ASSUME busy[n] # 0 PROVE s[busy[n]] = cache[n][busy[n]]
    <3>1. busy[n] \in Job /\ Closes(n, busy[n]) /\ cache[n][busy[n]].state = "EXECUTING"
      BY <2>1, Unfold DEF Runs
    <3> QED BY <1>2, <3>1 DEF Closes
  <2> QED BY <1>3, <2>1, Unfold DEF Runs
<1>6. Kept(n)
  BY <1>3 DEF Kept
<1>7. toAgent'[n] \subseteq toAgent[n] /\ UNCHANGED toHub
  BY DEF OnRefuse, CloseSocket, AloneInv, AloneTypeOK, AgentTypeOK, WireTypeOK
<1>8. RunsOnce'
  BY <1>3 DEF AloneInv, RunsOnce
<1>9. StoreGood(n)
  BY <1>4, <1>5, <1>6 DEF StoreGood
<1> QED BY <1>3, <1>7, <1>8, <1>9, GoodLemma, SentLess, DurableSame

\* receipt.ack: what is acknowledged is closed, and its entry is a result.
LEMMA AckStep ==
  ASSUME AloneInv, NEW n \in Node, NEW m \in toAgent[n], UNCHANGED closedJobs,
         OnAck(n, m) \/ OnAckFails(n, m)
  PROVE  Good(n)
<1> DEFINE s == Acked(n, m)
<1>1. /\ m \in AgentMsg /\ m.job \in Job /\ m.job \in closedJobs /\ alive[n] = "up"
      /\ UNCHANGED <<busy, effect>>
  BY Unfold DEF OnAck, OnAckFails, Receiving, Sent, AgentMsg
<1>2. s \in Store
  BY <1>1, NextStores DEF AloneInv, AloneTypeOK
<1>3. ASSUME NEW j \in Job
      PROVE  /\ s[j].state = cache[n][j].state /\ s[j].lease = cache[n][j].lease
             /\ s[j].result = cache[n][j].result
             /\ s[j].acked = IF j = m.job THEN TRUE ELSE cache[n][j].acked
  <2>1. s[j] = IF j = m.job THEN [cache[n][j] EXCEPT !.acked = TRUE] ELSE cache[n][j]
    BY <1>1, Unfold DEF Acked, Store
  <2>2. ASSUME NEW e \in Entry
        PROVE  LET f == [e EXCEPT !.acked = TRUE]
               IN  f.state = e.state /\ f.lease = e.lease /\ f.result = e.result /\ f.acked = TRUE
    BY DEF Entry
  <2>3. cache[n][j] \in Entry
    BY Unfold
  <2> HIDE DEF s
  <2> QED BY <2>1, <2>2, <2>3
<1>4. \A j \in Job : Agrees(n, j) /\ Closes(n, j) /\ Began(n, j)
  BY Unfold
<1>5. ~ Done(n)
  BY <1>1 DEF Done
<1>6. RunsOnce'
  BY <1>1 DEF AloneInv, RunsOnce
<1>7. toAgent'[n] \subseteq toAgent[n] /\ UNCHANGED toHub
  BY DEF OnAck, OnAckFails, SaveFails, Took, AloneInv, AloneTypeOK, AgentTypeOK, WireTypeOK
<1>8. busy[n] # 0 => busy[n] \in Job /\ s[busy[n]].state = "EXECUTING"
                     /\ disk[n][busy[n]].state = "EXECUTING"
  BY <1>3, Unfold DEF Runs
<1>9. CASE OnAckFails(n, m)
  <2> HIDE DEF s
  <2>1. cache'[n] = s /\ UNCHANGED disk /\ alive'[n] = "stopped"
    BY <1>2, <1>9, SaveTypes DEF OnAckFails, AloneInv, AloneTypeOK, s
  <2>2. Strays(n, s)
    <3> SUFFICES ASSUME NEW j \in Job
                 PROVE  /\ disk[n][j].state = "none" => s[j].state = "none"
                        /\ disk[n][j].state = "EXECUTING" => s[j].state = "EXECUTING"
                        /\ disk[n][j].state \in Final =>
                             SameResult(s[j], disk[n][j]) \/ (s[j].state = "none" /\ disk[n][j].acked)
                        /\ s[j].acked => j \in closedJobs
                        /\ j \in closedJobs => s[j].state # "EXECUTING"
      BY <1>1 DEF Strays
    <3>1. s[j].state = cache[n][j].state /\ SameResult(s[j], cache[n][j])
      BY <1>3 DEF SameResult
    <3>2. s[j].acked => j \in closedJobs
      BY <1>1, <1>3, <1>4 DEF Closes
    <3>3. j \in closedJobs => s[j].state # "EXECUTING"
      BY <1>4, <3>1 DEF Closes
    <3>4. /\ disk[n][j].state = "none" => s[j].state = "none"
          /\ disk[n][j].state = "EXECUTING" => s[j].state = "EXECUTING"
      BY <1>4, <1>5, <3>1 DEF Agrees
    <3>5. disk[n][j].state \in Final =>
            SameResult(s[j], disk[n][j]) \/ (s[j].state = "none" /\ disk[n][j].acked)
      BY <1>4, <3>1 DEF Agrees, SameResult
    <3> QED BY <3>2, <3>3, <3>4, <3>5
  <2>3. StoreGood(n)
    BY <1>1, <1>2, <1>8, <2>1, <2>2, UnsavedStore
  <2> QED BY <1>6, <1>7, <2>1, <2>3, GoodLemma, SentLess, DurableSame
<1>10. CASE OnAck(n, m) /\ Answered(n, m)
  <2> HIDE DEF s
  <2>1. cache'[n] = s /\ disk'[n] = s /\ UNCHANGED alive
    BY <1>2, <1>10, SaveTypes DEF OnAck, AloneInv, AloneTypeOK, s
  <2>2. Keeps(n, s)
    <3> SUFFICES ASSUME NEW j \in Job
                 PROVE  /\ disk[n][j].state \in Final =>
                             SameResult(s[j], disk[n][j]) \/ (s[j].state = "none" /\ disk[n][j].acked)
                        /\ s[j].acked => j \in closedJobs
                        /\ j \in closedJobs => s[j].state # "EXECUTING"
                        /\ j \in closedJobs /\ disk[n][j].state = "none" => s[j].state = "none"
                        /\ effect'[j].phase # "none" => s[j].state # "none" \/ j \in closedJobs
      BY DEF Keeps
    <3>1. /\ Agrees(n, j) /\ Closes(n, j) /\ Began(n, j)
          /\ disk[n][j].state \in {"none", "EXECUTING"} \cup Final
      BY <1>4, Unfold, EntryLemma
    <3>2. effect'[j].phase # "none" => s[j].state # "none" \/ j \in closedJobs
      BY <1>1, <1>3, <1>5, <3>1 DEF Agrees, Closes, Began, SameResult, Final
    <3>3. /\ disk[n][j].state \in Final =>
               SameResult(s[j], disk[n][j]) \/ (s[j].state = "none" /\ disk[n][j].acked)
          /\ j \in closedJobs /\ disk[n][j].state = "none" => s[j].state = "none"
      BY <1>3, <1>5, <3>1 DEF Agrees, SameResult
    <3>4. s[j].acked => j \in closedJobs
      BY <1>1, <1>3, <3>1 DEF Closes
    <3>5. j \in closedJobs => s[j].state # "EXECUTING"
      BY <1>3, <3>1 DEF Closes
    <3> QED BY <3>2, <3>3, <3>4, <3>5
  <2>3. StoreGood(n)
    BY <1>1, <1>2, <1>8, <2>1, <2>2, SavedStore
  <2>4. Durable(n)'
    BY <1>2, <1>7, <2>1, <2>2, DurableSaved
  <2> QED BY <1>6, <1>7, <2>3, <2>4, GoodLemma, SentLess
<1>11. CASE OnAck(n, m) /\ ~ Answered(n, m)
  <2>1. UNCHANGED <<cache, disk, alive>>
    BY <1>11 DEF OnAck
  <2>2. StoreGood(n)
    BY <1>1, <2>1, QuietStore
  <2> QED BY <1>6, <1>7, <2>1, <2>2, GoodLemma, SentLess, DurableSame
<1> QED BY <1>9, <1>10, <1>11

\* execute: a job the store does not hold is in no file and was never started, or the
\* hub has closed it and would not send it.
LEMMA ExecuteStep ==
  ASSUME AloneInv, NEW n \in Node, NEW m \in toAgent[n], UNCHANGED closedJobs,
         OnExecute(n, m) \/ OnExecuteFails(n, m)
  PROVE  Good(n)
<1>1. /\ m \in AgentMsg /\ m.job \in Job /\ m.job \notin closedJobs /\ alive[n] = "up"
      /\ busy[n] = 0 /\ cache[n][m.job].state = "none"
  BY Unfold DEF OnExecute, OnExecuteFails, Receiving, Sent, AgentMsg
<1>2. PICK p \in Pruned(cache[n]) :
        \/ OnExecute(n, m) /\ Save(n, WithExecuting(p, m))
        \/ OnExecuteFails(n, m) /\ SaveFails(n, WithExecuting(p, m))
  BY DEF OnExecute, OnExecuteFails
<1> DEFINE s == WithExecuting(p, m)
<1>3. p \in Store /\ \A j \in Job : p[j] = cache[n][j] \/ (p[j] = NoEntry /\ cache[n][j].acked)
  BY Unfold, PrunedLemma
<1>4. s \in Store
  BY <1>1, <1>3, NextStores DEF AloneInv, AloneTypeOK
<1>5. /\ s[m.job].state = "EXECUTING" /\ s[m.job].acked = FALSE
      /\ \A j \in Job \ {m.job} : s[j] = p[j]
  BY <1>1, <1>3 DEF WithExecuting, Store
<1>6. \A j \in Job : Agrees(n, j) /\ Closes(n, j) /\ Began(n, j)
                     /\ cache[n][j] \in Entry /\ disk[n][j] \in Entry
  BY Unfold
<1>7. ~ Done(n)
  BY <1>1, <1>2 DEF OnExecute, OnExecuteFails, Done
<1>8. disk[n][m.job].state = "none" /\ effect[m.job].phase = "none"
  <2>1. disk[n][m.job].state = "none"
    BY <1>1, <1>6, <1>7, EntryLemma DEF Agrees, Closes, SameResult, Final
  <2> QED BY <1>1, <1>6, <2>1 DEF Began
<1>9. toAgent'[n] \subseteq toAgent[n] /\ UNCHANGED toHub
  BY DEF OnExecute, OnExecuteFails, SaveFails, Took, AloneInv, AloneTypeOK, AgentTypeOK, WireTypeOK
<1>10. ASSUME NEW j \in Job \ {m.job}
       PROVE  /\ s[j] = cache[n][j] \/ (s[j] = NoEntry /\ cache[n][j].acked /\ disk[n][j].acked)
              /\ Agrees(n, j) /\ Closes(n, j) /\ Began(n, j)
              /\ NoEntry.state = "none" /\ NoEntry.acked = FALSE
  BY <1>1, <1>3, <1>5, <1>6, NoEntryLemma DEF Agrees
<1>11. CASE OnExecuteFails(n, m) /\ SaveFails(n, s)
  <2> HIDE DEF s
  <2>1. cache'[n] = s /\ alive'[n] = "stopped" /\ UNCHANGED <<disk, busy, effect>>
    BY <1>4, <1>11, SaveTypes DEF OnExecuteFails, AloneInv, AloneTypeOK
  <2>2. Strays(n, s)
    <3>1. ASSUME NEW j \in Job \ {m.job}
          PROVE  /\ disk[n][j].state = "none" => s[j].state = "none"
                 /\ disk[n][j].state = "EXECUTING" => s[j].state = "EXECUTING"
                 /\ disk[n][j].state \in Final =>
                      SameResult(s[j], disk[n][j]) \/ (s[j].state = "none" /\ disk[n][j].acked)
                 /\ s[j].acked => j \in closedJobs
                 /\ j \in closedJobs => s[j].state # "EXECUTING"
      <4>1. CASE s[j] = cache[n][j]
        BY <1>7, <1>10, <4>1 DEF Agrees, Closes
      <4>2. CASE s[j] = NoEntry /\ cache[n][j].acked /\ disk[n][j].acked
        BY <1>10, <4>2 DEF Closes
      <4> QED BY <1>10, <4>1, <4>2
    <3> QED BY <1>1, <1>5, <1>8, <2>1, <3>1 DEF Strays, Final
  <2>3. StoreGood(n)
    BY <1>1, <1>4, <2>1, <2>2, UnsavedStore
  <2>4. RunsOnce'
    BY <2>1 DEF AloneInv, RunsOnce
  <2> QED BY <1>9, <2>1, <2>3, <2>4, GoodLemma, SentLess, DurableSame
<1>12. CASE OnExecute(n, m) /\ Save(n, s)
  <2> HIDE DEF s
  <2>1. cache'[n] = s /\ disk'[n] = s /\ UNCHANGED alive /\ busy'[n] = m.job
    BY <1>4, <1>12, SaveTypes DEF OnExecute, AloneInv, AloneTypeOK, AgentTypeOK
  <2>2. /\ effect'[m.job].phase = "running"
        /\ \A j \in Job \ {m.job} : effect'[j] = effect[j]
    <3>1. effect \in [Job -> Effect] /\ effect' = Started(m.job)
      BY <1>12 DEF OnExecute, AloneInv, AloneTypeOK, AgentTypeOK
    <3> QED BY <1>1, <1>8, <3>1 DEF Started, Effect
  <2>3. Keeps(n, s)
    <3>1. ASSUME NEW j \in Job \ {m.job}
          PROVE  /\ disk[n][j].state \in Final =>
                      SameResult(s[j], disk[n][j]) \/ (s[j].state = "none" /\ disk[n][j].acked)
                 /\ s[j].acked => j \in closedJobs
                 /\ j \in closedJobs => s[j].state # "EXECUTING"
                 /\ j \in closedJobs /\ disk[n][j].state = "none" => s[j].state = "none"
                 /\ effect'[j].phase # "none" => s[j].state # "none" \/ j \in closedJobs
      <4>1. CASE s[j] = cache[n][j]
        BY <1>6, <1>7, <1>10, <2>2, <4>1, EntryLemma DEF Agrees, Closes, Began, SameResult, Final
      <4>2. CASE s[j] = NoEntry /\ cache[n][j].acked /\ disk[n][j].acked
        BY <1>10, <4>2 DEF Closes
      <4> QED BY <1>10, <4>1, <4>2
    <3> QED BY <1>1, <1>5, <1>8, <3>1 DEF Keeps, Final
  <2>4. StoreGood(n)
    BY <1>1, <1>4, <1>5, <2>1, <2>3, SavedStore
  <2>5. RunsOnce'
    BY <2>2 DEF AloneInv, RunsOnce
  <2>6. Durable(n)'
    BY <1>4, <1>9, <2>1, <2>3, DurableSaved
  <2> QED BY <1>9, <2>4, <2>5, <2>6, GoodLemma, SentLess
<1> QED BY <1>2, <1>11, <1>12

\* The executor settles: the running entry becomes a result, and what memory knew more
\* than the file is saved with it.
LEMMA FinishStep ==
  ASSUME AloneInv, NEW n \in Node, NEW o \in Outcomes, UNCHANGED closedJobs,
         Finish(n, o) \/ FinishFails(n, o)
  PROVE  Good(n)
<1> DEFINE s == WithOutcome(n, o)
<1>1. /\ busy[n] \in Job /\ busy[n] # 0 /\ alive[n] # "down"
      /\ o.state \in Final /\ o.state # "none" /\ o.state # "EXECUTING"
  BY Unfold DEF Finish, FinishFails, Outcomes, Final
<1>2. s \in Store
  BY <1>1, NextStores DEF AloneInv, AloneTypeOK
<1>3. /\ s[busy[n]].state = o.state /\ s[busy[n]].acked = cache[n][busy[n]].acked
      /\ \A j \in Job \ {busy[n]} : s[j] = cache[n][j]
  BY <1>1, Unfold DEF WithOutcome, Store
<1>4. /\ cache[n][busy[n]].state = "EXECUTING" /\ disk[n][busy[n]].state = "EXECUTING"
      /\ ~ Done(n)
  BY <1>1, Unfold DEF Runs, Done
<1>5. busy'[n] = 0
  BY DEF Finish, FinishFails, AloneInv, AloneTypeOK, AgentTypeOK
<1>6. \A j \in Job : effect'[j].phase = IF j = busy[n] /\ effect[j].phase = "running"
                                        THEN "ended" ELSE effect[j].phase
  <2>1. effect \in [Job -> Effect] /\ effect' = Ended(busy[n], o)
    BY DEF Finish, FinishFails, AloneInv, AloneTypeOK, AgentTypeOK
  <2> QED BY <1>1, <2>1 DEF Ended
<1>7. RunsOnce'
  BY <1>6 DEF AloneInv, RunsOnce
<1>8. ASSUME NEW j \in Job
      PROVE  /\ Agrees(n, j) /\ Closes(n, j) /\ Began(n, j)
             /\ disk[n][j].state \in {"none", "EXECUTING"} \cup Final
             /\ effect'[j].phase # "none" => effect[j].phase # "none"
  BY <1>6, Unfold, EntryLemma
<1>9. ASSUME NEW j \in Job
      PROVE  /\ disk[n][j].state = "none" => s[j].state = "none"
             /\ disk[n][j].state = "EXECUTING" => s[j].state \in {"EXECUTING"} \cup Final
             /\ disk[n][j].state \in Final =>
                  SameResult(s[j], disk[n][j]) \/ (s[j].state = "none" /\ disk[n][j].acked)
             /\ s[j].acked => j \in closedJobs
             /\ j \in closedJobs => s[j].state # "EXECUTING"
  <2>1. CASE j = busy[n]
    BY <1>1, <1>3, <1>4, <1>8, <2>1 DEF Closes, Final
  <2>2. CASE j # busy[n]
    BY <1>3, <1>4, <1>8, <2>2 DEF Agrees, Closes
  <2> QED BY <2>1, <2>2
<1>10. CASE Finish(n, o)
  <2>1. cache'[n] = s /\ disk'[n] = s /\ UNCHANGED <<alive, toAgent>>
    BY <1>2, <1>10, SaveTypes DEF Finish, AloneInv, AloneTypeOK
  <2>2. \A r \in toHub'[n] : r \in toHub[n] \/ r \in Receipts(s)
    <3>1. toHub \in [Node -> SUBSET Receipt] /\ toHub' = Uploaded(toHub, n, Receipts(s))
      BY <1>10 DEF Finish, AloneInv, AloneTypeOK, AgentTypeOK, WireTypeOK
    <3> QED BY <1>2, <3>1, ReceiptsLemma, UploadedLemma
  <2> HIDE DEF s
  <2>3. Keeps(n, s)
    <3> SUFFICES ASSUME NEW j \in Job
                 PROVE  effect'[j].phase # "none" => s[j].state # "none" \/ j \in closedJobs
      BY <1>9 DEF Keeps
    <3> QED BY <1>8, <1>9 DEF Began, Closes, SameResult, Final
  <2>4. StoreGood(n)
    BY <1>2, <1>5, <2>1, <2>3, SavedStore
  <2>5. Durable(n)'
    BY <1>2, <2>1, <2>2, <2>3, DurableSaved
  <2> QED BY <1>7, <2>1, <2>4, <2>5, GoodLemma, SentLess
<1>11. CASE FinishFails(n, o)
  <2>1. /\ cache'[n] = s /\ alive'[n] = "stopped" /\ UNCHANGED <<disk, toHub>>
        /\ toAgent'[n] = {}
    BY <1>2, <1>11, SaveTypes DEF FinishFails, AloneInv, AloneTypeOK
  <2> HIDE DEF s
  <2>2. Strays(n, s)
    BY <1>5, <1>8, <1>9 DEF Strays
  <2>3. StoreGood(n)
    BY <1>2, <1>5, <2>1, <2>2, UnsavedStore
  <2> QED BY <1>7, <2>1, <2>3, GoodLemma, SentLess, DurableSame
<1> QED BY <1>10, <1>11

\* A process starts: what it loads keeps every entry that is not acknowledged.
LEMMA StartStep ==
  ASSUME AloneInv, NEW n \in Node, UNCHANGED closedJobs, Start(n)
  PROVE  Good(n)
<1>1. PICK s \in Pruned(Loaded(disk[n])) : Save(n, s)
  BY DEF Start
<1> DEFINE l == Loaded(disk[n])
<1>2. l \in Store /\ s \in Store
  BY Unfold, LoadedLemma, PrunedLemma
<1>3. cache'[n] = s /\ disk'[n] = s
  BY <1>1, <1>2, SaveTypes DEF AloneInv, AloneTypeOK
<1>4. alive'[n] = "up" /\ busy[n] = 0 /\ UNCHANGED <<busy, effect, toHub, toAgent>>
  BY Unfold DEF Start, Runs, wireVars, AloneInv, AloneTypeOK, AgentTypeOK
<1>5. ASSUME NEW j \in Job
      PROVE  /\ s[j] = l[j] \/ (s[j] = NoEntry /\ disk[n][j].acked)
             /\ l[j].acked = disk[n][j].acked
             /\ IF disk[n][j].state = "EXECUTING" THEN l[j].state = "UNKNOWN" ELSE l[j] = disk[n][j]
             /\ Closes(n, j) /\ Began(n, j)
             /\ disk[n][j].state \in {"none", "EXECUTING"} \cup Final
  BY <1>2, Unfold, LoadedLemma, PrunedLemma, EntryLemma
<1>6. Keeps(n, s)
  <2> SUFFICES ASSUME NEW j \in Job
               PROVE  /\ disk[n][j].state \in Final =>
                           SameResult(s[j], disk[n][j]) \/ (s[j].state = "none" /\ disk[n][j].acked)
                      /\ s[j].acked => j \in closedJobs
                      /\ j \in closedJobs => s[j].state # "EXECUTING"
                      /\ j \in closedJobs /\ disk[n][j].state = "none" => s[j].state = "none"
                      /\ effect'[j].phase # "none" => s[j].state # "none" \/ j \in closedJobs
    BY DEF Keeps
  <2> HIDE DEF l
  <2>1. CASE s[j] = NoEntry /\ disk[n][j].acked
    BY <1>5, <2>1, NoEntryLemma DEF Closes
  <2>2. CASE s[j] = l[j]
    BY <1>4, <1>5, <2>2 DEF Closes, Began, SameResult, Final
  <2> QED BY <1>5, <2>1, <2>2
<1>7. StoreGood(n)
  BY <1>2, <1>3, <1>4, <1>6, SavedStore
<1>8. Durable(n)'
  BY <1>2, <1>3, <1>4, <1>6, DurableSaved
<1>9. RunsOnce'
  BY <1>4 DEF AloneInv, RunsOnce
<1> QED BY <1>4, <1>7, <1>8, <1>9, GoodLemma, SentLess

\* A process exits, and leaves what the file says.
LEMMA ExitStep ==
  ASSUME AloneInv, NEW n \in Node, UNCHANGED closedJobs, Exit(n)
  PROVE  Good(n)
<1>1. /\ cache'[n] = disk[n] /\ disk'[n] = disk[n] /\ busy'[n] = 0 /\ alive'[n] = "down"
      /\ toAgent'[n] = {} /\ UNCHANGED <<disk, toHub>>
  BY DEF Exit, CloseSocket, AloneInv, AloneTypeOK, AgentTypeOK, WireTypeOK
<1>2. \A j \in Job : /\ effect'[j].phase # "none" => effect[j].phase # "none"
                     /\ effect'[j].phase = "again" => effect[j].phase = "again"
  <2>1. effect \in [Job -> Effect]
    BY DEF AloneInv, AloneTypeOK, AgentTypeOK
  <2>2. CASE busy[n] = 0
    BY <2>2 DEF Exit
  <2>3. CASE busy[n] # 0
    <3>1. busy[n] \in Job
      BY <2>3, Unfold
    <3>2. effect' = [effect EXCEPT ![busy[n]].phase = IF @ = "running" THEN "lost" ELSE @]
      BY <2>3 DEF Exit
    <3>3. effect'[busy[n]].phase = IF effect[busy[n]].phase = "running" THEN "lost"
                                   ELSE effect[busy[n]].phase
      BY <2>1, <3>1, <3>2 DEF Effect
    <3>4. \A j \in Job \ {busy[n]} : effect'[j] = effect[j]
      BY <2>1, <3>1, <3>2
    <3> QED BY <3>3, <3>4
  <2> QED BY <2>2, <2>3
<1>3. ASSUME NEW j \in Job PROVE JobInv(n, j)'
  <2>1. disk[n][j] \in Entry /\ Closes(n, j) /\ Began(n, j)
    BY Unfold
  <2>2. Agrees(n, j)'
    BY <1>1, <2>1, EntryLemma DEF Agrees, SameResult, Final
  <2>3. Closes(n, j)' /\ Began(n, j)'
    BY <1>1, <1>2, <2>1 DEF Closes, Began
  <2> QED BY <2>2, <2>3 DEF JobInv
<1>4. Runs(n)' /\ Kept(n)
  BY <1>1 DEF Runs, Kept
<1>5. RunsOnce'
  BY <1>2 DEF AloneInv, RunsOnce
<1>6. StoreGood(n)
  BY <1>3, <1>4 DEF StoreGood
<1> QED BY <1>1, <1>5, <1>6, GoodLemma, SentLess, DurableSame

-----------------------------------------------------------------------------
(* The hub and the socket *)

\* Sockets close and open, and the hub sends an execute of a job it has not closed.
LEMMA ChannelStep ==
  ASSUME AloneInv, NEW n \in Node,
         \/ Channel(n) \/ HubForgets(n)
         \/ \E j \in Job : \E lease \in SentLease[j] : HubExecutes(n, j, lease)
  PROVE  Good(n)
<1>1. UNCHANGED <<agentVars, closedJobs>>
  BY DEF Channel, HubForgets, HubExecutes, Sends
<1>2. StoreGood(n) /\ RunsOnce'
  BY <1>1, QuietStore DEF agentVars, AloneInv, RunsOnce
<1>3. toHub'[n] \subseteq toHub[n]
  BY DEF Channel, Register, HubSocketClosed, FrameLost, AgentSocketClosed, HubForgets,
         HubExecutes, Sends, AloneInv, AloneTypeOK, AgentTypeOK, WireTypeOK
<1>4. Durable(n)'
  BY <1>1, <1>3, DurableSame DEF agentVars
<1>5. CASE Channel(n) \/ HubForgets(n)
  <2>1. toAgent'[n] \subseteq toAgent[n]
    BY <1>5 DEF Channel, Register, HubSocketClosed, FrameLost, AgentSocketClosed, HubForgets,
                AloneInv, AloneTypeOK, AgentTypeOK, WireTypeOK
  <2> QED BY <1>1, <1>2, <1>4, <2>1, GoodLemma, SentLess
<1>6. ASSUME NEW j \in Job, NEW lease \in SentLease[j], HubExecutes(n, j, lease)
      PROVE  Good(n)
  <2> DEFINE m == [type |-> "execute", job |-> j, lease |-> lease]
  <2>1. {m} \in SUBSET AgentMsg /\ toAgent \in [Node -> SUBSET AgentMsg]
    BY SentLeaseAssumption DEF AgentMsg, Lease, AloneInv, AloneTypeOK, AgentTypeOK, WireTypeOK
  <2>2. \A k \in toAgent'[n] : k \in toAgent[n] \/ k = m
    BY <1>6, <2>1, SentLemma DEF HubExecutes, Sends
  <2>3. Sent(n)'
    BY <1>1, <1>6, <2>2, Unfold DEF Sent, HubExecutes
  <2> QED BY <1>2, <1>4, <2>3, GoodLemma
<1> QED BY <1>5, <1>6

\* It takes a receipt, which is in the file, and closes the job.
LEMMA TakesStep ==
  ASSUME AloneInv, NEW n \in Node, NEW r \in toHub[n], HubTakes(n, r)
  PROVE  Good(n)
<1>1. /\ UNCHANGED agentVars /\ closedJobs \subseteq closedJobs'
      /\ closedJobs' \subseteq closedJobs \cup {r.job}
      /\ r \in Receipt /\ r.job \in Job /\ r.state \in Final
  BY Unfold DEF HubTakes, Receipt, ReceiptState, Final
<1>2. toHub'[n] \subseteq toHub[n]
  BY DEF HubTakes, AloneInv, AloneTypeOK, AgentTypeOK, WireTypeOK
<1>3. Durable(n)'
  BY <1>1, <1>2, DurableSame DEF agentVars
<1>4. RunsOnce' /\ Kept(n) /\ Runs(n)'
  BY <1>1, Unfold DEF agentVars, AloneInv, RunsOnce, Kept, Runs
<1>5. ASSUME NEW j \in Job PROVE JobInv(n, j)'
  <2>1. Agrees(n, j) /\ Closes(n, j) /\ Began(n, j) /\ Durable(n)
    BY Unfold
  <2>2. Agrees(n, j)' /\ Began(n, j)'
    BY <1>1, <2>1 DEF agentVars, Agrees, Done, Began
  <2>3. j = r.job => cache[n][j].state # "EXECUTING" /\ disk[n][j].state # "EXECUTING"
    <3>1. CASE r.job \in closedJobs
      BY <2>1, <3>1 DEF Closes
    <3>2. CASE r.job \notin closedJobs
      <4>1. disk[n][r.job].state \in Final
        BY <1>1, <2>1, <3>2 DEF Durable, AsReceipt
      <4> QED BY <2>1, <4>1 DEF Agrees, SameResult, Final
    <3> QED BY <3>1, <3>2
  <2>4. Closes(n, j)'
    BY <1>1, <2>1, <2>3 DEF agentVars, Closes
  <2> QED BY <2>2, <2>4 DEF JobInv
<1>6. Sent(n)'
  <2> DEFINE ack == [type |-> "ack", job |-> r.job, lease |-> r.lease]
             sent == Delivered(toAgent, n, {ack})
  <2>1. {ack} \in SUBSET AgentMsg /\ toAgent \in [Node -> SUBSET AgentMsg]
    BY <1>1 DEF AgentMsg, Receipt, AloneInv, AloneTypeOK, AgentTypeOK, WireTypeOK
  <2>2. sent \in [Node -> SUBSET AgentMsg] /\ \A m \in sent[n] : m \in toAgent[n] \/ m = ack
    BY <2>1, SentLemma
  <2>3. CASE UNCHANGED <<toAgent, closedJobs>>
    BY <2>3, Unfold DEF Sent
  <2>4. CASE /\ toAgent' = [sent EXCEPT ![n] = {m \in sent[n] : m.type = "ack" \/ m.job # r.job}]
             /\ closedJobs' = closedJobs \cup {r.job}
    <3>1. \A m \in toAgent'[n] : m \in sent[n] /\ (m.type = "ack" \/ m.job # r.job)
      <4> HIDE DEF sent
      <4> QED BY <2>2, <2>4
    <3>2. \A m \in toAgent'[n] : (m \in toAgent[n] \/ m = ack) /\ (m.type = "ack" \/ m.job # r.job)
      BY <2>2, <3>1
    <3>3. Sent(n)
      BY Unfold
    <3>4. ASSUME NEW m \in toAgent'[n]
          PROVE  /\ m.type = "ack" => m.job \in closedJobs'
                 /\ m.type = "execute" => m.job \notin closedJobs'
      <4>1. CASE m = ack
        BY <2>4, <4>1
      <4>2. CASE m \in toAgent[n] /\ (m.type = "ack" \/ m.job # r.job)
        <5> HIDE DEF sent
        <5> QED BY <2>4, <3>3, <4>2 DEF Sent
      <4> QED BY <3>2, <4>1, <4>2
    <3> QED BY <3>4 DEF Sent
  <2> QED BY <2>3, <2>4 DEF HubTakes
<1> QED BY <1>3, <1>4, <1>5, <1>6, GoodLemma DEF StoreGood

-----------------------------------------------------------------------------
(* The theorems *)

\* Every step of an agent, of its channel and of the hub leaves it true.
LEMMA NodeStep ==
  ASSUME AloneInv, NEW n \in Node,
         \/ AgentStep(n) /\ UNCHANGED closedJobs
         \/ AgentFault(n) /\ UNCHANGED closedJobs
         \/ Channel(n)
         \/ HubForgets(n)
         \/ \E j \in Job : \E lease \in SentLease[j] : HubExecutes(n, j, lease)
         \/ \E r \in toHub[n] : HubTakes(n, r)
  PROVE  Good(n)
BY QuietSteps, RefuseStep, AckStep, ExecuteStep, FinishStep, StartStep, ExitStep, ChannelStep,
   TakesStep DEF AgentStep, AgentFault

\* The invariant holds at the start.
LEMMA InvInit == AloneInit => AloneInv
<1> SUFFICES ASSUME AloneInit PROVE AloneInv
  OBVIOUS
<1>1. AloneTypeOK
  BY NoEntryLemma DEF AloneInit, WireInit, AgentInit, NoEffect, AloneTypeOK, AgentTypeOK,
                      WireTypeOK, Store, Effect
<1>2. RunsOnce
  BY DEF AloneInit, AgentInit, NoEffect, RunsOnce
<1>3. ASSUME NEW n \in Node PROVE NodeInv(n)
  BY NoEntryLemma DEF AloneInit, WireInit, AgentInit, NoEffect, NodeInv, Runs, Sent, Durable,
                      JobInv, Agrees, Closes, Began, Final
<1> QED BY <1>1, <1>2, <1>3 DEF AloneInv

\* What every step from a consistent state does, of one agent.
LEMMA InvStep ==
  ASSUME OneNode, AloneInv, [AloneNext]_aloneVars
  PROVE  AloneInv' /\ \A n \in Node : Kept(n)
<1>1. AloneTypeOK'
  BY TypeStep DEF AloneInv
<1>2. CASE AloneNext
  <2>1. PICK n \in Node : Good(n)
    BY <1>2, NodeStep DEF AloneNext
  <2>2. \A k \in Node : k = n
    BY DEF OneNode
  <2>3. \A k \in Node : NodeInv(k)' /\ Kept(k)
    BY <2>1, <2>2 DEF Good
  <2> QED BY <1>1, <2>1, <2>3 DEF AloneInv, Good
<1>3. CASE UNCHANGED aloneVars
  <2>1. UNCHANGED <<toHub, toAgent, cache, disk, busy, alive, effect, closedJobs>>
    BY <1>3 DEF aloneVars, wireVars, agentVars
  <2>2. RunsOnce'
    BY <2>1 DEF AloneInv, RunsOnce
  <2>3. ASSUME NEW n \in Node PROVE NodeInv(n)' /\ Kept(n)
    <3>1. StoreGood(n)
      BY <2>1, QuietStore
    <3>2. Sent(n)' /\ Durable(n)'
      BY <2>1, SentLess, DurableSame
    <3> QED BY <2>2, <3>1, <3>2, GoodLemma DEF Good
  <2> QED BY <1>1, <2>2, <2>3 DEF AloneInv
<1> QED BY <1>2, <1>3

\* The invariant holds always.
LEMMA InvAlways == ASSUME OneNode PROVE AloneSpec => []AloneInv
<1>1. AloneInv /\ [AloneNext]_aloneVars => AloneInv'
  BY InvStep
<1> QED BY <1>1, InvInit, PTL DEF AloneSpec

\* The variables hold what their comments say.
THEOREM AgentTypesHold == ASSUME OneNode PROVE AloneSpec => []AgentTypeOK
<1>1. AloneInv => AgentTypeOK
  BY DEF AloneInv, AloneTypeOK
<1> QED BY <1>1, InvAlways, PTL

\* One agent starts the executor of a job at most once, whatever is repeated or sent
\* under another lease, and whatever saves fail or processes exit in between.
THEOREM JobRunsOnce == ASSUME OneNode PROVE AloneSpec => []RunsOnce
<1>1. AloneInv => RunsOnce
  BY DEF AloneInv
<1> QED BY <1>1, InvAlways, PTL

\* A receipt the hub may still read is in the agent's file, unless the hub has closed
\* its job: persist() comes before every send of a new result.
THEOREM ReceiptsAreDurable == ASSUME OneNode PROVE AloneSpec => []ReceiptIsDurable
<1>1. AloneInv => ReceiptIsDurable
  BY DEF AloneInv, NodeInv, Durable, ReceiptIsDurable
<1> QED BY <1>1, InvAlways, PTL

\* No step loses an unacknowledged result or changes it: not a full store, a failed
\* save, a crash or the start after it.
THEOREM ResultsAreKept == ASSUME OneNode PROVE AloneSpec => UnackedIsKept
<1>1. AloneInv /\ [AloneNext]_aloneVars =>
        [\A n \in Node : \A j \in Unacked(disk[n]) :
           disk'[n][j] \in {disk[n][j], [disk[n][j] EXCEPT !.acked = TRUE]}]_aloneVars
  BY InvStep DEF Kept
<1> QED BY <1>1, InvAlways, PTL DEF AloneSpec, UnackedIsKept

=============================================================================
