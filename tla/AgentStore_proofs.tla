-------------------------- MODULE AgentStore_proofs --------------------------
(***************************************************************************)
(* What the operators of module Agent return and preserve, and that every  *)
(* action of an agent keeps its types: the lemmas that the theorems about  *)
(* one agent and about the whole job path rest on.                         *)
(***************************************************************************)
EXTENDS Agent, TLAPS

\* A save has failed and none will follow: memory may be ahead of the file.
Done(n) == alive[n] = "stopped" /\ busy[n] = 0

\* Two entries hold the same result, which the first may know to be acknowledged.
SameResult(c, d) ==
  /\ c.state = d.state /\ c.lease = d.lease /\ c.result = d.result
  /\ d.acked => c.acked

-----------------------------------------------------------------------------
(* The operators of the store and of the wire *)

(* A job the store does not hold. *)
LEMMA NoEntryLemma == NoEntry \in Entry /\ NoEntry.state = "none" /\ NoEntry.acked = FALSE
BY DEF NoEntry, Entry, Lease

(* The fields of an entry. *)
LEMMA EntryLemma ==
  ASSUME NEW e \in Entry
  PROVE  /\ e.state \in {"none", "EXECUTING"} \cup Final
         /\ e.lease \in Lease /\ e.result \in Result \cup {NoResult} /\ e.acked \in BOOLEAN
         /\ e = [state |-> e.state, lease |-> e.lease, result |-> e.result, acked |-> e.acked]
BY DEF Entry

\* Pruning takes acknowledged entries only.
LEMMA PrunedLemma ==
  ASSUME NEW store \in Store, NEW s \in Pruned(store)
  PROVE  /\ s \in Store
         /\ \A j \in Job : s[j] = store[j] \/ (s[j] = NoEntry /\ store[j].acked)
<1>1. CASE s = store
  BY <1>1
<1>2. CASE \E gone \in SUBSET {j \in Held(store) : store[j].acked} : s = Without(store, gone)
  <2>1. PICK gone \in SUBSET {j \in Held(store) : store[j].acked} : s = Without(store, gone)
    BY <1>2
  <2>2. s = [j \in Job |-> IF j \in gone THEN NoEntry ELSE store[j]]
    BY <2>1 DEF Without
  <2>3. \A j \in Job : s[j] = IF j \in gone THEN NoEntry ELSE store[j]
    BY <2>2
  <2>4. s \in Store
    BY <2>2, NoEntryLemma DEF Store
  <2> QED BY <2>1, <2>3, <2>4
<1>3. CASE s # store
  <2>1. s \in {Without(store, gone) : gone \in
                {g \in SUBSET {j \in Held(store) : store[j].acked} :
                   \/ Cardinality(Held(store) \ g) = PruneTo
                   \/ Cardinality(Held(store) \ g) > PruneTo
                      /\ \A j \in Held(store) \ g : ~ store[j].acked}}
    BY <1>3, Zenon DEF Pruned
  <2> QED BY <2>1, <1>2, Zenon
<1> QED BY <1>1, <1>3

(* A starting process changes the entries that were running, and no other. *)
LEMMA LoadedLemma ==
  ASSUME NEW store \in Store
  PROVE  /\ Loaded(store) \in Store
         /\ \A j \in Job : /\ Loaded(store)[j].acked = store[j].acked
                           /\ IF store[j].state = "EXECUTING" THEN Loaded(store)[j].state = "UNKNOWN"
                              ELSE Loaded(store)[j] = store[j]
BY EntryLemma DEF Loaded, Store, Entry, Final

(* A receipt repeats a final entry. *)
LEMMA ReceiptsLemma ==
  ASSUME NEW store \in Store
  PROVE  /\ Receipts(store) \in SUBSET Receipt
         /\ \A r \in Receipts(store) :
              r.job \in Job /\ AsReceipt(store, r.job) = r /\ store[r.job].state \in Final
BY DEF Receipts, AsReceipt, Unacked, Store, Entry, Receipt, ReceiptState, Final

(* What reaches the hub was in flight or is new. *)
LEMMA UploadedLemma ==
  ASSUME NEW n \in Node, toHub \in [Node -> SUBSET Receipt], NEW rs \in SUBSET Receipt
  PROVE  /\ Uploaded(toHub, n, rs) \in [Node -> SUBSET Receipt]
         /\ \A r \in Uploaded(toHub, n, rs)[n] : r \in toHub[n] \/ r \in rs
BY DEF Uploaded

(* What reaches the agent was in flight or is new. *)
LEMMA SentLemma ==
  ASSUME NEW n \in Node, toAgent \in [Node -> SUBSET AgentMsg], NEW ms \in SUBSET AgentMsg
  PROVE  /\ Delivered(toAgent, n, ms) \in [Node -> SUBSET AgentMsg]
         /\ \A m \in Delivered(toAgent, n, ms)[n] : m \in toAgent[n] \/ m \in ms
BY DEF Delivered

-----------------------------------------------------------------------------
(* Types *)

\* The next stores of the handlers are stores.
LEMMA NextStores ==
  ASSUME AgentTypeOK, NEW n \in Node
  PROVE  /\ cache[n] \in Store /\ disk[n] \in Store
         /\ Receipts(cache[n]) \in SUBSET Receipt
         /\ \A m \in AgentMsg : Acked(n, m) \in Store
         /\ \A m \in AgentMsg, s \in Store : WithExecuting(s, m) \in Store
         /\ busy[n] # 0 => \A o \in Outcomes : WithOutcome(n, o) \in Store
<1>1. cache[n] \in Store /\ disk[n] \in Store
  BY DEF AgentTypeOK
<1>2. ASSUME NEW m \in AgentMsg PROVE Acked(n, m) \in Store
  <2>1. m.job \in Job
    BY DEF AgentMsg
  <2>2. \A e \in Entry : [e EXCEPT !.acked = TRUE] \in Entry
    BY DEF Entry
  <2>3. cache[n][m.job] \in Entry
    BY <1>1, <2>1 DEF Store
  <2> QED BY <1>1, <2>1, <2>2, <2>3 DEF Acked, Store
<1>3. ASSUME NEW m \in AgentMsg, NEW s \in Store PROVE WithExecuting(s, m) \in Store
  BY <1>3 DEF WithExecuting, Store, Entry, AgentMsg
<1>4. ASSUME busy[n] # 0, NEW o \in Outcomes PROVE WithOutcome(n, o) \in Store
  <2>1. busy[n] \in Job
    BY <1>4 DEF AgentTypeOK
  <2> QED BY <1>1, <2>1 DEF WithOutcome, Store, Entry, Outcomes, Final
<1> QED BY <1>1, <1>2, <1>3, <1>4, ReceiptsLemma

(* What a save leaves, and what a failed one leaves. *)
LEMMA SaveTypes ==
  ASSUME AgentTypeOK, NEW n \in Node, NEW s \in Store
  PROVE  /\ Save(n, s) => /\ cache' \in [Node -> Store] /\ disk' \in [Node -> Store]
                          /\ cache'[n] = s /\ disk'[n] = s
         /\ SaveFails(n, s) =>
              /\ cache' \in [Node -> Store] /\ disk' \in [Node -> Store]
              /\ cache'[n] = s /\ disk' = disk
              /\ alive' \in [Node -> {"up", "stopped", "down"}] /\ alive'[n] = "stopped"
              /\ conn' \in [Node -> {"closed", "opening", "ready"}]
              /\ toAgent' \in [Node -> SUBSET AgentMsg] /\ toAgent'[n] = {}
BY DEF Save, SaveFails, AgentTypeOK, WireTypeOK

(* A run that starts, ends or is lost. *)
LEMMA EffectTypes ==
  ASSUME AgentTypeOK, NEW j \in Job
  PROVE  /\ Started(j) \in [Job -> Effect]
         /\ \A o \in Outcomes : Ended(j, o) \in [Job -> Effect]
         /\ [effect EXCEPT ![j].phase = IF @ = "running" THEN "lost" ELSE @] \in [Job -> Effect]
BY DEF AgentTypeOK, Started, Ended, Effect, Outcomes

\* Unfolds the type of one step's result.
TypeParts ==
  /\ peers   \in [Node -> {"none", "live", "closed"}]
  /\ conn    \in [Node -> {"closed", "opening", "ready"}]
  /\ toHub   \in [Node -> SUBSET Receipt]
  /\ toAgent \in [Node -> SUBSET AgentMsg]
  /\ cache \in [Node -> Store]
  /\ disk  \in [Node -> Store]
  /\ busy  \in [Node -> Job \cup {0}]
  /\ alive \in [Node -> {"up", "stopped", "down"}]
  /\ effect \in [Job -> Effect]

(* The type invariant, unfolded. *)
LEMMA TypePartsLemma == AgentTypeOK <=> TypeParts
BY DEF AgentTypeOK, WireTypeOK, TypeParts

(* The handlers of messages. *)
LEMMA HandlerTypes ==
  ASSUME AgentTypeOK, NEW n \in Node, NEW m \in toAgent[n],
         OnAck(n, m) \/ OnExecuteAgain(n, m) \/ OnExecute(n, m) \/ OnEquivocation(n, m)
         \/ OnRefuse(n, m) \/ OnAckFails(n, m) \/ OnExecuteFails(n, m)
  PROVE  AgentTypeOK'
<1> SUFFICES TypeParts'
  BY TypePartsLemma, PTL
<1>1. TypeParts
  BY TypePartsLemma
<1>2. m \in AgentMsg /\ m.job \in Job
  BY <1>1 DEF TypeParts, AgentMsg
<1>3. cache[n] \in Store /\ Acked(n, m) \in Store
  BY <1>2, NextStores
<1>4. \A s \in Store : WithExecuting(s, m) \in Store
  BY <1>2, NextStores
<1>5. \A s \in Pruned(cache[n]) : s \in Store
  BY <1>3, PrunedLemma
<1>6. Started(m.job) \in [Job -> Effect]
  BY <1>2, EffectTypes
<1>7. CASE OnAck(n, m)
  <2>1. cache' \in [Node -> Store] /\ disk' \in [Node -> Store]
    BY <1>1, <1>3, <1>7, SaveTypes DEF OnAck, TypeParts
  <2> QED BY <1>1, <1>7, <2>1 DEF OnAck, Took, TypeParts
<1>8. CASE OnExecuteAgain(n, m)
  <2>1. cache[n][m.job].state \in Final => {AsReceipt(cache[n], m.job)} \in SUBSET Receipt
    BY <1>2, <1>3 DEF AsReceipt, Store, Entry, Final, Receipt, ReceiptState
  <2>2. toHub' \in [Node -> SUBSET Receipt]
    BY <1>1, <1>8, <2>1, UploadedLemma DEF OnExecuteAgain, TypeParts
  <2> QED BY <1>1, <1>8, <2>2 DEF OnExecuteAgain, Took, TypeParts, agentVars
<1>9. CASE OnExecute(n, m)
  <2>1. PICK s \in Pruned(cache[n]) : Save(n, WithExecuting(s, m))
    BY <1>9 DEF OnExecute
  <2>2. cache' \in [Node -> Store] /\ disk' \in [Node -> Store]
    BY <1>4, <1>5, <2>1, SaveTypes
  <2> QED BY <1>1, <1>2, <1>6, <1>9, <2>2 DEF OnExecute, Took, TypeParts
<1>10. CASE OnEquivocation(n, m)
  BY <1>1, <1>10 DEF OnEquivocation, CloseSocket, TypeParts, agentVars
<1>11. CASE OnRefuse(n, m)
  BY <1>1, <1>5, <1>11 DEF OnRefuse, CloseSocket, TypeParts
<1>12. CASE OnAckFails(n, m)
  <2>1. SaveFails(n, Acked(n, m))
    BY <1>12 DEF OnAckFails
  <2> QED BY <1>1, <1>3, <1>12, <2>1, SaveTypes DEF OnAckFails, TypeParts
<1>13. CASE OnExecuteFails(n, m)
  <2>1. PICK s \in Pruned(cache[n]) : SaveFails(n, WithExecuting(s, m))
    BY <1>13 DEF OnExecuteFails
  <2> QED BY <1>1, <1>4, <1>5, <1>13, <2>1, SaveTypes DEF OnExecuteFails, TypeParts
<1> QED BY <1>7, <1>8, <1>9, <1>10, <1>11, <1>12, <1>13

(* Timers, executors and the process itself. *)
LEMMA ProcessTypes ==
  ASSUME AgentTypeOK, NEW n \in Node,
         \/ Welcome(n) \/ Resend(n) \/ Start(n) \/ Stop(n) \/ Exit(n)
         \/ \E o \in Outcomes : Finish(n, o) \/ FinishFails(n, o)
  PROVE  AgentTypeOK'
<1> SUFFICES TypeParts'
  BY TypePartsLemma, PTL
<1>1. TypeParts
  BY TypePartsLemma
<1>2. cache[n] \in Store /\ disk[n] \in Store /\ Receipts(cache[n]) \in SUBSET Receipt
  BY NextStores
<1>3. CASE Welcome(n) \/ Resend(n)
  <2>1. toHub' \in [Node -> SUBSET Receipt]
    BY <1>1, <1>2, <1>3, UploadedLemma DEF Welcome, Resend, TypeParts
  <2> QED BY <1>1, <1>3, <2>1 DEF Welcome, Resend, TypeParts, agentVars
<1>4. CASE Start(n)
  <2>1. PICK s \in Pruned(Loaded(disk[n])) : Save(n, s)
    BY <1>4 DEF Start
  <2>2. s \in Store
    BY <1>2, LoadedLemma, PrunedLemma
  <2>3. cache' \in [Node -> Store] /\ disk' \in [Node -> Store]
    BY <2>1, <2>2, SaveTypes
  <2> QED BY <1>1, <1>4, <2>3 DEF Start, TypeParts, wireVars
<1>5. CASE Stop(n)
  BY <1>1, <1>5 DEF Stop, CloseSocket, TypeParts
<1>6. CASE Exit(n)
  <2>1. effect' \in [Job -> Effect]
    <3>1. CASE busy[n] = 0
      BY <1>1, <1>6, <3>1 DEF Exit, TypeParts
    <3>2. CASE busy[n] # 0
      <4>1. busy[n] \in Job
        BY <1>1, <3>2 DEF TypeParts
      <4> QED BY <1>6, <3>2, <4>1, EffectTypes DEF Exit
    <3> QED BY <3>1, <3>2
  <2> QED BY <1>1, <1>2, <1>6, <2>1 DEF Exit, CloseSocket, TypeParts
<1>7. ASSUME NEW o \in Outcomes, Finish(n, o) \/ FinishFails(n, o)
      PROVE  TypeParts'
  <2>1. busy[n] # 0 /\ busy[n] \in Job
    BY <1>1, <1>7 DEF Finish, FinishFails, TypeParts
  <2>2. WithOutcome(n, o) \in Store /\ Ended(busy[n], o) \in [Job -> Effect]
    BY <2>1, NextStores, EffectTypes
  <2>3. CASE Finish(n, o)
    <3>1. cache' \in [Node -> Store] /\ disk' \in [Node -> Store]
      BY <2>2, <2>3, SaveTypes DEF Finish
    <3>2. toHub' \in [Node -> SUBSET Receipt]
      BY <1>1, <2>2, <2>3, ReceiptsLemma, UploadedLemma DEF Finish, TypeParts
    <3> QED BY <1>1, <2>2, <2>3, <3>1, <3>2 DEF Finish, TypeParts
  <2>4. CASE FinishFails(n, o)
    <3>1. SaveFails(n, WithOutcome(n, o))
      BY <2>4 DEF FinishFails
    <3> QED BY <1>1, <2>2, <2>4, <3>1, SaveTypes DEF FinishFails, TypeParts
  <2> QED BY <1>7, <2>3, <2>4
<1> QED BY <1>3, <1>4, <1>5, <1>6, <1>7

\* Every action of an agent.
LEMMA AgentTypes ==
  ASSUME AgentTypeOK, NEW n \in Node, AgentStep(n) \/ AgentFault(n)
  PROVE  AgentTypeOK'
BY HandlerTypes, ProcessTypes DEF AgentStep, AgentFault

=============================================================================
