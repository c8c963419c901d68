--------------------------- MODULE HubAgent_proofs --------------------------
(***************************************************************************)
(* Proofs about the coordinator of Fabric.tla, for any number of agents,   *)
(* principals, keys and retained jobs, and about the whole job path of     *)
(* HubAgent.tla: the hub and the agents keep the contract of a job, across *)
(* crashes of either side, lost and repeated messages, refused writes and  *)
(* abandoned jobs.                                                         *)
(*                                                                         *)
(* Every step changes the jobs in one of five ways.  A lemma per way shows *)
(* that the jobs stay consistent (JobsInv) and that nothing already        *)
(* promised is taken back (Keeps); ScheduleLemma carries both through the  *)
(* loop of schedule() and through its suspensions.                         *)
(*                                                                         *)
(* PathInv relates the two ends.  A step of an agent n leaves the jobs     *)
(* alone: NodeStep(n) lists what it may do to its stores and messages, one *)
(* lemma per action shows that it does no more, and NodeKeeps that PathInv *)
(* survives it.  A step of the hub or of the channel leaves the agents     *)
(* alone: HubMove lists what it may do to the jobs, and HubKeeps shows the *)
(* same of it.                                                             *)
(***************************************************************************)
EXTENDS HubAgent, AgentStore_proofs

-----------------------------------------------------------------------------
(* The coordinator.                                                        *)

Open == {"ASSIGNED", "UNKNOWN"}

JobShape(js) ==
  \A j \in Job :
    /\ js[j].state \in {"absent", "QUEUED"} => js[j].node = NoNode /\ js[j].lease = 0
    /\ js[j].state \in Open => js[j].node \in Node

SlotsDistinct(js) ==
  \A i, j \in Job :
    js[i].state \in Open /\ js[j].state \in Open /\ js[i].node = js[j].node => i = j

KeysDistinct(js) ==
  \A i, j \in Job :
    /\ js[i].state # "absent" /\ js[j].state # "absent"
    /\ js[i].owner = js[j].owner
    /\ js[i].key = js[j].key
    /\ js[i].key # NoKey
    => i = j

JobsInv(js) ==
  /\ js \in [Job -> JobRecord]
  /\ JobShape(js)
  /\ SlotsDistinct(js)
  /\ KeysDistinct(js)

(* The job a suspended schedule() asks about is still queued, the agents    *)
(* it was told to be free still are, and the receipt it will acknowledge   *)
(* is recorded.                                                            *)
SchedInv(js, s) ==
  s = Idle \/ /\ s.at \in Job
              /\ js[s.at].state = "QUEUED"
              /\ \A n \in s.free : Free(js, n)
              /\ \A m \in Ack(s.origin) : Covered(js, s.origin.node, m)

(* The strengthening of the invariants that every step preserves. *)
FabricInv == FabricTypeOK /\ JobsInv(jobs) /\ SchedInv(jobs, sched) /\ WriteAhead

(* What a change of the jobs may never take back. *)
Keeps(old, new) ==
  \A j \in Job :
    /\ old[j].state \in Settled => new[j] = old[j]
    /\ old[j].state \notin {"absent", "QUEUED"} =>
         /\ new[j].node = old[j].node
         /\ new[j].lease = old[j].lease
         /\ new[j].state \notin {"absent", "QUEUED"}
    /\ old[j].state \in Settled \cup {"UNKNOWN"} => new[j].state \in Settled \cup {"UNKNOWN"}
    /\ old[j].lease # 0 => new[j].lease = old[j].lease /\ new[j].node = old[j].node

-----------------------------------------------------------------------------
(* The five ways the jobs change *)

(* Submit adds a job under a key the principal has not used. *)
LEMMA QueueLemma ==
  ASSUME JobsInv(jobs), NEW j \in Job, jobs[j].state = "absent",
         NEW p \in Principal, NEW k \in Key \cup {NoKey}, NEW b \in Body,
         Duplicate(p, k) = {},
         NEW js,
         js = [jobs EXCEPT ![j] = [NoJob EXCEPT !.state = "QUEUED", !.owner = p,
                                                !.key = k, !.body = b]]
  PROVE  JobsInv(js) /\ Keeps(jobs, js)
<1>1. /\ js[j].state = "QUEUED" /\ js[j].owner = p /\ js[j].key = k
      /\ js[j].node = NoNode /\ js[j].lease = 0
      /\ \A i \in Job \ {j} : js[i] = jobs[i]
  BY DEF JobsInv, NoJob
<1>2. js \in [Job -> JobRecord]
  BY DEF JobsInv, NoJob, JobRecord, JobState, Lease
<1>3. JobShape(js) /\ SlotsDistinct(js)
  BY <1>1 DEF JobsInv, JobShape, SlotsDistinct, Open
<1>4. KeysDistinct(js)
  BY <1>1 DEF JobsInv, KeysDistinct, Duplicate
<1>5. Keeps(jobs, js)
  BY <1>1 DEF JobsInv, JobShape, Keeps, Settled
<1> QED BY <1>2, <1>3, <1>4, <1>5 DEF JobsInv

(* A queued job assigned to a free agent; s tells whether it was sent. *)
Placed(j, n, s) == [jobs EXCEPT ![j] = [Assigned(j, n) EXCEPT !.state = s]]

(* Place and its failures keep the jobs consistent, and the job gets the    *)
(* agent and its first lease.                                              *)
LEMMA AssignLemma ==
  ASSUME JobsInv(jobs), NEW j \in Job, jobs[j].state = "QUEUED",
         NEW n \in Node, Free(jobs, n), NEW s \in Open
  PROVE  /\ JobsInv(Placed(j, n, s)) /\ Keeps(jobs, Placed(j, n, s))
         /\ Placed(j, n, s)[j].node = n /\ Placed(j, n, s)[j].lease = 1
<1> DEFINE js == Placed(j, n, s)
<1>1. jobs[j] \in JobRecord /\ jobs[j].lease = 0
  BY DEF JobsInv, JobShape
<1>2. /\ js[j].state = s /\ js[j].node = n /\ js[j].lease = 1
      /\ js[j].owner = jobs[j].owner /\ js[j].key = jobs[j].key
      /\ \A i \in Job \ {j} : js[i] = jobs[i]
  BY <1>1 DEF JobsInv, Placed, Assigned, JobRecord
<1>3. js \in [Job -> JobRecord]
  <2>1. Assigned(j, n) = [jobs[j] EXCEPT !.state = "ASSIGNED", !.node = n, !.lease = 1]
    BY <1>1 DEF Assigned
  <2>2. Assigned(j, n) \in JobRecord
    <3>1. [jobs[j] EXCEPT !.state = "ASSIGNED", !.node = n] \in JobRecord
      BY <1>1 DEF JobRecord, JobState
    <3>2. Assigned(j, n) = [[jobs[j] EXCEPT !.state = "ASSIGNED", !.node = n] EXCEPT !.lease = 1]
      BY <1>1, <2>1 DEF JobRecord
    <3>3. 1 \in Lease
      BY DEF Lease
    <3> QED BY <3>1, <3>2, <3>3 DEF JobRecord
  <2>3. [Assigned(j, n) EXCEPT !.state = s] \in JobRecord
    BY <2>2 DEF JobRecord, JobState, Open
  <2> QED BY <2>3 DEF JobsInv, Placed
<1> HIDE DEF js
<1>4. JobShape(js)
  BY <1>2 DEF JobsInv, JobShape, Open
<1>5. SlotsDistinct(js)
  BY <1>2 DEF JobsInv, SlotsDistinct, Open, Free
<1>6. KeysDistinct(js)
  BY <1>2 DEF JobsInv, KeysDistinct, Open
<1>7. Keeps(jobs, js)
  BY <1>1, <1>2 DEF Keeps, Settled
<1> QED BY <1>2, <1>3, <1>4, <1>5, <1>6, <1>7 DEF JobsInv, js

(* Ticks, disconnects and restarts doubt assigned jobs. *)
LEMMA DoubtLemma ==
  ASSUME JobsInv(jobs), NEW S \in SUBSET AssignedJobs
  PROVE  JobsInv(Doubted(S)) /\ Keeps(jobs, Doubted(S))
<1> DEFINE js == Doubted(S)
<1>1. \A j \in Job :
        /\ jobs[j] \in JobRecord
        /\ j \in S => /\ jobs[j].state = "ASSIGNED" /\ js[j].state = "UNKNOWN"
                      /\ js[j].node = jobs[j].node /\ js[j].lease = jobs[j].lease
                      /\ js[j].owner = jobs[j].owner /\ js[j].key = jobs[j].key
        /\ j \notin S => js[j] = jobs[j]
  BY DEF JobsInv, Doubted, AssignedJobs, JobRecord
<1>2. js \in [Job -> JobRecord]
  BY <1>1 DEF Doubted, JobRecord, JobState
<1> HIDE DEF js
<1>3. JobShape(js)
  BY <1>1 DEF JobsInv, JobShape, Open
<1>4. SlotsDistinct(js)
  BY <1>1 DEF JobsInv, SlotsDistinct, Open
<1>5. KeysDistinct(js)
  BY <1>1 DEF JobsInv, KeysDistinct
<1>6. Keeps(jobs, js)
  BY <1>1 DEF Keeps, Settled
<1> QED BY <1>2, <1>3, <1>4, <1>5, <1>6 DEF JobsInv, js

(* A receipt settles the assignment it answers, or leaves it in doubt. *)
LEMMA ReceiptLemma ==
  ASSUME JobsInv(jobs), NEW n \in Node, NEW r \in Receipt, Ours(n, r)
  PROVE  /\ JobsInv(WithReceipt(r)) /\ Keeps(jobs, WithReceipt(r))
         /\ \A m \in Ack(OfReceipt(n, r)) : Covered(WithReceipt(r), n, m)
<1> DEFINE js == WithReceipt(r)
           j == r.job
<1>1. /\ j \in Job /\ r.state \in ReceiptState /\ r.result \in Result \cup {NoResult}
      /\ r.lease \in Nat
      /\ jobs[j] \in JobRecord /\ jobs[j].node = n /\ jobs[j].lease = r.lease
  BY DEF JobsInv, Receipt, Ours, Lease
<1>2. jobs[j].state \notin {"absent", "QUEUED"}
  BY <1>1, FabricConstants DEF JobsInv, JobShape
<1>3. jobs[j].state \in Open \cup Settled
  BY <1>1, <1>2 DEF JobRecord, JobState, Open, Settled
<1>4. /\ js[j].node = n /\ js[j].lease = r.lease
      /\ js[j].owner = jobs[j].owner /\ js[j].key = jobs[j].key
      /\ js[j].state \in Settled \cup {"UNKNOWN"}
      /\ jobs[j].state \in Settled => js[j] = jobs[j]
      /\ \A i \in Job \ {j} : js[i] = jobs[i]
  BY <1>1, <1>3 DEF JobsInv, WithReceipt, JobRecord, ReceiptState, Settled
<1>5. js \in [Job -> JobRecord]
  BY <1>1 DEF JobsInv, WithReceipt, JobRecord, JobState, ReceiptState
<1>6. \A m \in Ack(OfReceipt(n, r)) : m.job = j /\ m.lease = r.lease
  BY DEF Ack, OfReceipt
<1> HIDE DEF js, j
<1>7. JobShape(js)
  BY <1>1, <1>4 DEF JobsInv, JobShape, Open, Settled
<1>8. SlotsDistinct(js)
  BY <1>1, <1>3, <1>4 DEF JobsInv, SlotsDistinct, Open, Settled
<1>9. KeysDistinct(js)
  BY <1>1, <1>2, <1>4 DEF JobsInv, KeysDistinct
<1>10. Keeps(jobs, js)
  BY <1>1, <1>2, <1>4 DEF Keeps, Settled
<1>11. \A m \in Ack(OfReceipt(n, r)) : Covered(js, n, m)
  BY <1>4, <1>6 DEF Covered
<1> QED BY <1>5, <1>7, <1>8, <1>9, <1>10, <1>11 DEF JobsInv, js

(* The operator abandons a job that is queued or in doubt. *)
LEMMA AbandonLemma ==
  ASSUME JobsInv(jobs), NEW j \in Job, jobs[j].state \in {"UNKNOWN", "QUEUED"},
         NEW js, js = [jobs EXCEPT ![j].state = "ABANDONED"]
  PROVE  JobsInv(js) /\ Keeps(jobs, js)
<1>1. /\ jobs[j] \in JobRecord
      /\ js[j].state = "ABANDONED" /\ js[j].node = jobs[j].node /\ js[j].lease = jobs[j].lease
      /\ js[j].owner = jobs[j].owner /\ js[j].key = jobs[j].key
      /\ \A i \in Job \ {j} : js[i] = jobs[i]
  BY DEF JobsInv, JobRecord
<1>2. js \in [Job -> JobRecord]
  BY <1>1 DEF JobsInv, JobRecord, JobState
<1>3. JobShape(js)
  BY <1>1 DEF JobsInv, JobShape, Open
<1>4. SlotsDistinct(js)
  BY <1>1 DEF JobsInv, SlotsDistinct, Open
<1>5. KeysDistinct(js)
  BY <1>1 DEF JobsInv, KeysDistinct
<1>6. Keeps(jobs, js)
  BY <1>1 DEF Keeps, Settled
<1> QED BY <1>2, <1>3, <1>4, <1>5, <1>6 DEF JobsInv

-----------------------------------------------------------------------------
(* Messages and the loop *)

(* A message that was covered stays covered. *)
LEMMA CoveredLemma ==
  ASSUME JobsInv(jobs), NEW js, Keeps(jobs, js),
         NEW n \in Node, NEW m \in AgentMsg, Covered(jobs, n, m)
  PROVE  Covered(js, n, m)
<1>1. m.job \in Job
  BY DEF AgentMsg
<1>2. jobs[m.job].state \notin {"absent", "QUEUED"}
  BY <1>1, FabricConstants DEF Covered, JobsInv, JobShape
<1> QED BY <1>1, <1>2 DEF Covered, Keeps

(* The acknowledgement of a receipt is a message. *)
LEMMA AckLemma ==
  ASSUME NEW o \in Origin, o.kind = "receipt"
  PROVE  o.node \in Node /\ Ack(o) \in SUBSET AgentMsg
<1>1. o.node \in Node /\ o.job \in Job /\ o.lease \in Lease
  BY DEF Origin
<1> QED BY <1>1 DEF Ack, AgentMsg

(* What Delivered makes of the channels to the agents. *)
LEMMA DeliveredLemma ==
  ASSUME NEW js, NEW sent \in [Node -> SUBSET AgentMsg],
         \A n \in Node : \A m \in sent[n] : Covered(js, n, m),
         NEW i \in Node, NEW msgs \in SUBSET AgentMsg,
         \A m \in msgs : Covered(js, i, m)
  PROVE  /\ Delivered(sent, i, msgs) \in [Node -> SUBSET AgentMsg]
         /\ \A n \in Node : \A m \in Delivered(sent, i, msgs)[n] : Covered(js, n, m)
BY DEF Delivered

(* schedule() from jobs that are consistent and messages they cover leaves *)
(* both so, and itself in a consistent suspension.                         *)
LEMMA ScheduleLemma ==
  ASSUME NEW js, JobsInv(js), NEW sent \in [Node -> SUBSET AgentMsg],
         \A n \in Node : \A m \in sent[n] : Covered(js, n, m),
         NEW o \in Origin, \A m \in Ack(o) : Covered(js, o.node, m),
         NEW from, Schedule(js, sent, from, o)
  PROVE  /\ jobs' = js
         /\ toAgent' \in [Node -> SUBSET AgentMsg]
         /\ \A n \in Node : \A m \in toAgent'[n] : Covered(js, n, m)
         /\ sched' \in Suspended
         /\ SchedInv(js, sched')
<1>1. jobs' = js
  BY DEF Schedule
<1>2. CASE \E j \in ToPlace(js, from) :
             /\ sched' = [at |-> j, free |-> {n \in Candidates(js, j) : Free(js, n)},
                          origin |-> o]
             /\ toAgent' = sent
  <2>1. PICK j \in ToPlace(js, from) :
          /\ sched' = [at |-> j, free |-> {n \in Candidates(js, j) : Free(js, n)},
                       origin |-> o]
          /\ toAgent' = sent
    BY <1>2
  <2>2. j \in Job /\ js[j].state = "QUEUED" /\ Candidates(js, j) \subseteq Node
    BY DEF ToPlace, Candidates
  <2>3. sched' \in Suspended
    BY <2>1, <2>2 DEF Suspended
  <2>4. /\ sched'.at = j /\ sched'.origin = o
        /\ \A n \in sched'.free : Free(js, n)
    BY <2>1
  <2> QED BY <1>1, <2>1, <2>2, <2>3, <2>4 DEF SchedInv
<1>3. CASE sched' = Idle /\ toAgent' = Acknowledge(sent, o)
  <2>1. sched' \in Suspended /\ SchedInv(js, sched')
    BY <1>3 DEF Suspended, SchedInv, Idle, OfCommand, Origin
  <2>2. /\ toAgent' \in [Node -> SUBSET AgentMsg]
        /\ \A n \in Node : \A m \in toAgent'[n] : Covered(js, n, m)
    BY <1>3, AckLemma, DeliveredLemma DEF Acknowledge
  <2> QED BY <1>1, <2>1, <2>2
<1> QED BY <1>2, <1>3 DEF Schedule

-----------------------------------------------------------------------------
(* One step *)

(* The constructor on an empty journal establishes the strengthening. *)
LEMMA InitLemma == FabricInit => FabricInv
<1> SUFFICES ASSUME FabricInit PROVE FabricInv
  OBVIOUS
<1>1. NoJob \in JobRecord
  BY DEF NoJob, JobRecord, JobState, Lease
<1>2. FabricTypeOK
  BY <1>1 DEF FabricInit, WireInit, FabricTypeOK, WireTypeOK, Suspended, Idle, OfCommand, Origin
<1>3. JobsInv(jobs)
  BY <1>1 DEF FabricInit, JobsInv, JobShape, SlotsDistinct, KeysDistinct, NoJob, Open
<1>4. SchedInv(jobs, sched) /\ WriteAhead
  BY DEF FabricInit, WireInit, SchedInv, WriteAhead
<1> QED BY <1>2, <1>3, <1>4 DEF FabricInv

(* The parts of FabricInv after a step. *)
LEMMA AfterLemma ==
  ASSUME WireTypeOK', JobsInv(jobs'), sched' \in Suspended, SchedInv(jobs', sched'),
         \A n \in Node : \A m \in toAgent'[n] : Covered(jobs', n, m)
  PROVE  FabricInv'
<1>1. FabricTypeOK'
  BY DEF FabricTypeOK, JobsInv
<1>2. WriteAhead'
  BY DEF WriteAhead, Covered
<1>3. JobsInv(jobs)'
  BY DEF JobsInv, JobShape, SlotsDistinct, KeysDistinct
<1>4. SchedInv(jobs, sched)'
  BY DEF SchedInv, Free, Covered, Ack
<1> QED BY <1>1, <1>2, <1>3, <1>4 DEF FabricInv

(* Messages in flight, and the acknowledgement a suspended receipt still   *)
(* owes, are covered by jobs that keep what was promised.                  *)
LEMMA CarriedLemma ==
  ASSUME FabricInv, NEW js, Keeps(jobs, js)
  PROVE  /\ \A n \in Node : \A m \in toAgent[n] : Covered(js, n, m)
         /\ sched # Idle => /\ sched.origin \in Origin
                            /\ \A m \in Ack(sched.origin) : Covered(js, sched.origin.node, m)
<1>1. ASSUME NEW n \in Node, NEW m \in toAgent[n] PROVE Covered(js, n, m)
  <2>1. m \in AgentMsg
    BY DEF FabricInv, FabricTypeOK, WireTypeOK
  <2> QED BY <2>1, CoveredLemma DEF FabricInv, WriteAhead
<1>2. sched.origin \in Origin
  BY DEF FabricInv, FabricTypeOK, Suspended
<1>3. ASSUME sched # Idle, NEW m \in Ack(sched.origin)
      PROVE  Covered(js, sched.origin.node, m)
  <2>1. sched.origin.kind = "receipt"
    BY DEF Ack
  <2>2. sched.origin.node \in Node /\ m \in AgentMsg
    BY <1>2, <2>1, AckLemma
  <2>3. Covered(jobs, sched.origin.node, m)
    BY <1>3 DEF FabricInv, SchedInv
  <2> QED BY <2>2, <2>3, CoveredLemma DEF FabricInv
<1> QED BY <1>1, <1>2, <1>3

(* A step that ends or continues an operation in schedule(). *)
LEMMA ScheduledLemma ==
  ASSUME FabricInv, NEW js, JobsInv(js), Keeps(jobs, js),
         NEW sent \in [Node -> SUBSET AgentMsg],
         \A n \in Node : \A m \in sent[n] : Covered(js, n, m),
         NEW o \in Origin, \A m \in Ack(o) : Covered(js, o.node, m),
         NEW from, Schedule(js, sent, from, o),
         peers' = peers, conn' = conn, toHub' \in [Node -> SUBSET Receipt]
  PROVE  FabricInv' /\ Keeps(jobs, jobs')
<1>1. /\ jobs' = js
      /\ toAgent' \in [Node -> SUBSET AgentMsg]
      /\ \A n \in Node : \A m \in toAgent'[n] : Covered(js, n, m)
      /\ sched' \in Suspended
      /\ SchedInv(js, sched')
  BY ScheduleLemma
<1>2. WireTypeOK'
  BY <1>1 DEF FabricInv, FabricTypeOK, WireTypeOK
<1> QED BY <1>1, <1>2, AfterLemma

(* A step that leaves no operation suspended and sends nothing. *)
LEMMA QuietLemma ==
  ASSUME FabricInv, JobsInv(jobs'), Keeps(jobs, jobs'), sched' = Idle,
         toAgent' = toAgent, WireTypeOK'
  PROVE  FabricInv'
<1>1. \A n \in Node : \A m \in toAgent'[n] : Covered(jobs', n, m)
  BY CarriedLemma
<1>2. sched' \in Suspended /\ SchedInv(jobs', sched')
  BY DEF Suspended, SchedInv, Idle, OfCommand, Origin
<1> QED BY <1>1, <1>2, AfterLemma

(* Jobs that do not change keep what they promised. *)
LEMMA SameJobs == Keeps(jobs, jobs)
BY DEF Keeps

(* A rejected operation suspends nothing and only closes sockets. *)
LEMMA RejectLemma ==
  ASSUME FabricInv, NEW o, Reject(o)
  PROVE  sched' = Idle /\ peers' \in [Node -> {"none", "live", "closed"}]
BY DEF Reject, Closing, FabricInv, FabricTypeOK, WireTypeOK

-----------------------------------------------------------------------------
(* Operations that start when none is suspended *)

(* A new job, from the dedupe check to its schedule(). *)
LEMMA SubmitLemma ==
  ASSUME FabricInv, NEW p \in Principal, NEW k \in Key \cup {NoKey}, NEW b \in Body,
         Submit(p, k, b)
  PROVE  FabricInv' /\ Keeps(jobs, jobs')
<1>1. PICK j \in Job :
        /\ jobs[j].state = "absent"
        /\ Schedule([jobs EXCEPT ![j] = [NoJob EXCEPT !.state = "QUEUED", !.owner = p,
                                                      !.key = k, !.body = b]],
                    toAgent, 1, OfCommand)
  BY DEF Submit
<1> DEFINE js == [jobs EXCEPT ![j] = [NoJob EXCEPT !.state = "QUEUED", !.owner = p,
                                                   !.key = k, !.body = b]]
<1>2. JobsInv(js) /\ Keeps(jobs, js)
  BY <1>1, QueueLemma DEF Submit, FabricInv
<1>3. /\ \A n \in Node : \A m \in toAgent[n] : Covered(js, n, m)
      /\ OfCommand \in Origin /\ Ack(OfCommand) = {}
  BY <1>2, CarriedLemma DEF OfCommand, Origin, Ack
<1>4. /\ toAgent \in [Node -> SUBSET AgentMsg]
      /\ peers' = peers /\ conn' = conn /\ toHub' \in [Node -> SUBSET Receipt]
  BY DEF FabricInv, FabricTypeOK, WireTypeOK, Submit
<1>5. Schedule(js, toAgent, 1, OfCommand)
  BY <1>1
<1> HIDE DEF js
<1> QED BY <1>2, <1>3, <1>4, <1>5, ScheduledLemma

(* The operator's abandon. *)
LEMMA AbandonStep ==
  ASSUME FabricInv, NEW j \in Job, Abandon(j)
  PROVE  FabricInv' /\ Keeps(jobs, jobs')
<1>1. JobsInv(jobs') /\ Keeps(jobs, jobs')
  BY AbandonLemma DEF Abandon, FabricInv
<1>2. sched' = Idle /\ toAgent' = toAgent /\ WireTypeOK'
  BY DEF Abandon, wireVars, FabricInv, FabricTypeOK, WireTypeOK
<1> QED BY <1>1, <1>2, QuietLemma

(* A receipt that is recorded, repeated, or waived. *)
LEMMA TakeReceiptLemma ==
  ASSUME FabricInv, NEW n \in Node, NEW r \in toHub[n], TakeReceipt(n, r)
  PROVE  FabricInv' /\ Keeps(jobs, jobs')
<1> DEFINE js == WithReceipt(r)
           o == OfReceipt(n, r)
<1>1. /\ r \in Receipt
      /\ toAgent \in [Node -> SUBSET AgentMsg]
      /\ peers' = peers /\ conn' = conn /\ toHub' \in [Node -> SUBSET Receipt]
  BY DEF FabricInv, FabricTypeOK, WireTypeOK, TakeReceipt
<1>2. /\ JobsInv(js) /\ Keeps(jobs, js)
      /\ \A m \in Ack(o) : Covered(js, n, m)
  BY <1>1, ReceiptLemma DEF TakeReceipt, FabricInv
<1>3. \A i \in Node : \A m \in toAgent[i] : Covered(js, i, m)
  BY <1>2, CarriedLemma
<1>4. o \in Origin /\ o.node = n /\ o.kind = "receipt"
  BY <1>1 DEF OfReceipt, Origin, Receipt
<1>5. CASE jobs[r.job].state = "ABANDONED"
  <2>1. js = jobs /\ jobs' = jobs /\ sched' = Idle /\ toAgent' = Acknowledge(toAgent, o)
    BY <1>5 DEF TakeReceipt, WithReceipt, Settled
  <2>2. /\ toAgent' \in [Node -> SUBSET AgentMsg]
        /\ \A i \in Node : \A m \in toAgent'[i] : Covered(jobs', i, m)
    BY <1>1, <1>2, <1>3, <1>4, <2>1, AckLemma, DeliveredLemma DEF Acknowledge
  <2>3. WireTypeOK'
    BY <1>1, <2>2 DEF WireTypeOK, FabricInv, FabricTypeOK
  <2>4. JobsInv(jobs') /\ Keeps(jobs, jobs')
    BY <1>2, <2>1
  <2>5. sched' \in Suspended /\ SchedInv(jobs', sched')
    BY <2>1 DEF Suspended, SchedInv, Idle, OfCommand, Origin
  <2> QED BY <2>2, <2>3, <2>4, <2>5, AfterLemma
<1>6. CASE jobs[r.job].state # "ABANDONED"
  <2>1. Schedule(js, toAgent, 1, o)
    BY <1>6 DEF TakeReceipt
  <2> HIDE DEF js, o
  <2> QED BY <1>1, <1>2, <1>3, <1>4, <2>1, ScheduledLemma
<1> QED BY <1>5, <1>6

(* A receipt that is refused changes no job. *)
LEMMA RejectReceiptLemma ==
  ASSUME FabricInv, NEW n \in Node, NEW r \in toHub[n], RejectReceipt(n, r)
  PROVE  FabricInv' /\ Keeps(jobs, jobs')
<1>1. /\ jobs' = jobs /\ sched' = Idle /\ toAgent' = toAgent
      /\ JobsInv(jobs') /\ Keeps(jobs, jobs')
  BY SameJobs DEF RejectReceipt, FabricInv
<1>2. WireTypeOK'
  BY DEF RejectReceipt, Closing, FabricInv, FabricTypeOK, WireTypeOK
<1> QED BY <1>1, <1>2, QuietLemma

(* The deadlines, then schedule(). *)
LEMMA TickLemma ==
  ASSUME FabricInv, NEW expired \in SUBSET AssignedJobs, Tick(expired)
  PROVE  FabricInv' /\ Keeps(jobs, jobs')
<1> DEFINE js == Doubted(expired)
<1>1. JobsInv(js) /\ Keeps(jobs, js)
  BY DoubtLemma DEF FabricInv
<1>2. /\ \A n \in Node : \A m \in toAgent[n] : Covered(js, n, m)
      /\ OfTick \in Origin /\ Ack(OfTick) = {}
  BY <1>1, CarriedLemma DEF OfTick, OfCommand, Origin, Ack
<1>3. /\ toAgent \in [Node -> SUBSET AgentMsg]
      /\ peers' = peers /\ conn' = conn /\ toHub' \in [Node -> SUBSET Receipt]
      /\ Schedule(js, toAgent, 1, OfTick)
  BY DEF FabricInv, FabricTypeOK, WireTypeOK, Tick
<1> HIDE DEF js
<1> QED BY <1>1, <1>2, <1>3, ScheduledLemma

(* The deadlines up to the one the journal refuses. *)
LEMMA TickFailsLemma ==
  ASSUME FabricInv, NEW expired \in SUBSET AssignedJobs, TickFails(expired)
  PROVE  FabricInv' /\ Keeps(jobs, jobs')
<1>1. jobs' = Doubted(expired) /\ JobsInv(jobs') /\ Keeps(jobs, jobs')
  BY DoubtLemma DEF TickFails, FabricInv
<1>2. sched' = Idle /\ toAgent' = toAgent /\ WireTypeOK'
  BY RejectLemma DEF TickFails, FabricInv, FabricTypeOK, WireTypeOK
<1> QED BY <1>1, <1>2, QuietLemma

(* A lost connection, whether the journal takes its doubts or not. *)
LEMMA DisconnectLemma ==
  ASSUME FabricInv, NEW n \in Node, Disconnect(n)
  PROVE  FabricInv' /\ Keeps(jobs, jobs')
<1>1. JobsInv(jobs') /\ Keeps(jobs, jobs')
  BY DoubtLemma, SameJobs DEF Disconnect, JobsOf, FabricInv
<1>2. sched' = Idle /\ toAgent' = toAgent /\ WireTypeOK'
  BY DEF Disconnect, FabricInv, FabricTypeOK, WireTypeOK
<1> QED BY <1>1, <1>2, QuietLemma

(* A crash anywhere, also inside schedule(), and the replay. *)
LEMMA RestartLemma ==
  ASSUME FabricInv, Restart
  PROVE  FabricInv' /\ Keeps(jobs, jobs')
<1>1. JobsInv(jobs') /\ Keeps(jobs, jobs')
  BY DoubtLemma DEF Restart, FabricInv
<1>2. sched' = Idle /\ toAgent' = toAgent /\ WireTypeOK'
  BY DEF Restart, FabricInv, FabricTypeOK, WireTypeOK
<1> QED BY <1>1, <1>2, QuietLemma

-----------------------------------------------------------------------------
(* The operation suspended in schedule() goes on *)

(* What holds while the adapter runs. *)
LEMMA SuspendedLemma ==
  ASSUME FabricInv, sched # Idle
  PROVE  /\ sched.at \in Job /\ jobs[sched.at].state = "QUEUED"
         /\ \A n \in sched.free : n \in Node /\ Free(jobs, n)
         /\ sched.origin \in Origin
BY DEF FabricInv, FabricTypeOK, SchedInv, Suspended

(* The loop passes over the job it asked about. *)
LEMMA NotPlacedLemma ==
  ASSUME FabricInv, NotPlaced
  PROVE  FabricInv' /\ Keeps(jobs, jobs')
<1>1. /\ sched.origin \in Origin
      /\ JobsInv(jobs) /\ Keeps(jobs, jobs)
      /\ toAgent \in [Node -> SUBSET AgentMsg]
      /\ peers' = peers /\ conn' = conn /\ toHub' \in [Node -> SUBSET Receipt]
      /\ Schedule(jobs, toAgent, sched.at + 1, sched.origin)
  BY SuspendedLemma, SameJobs DEF NotPlaced, FabricInv, FabricTypeOK, WireTypeOK
<1>2. /\ \A n \in Node : \A m \in toAgent[n] : Covered(jobs, n, m)
      /\ \A m \in Ack(sched.origin) : Covered(jobs, sched.origin.node, m)
  BY <1>1, CarriedLemma DEF NotPlaced
<1> QED BY <1>1, <1>2, ScheduledLemma

(* The jobs after an assignment in state s, and the execute it covers. *)
LEMMA PlacementLemma ==
  ASSUME FabricInv, sched # Idle, NEW n \in Node, Placeable(sched.at, n),
         NEW s \in Open, NEW js, js = Placed(sched.at, n, s)
  PROVE  /\ JobsInv(js) /\ Keeps(jobs, js)
         /\ \A i \in Node : \A m \in toAgent[i] : Covered(js, i, m)
         /\ \A m \in Ack(sched.origin) : Covered(js, sched.origin.node, m)
         /\ Execute(sched.at) \in AgentMsg /\ Covered(js, n, Execute(sched.at))
<1>1. /\ sched.at \in Job /\ jobs[sched.at].state = "QUEUED" /\ Free(jobs, n)
      /\ JobsInv(jobs)
  BY SuspendedLemma DEF Placeable, FabricInv
<1>2. /\ JobsInv(js) /\ Keeps(jobs, js)
      /\ js[sched.at].node = n /\ js[sched.at].lease = 1
  BY <1>1, AssignLemma
<1>3. jobs[sched.at].lease = 0
  BY <1>1 DEF JobsInv, JobShape
<1>4. Execute(sched.at) \in AgentMsg /\ Covered(js, n, Execute(sched.at))
  BY <1>1, <1>2, <1>3 DEF Execute, AgentMsg, Lease, Covered
<1> QED BY <1>2, <1>4, CarriedLemma

(* The assignment is recorded, then sent. *)
LEMMA PlaceLemma ==
  ASSUME FabricInv, NEW n \in Node, Place(n)
  PROVE  FabricInv' /\ Keeps(jobs, jobs')
<1> DEFINE j == sched.at
           js == Placed(j, n, "ASSIGNED")
           sent == Delivered(toAgent, n, {Execute(j)})
<1>1. /\ JobsInv(js) /\ Keeps(jobs, js)
      /\ \A i \in Node : \A m \in toAgent[i] : Covered(js, i, m)
      /\ \A m \in Ack(sched.origin) : Covered(js, sched.origin.node, m)
      /\ Execute(j) \in AgentMsg /\ Covered(js, n, Execute(j))
  <2>1. "ASSIGNED" \in Open
    BY DEF Open
  <2> QED BY <2>1, PlacementLemma DEF Place
<1>2. Assigned(j, n) = [Assigned(j, n) EXCEPT !.state = "ASSIGNED"]
  BY SuspendedLemma DEF Place, Assigned, FabricInv, FabricTypeOK, JobRecord
<1>3. /\ toAgent \in [Node -> SUBSET AgentMsg]
      /\ peers' = peers /\ conn' = conn /\ toHub' \in [Node -> SUBSET Receipt]
      /\ sched.origin \in Origin
      /\ Schedule(js, sent, j + 1, sched.origin)
  BY <1>2, SuspendedLemma DEF Place, Placed, FabricInv, FabricTypeOK, WireTypeOK
<1> HIDE DEF js
<1>4. /\ sent \in [Node -> SUBSET AgentMsg]
      /\ \A i \in Node : \A m \in sent[i] : Covered(js, i, m)
  BY <1>1, <1>3, DeliveredLemma
<1> HIDE DEF sent, j
<1> QED BY <1>1, <1>3, <1>4, ScheduledLemma

(* The assignment is recorded twice, the second time in doubt. *)
LEMMA PlaceUnsentLemma ==
  ASSUME FabricInv, NEW n \in Node, PlaceUnsent(n)
  PROVE  FabricInv' /\ Keeps(jobs, jobs')
<1> DEFINE j == sched.at
           js == Placed(j, n, "UNKNOWN")
<1>1. /\ JobsInv(js) /\ Keeps(jobs, js)
      /\ \A i \in Node : \A m \in toAgent[i] : Covered(js, i, m)
      /\ \A m \in Ack(sched.origin) : Covered(js, sched.origin.node, m)
  <2>1. "UNKNOWN" \in Open
    BY DEF Open
  <2> QED BY <2>1, PlacementLemma DEF PlaceUnsent
<1>2. /\ toAgent \in [Node -> SUBSET AgentMsg]
      /\ peers' = peers /\ conn' = conn /\ toHub' \in [Node -> SUBSET Receipt]
      /\ sched.origin \in Origin
      /\ Schedule(js, toAgent, j + 1, sched.origin)
  BY SuspendedLemma DEF PlaceUnsent, Placed, FabricInv, FabricTypeOK, WireTypeOK
<1> HIDE DEF js, j
<1> QED BY <1>1, <1>2, ScheduledLemma

(* The journal refuses the assignment or the doubt after it. *)
LEMMA PlaceFailsLemma ==
  ASSUME FabricInv, NEW n \in Node, PlaceFails(n)
  PROVE  FabricInv' /\ Keeps(jobs, jobs')
<1> DEFINE j == sched.at
           js == Placed(j, n, "ASSIGNED")
<1>1. JobsInv(js) /\ Keeps(jobs, js)
  <2>1. "ASSIGNED" \in Open
    BY DEF Open
  <2> QED BY <2>1, PlacementLemma DEF PlaceFails
<1>2. Assigned(j, n) = [Assigned(j, n) EXCEPT !.state = "ASSIGNED"]
  BY SuspendedLemma DEF PlaceFails, Assigned, FabricInv, FabricTypeOK, JobRecord
<1>3. JobsInv(jobs') /\ Keeps(jobs, jobs')
  BY <1>1, <1>2, SameJobs DEF PlaceFails, Placed, FabricInv
<1>4. sched' = Idle /\ toAgent' = toAgent /\ WireTypeOK'
  BY RejectLemma DEF PlaceFails, FabricInv, FabricTypeOK, WireTypeOK
<1> QED BY <1>3, <1>4, QuietLemma

-----------------------------------------------------------------------------
(* The channel, and agents that send what they like *)

(* What is not serialized touches neither the jobs nor the suspended loop. *)
LEMMA ChannelLemma ==
  ASSUME FabricInv, NEW n \in Node, Channel(n) \/ AnyReceipt(n)
  PROVE  FabricInv' /\ Keeps(jobs, jobs')
<1>1. jobs' = jobs /\ sched' = sched
  BY DEF Channel, AnyReceipt, fabricVars
<1>2. WireTypeOK /\ \A i \in Node : toAgent'[i] \subseteq toAgent[i]
  BY DEF FabricInv, FabricTypeOK, WireTypeOK, Channel, AnyReceipt, Register,
         HubSocketClosed, FrameLost, AgentSocketClosed
<1>3. WireTypeOK'
  <2>1. CASE Channel(n)
    BY <1>2, <2>1 DEF WireTypeOK, Channel, Register, HubSocketClosed, FrameLost,
                      AgentSocketClosed
  <2>2. CASE AnyReceipt(n)
    <3>1. PICK r \in [job : Job, lease : SentLease, state : ReceiptState,
                      result : Result \cup {NoResult}] :
            toHub' = Uploaded(toHub, n, {r})
      BY <2>2 DEF AnyReceipt
    <3>2. r \in Receipt
      BY FabricConstants DEF Receipt, Lease
    <3> QED BY <1>2, <2>2, <3>1, <3>2 DEF WireTypeOK, AnyReceipt, Uploaded
  <2> QED BY <2>1, <2>2
<1>4. \A i \in Node : \A m \in toAgent'[i] : Covered(jobs', i, m)
  BY <1>1, <1>2 DEF FabricInv, WriteAhead
<1>5. /\ JobsInv(jobs') /\ sched' \in Suspended /\ SchedInv(jobs', sched')
      /\ Keeps(jobs, jobs')
  BY <1>1, SameJobs DEF FabricInv, FabricTypeOK
<1> QED BY <1>3, <1>4, <1>5, AfterLemma

-----------------------------------------------------------------------------
(* The theorems *)

(* Every step keeps the strengthening and what the jobs promised. *)
LEMMA StepLemma ==
  ASSUME FabricInv, [FabricNext]_hubVars
  PROVE  FabricInv' /\ Keeps(jobs, jobs')
<1>1. CASE HubStep
  BY <1>1, SubmitLemma, AbandonStep, NotPlacedLemma, PlaceLemma, PlaceUnsentLemma,
     DisconnectLemma, TakeReceiptLemma, TickLemma DEF HubStep
<1>2. CASE HubFault
  BY <1>2, PlaceFailsLemma, RejectReceiptLemma, TickFailsLemma, RestartLemma DEF HubFault
<1>3. CASE \E n \in Node : Channel(n) \/ AnyReceipt(n)
  BY <1>3, ChannelLemma
<1>4. CASE UNCHANGED hubVars
  <2>1. /\ jobs' = jobs /\ sched' = sched /\ toAgent' = toAgent
        /\ peers' = peers /\ conn' = conn /\ toHub' = toHub
    BY <1>4 DEF hubVars, wireVars, fabricVars
  <2>2. WireTypeOK'
    BY <2>1 DEF FabricInv, FabricTypeOK, WireTypeOK
  <2>3. /\ JobsInv(jobs') /\ sched' \in Suspended /\ SchedInv(jobs', sched')
        /\ Keeps(jobs, jobs')
        /\ \A i \in Node : \A m \in toAgent'[i] : Covered(jobs', i, m)
    BY <2>1, SameJobs DEF FabricInv, FabricTypeOK, WriteAhead
  <2> QED BY <2>2, <2>3, AfterLemma
<1> QED BY <1>1, <1>2, <1>3, <1>4 DEF FabricNext

(* The strengthening is an invariant of the coordinator. *)
THEOREM Invariance == FabricSpec => []FabricInv
<1>1. FabricInv /\ [FabricNext]_hubVars => FabricInv'
  BY StepLemma
<1> QED BY <1>1, InitLemma, PTL DEF FabricSpec

(* Every variable of the coordinator keeps its type. *)
THEOREM TypeCorrect == FabricSpec => []FabricTypeOK
<1>1. FabricInv => FabricTypeOK
  BY DEF FabricInv
<1> QED BY <1>1, Invariance, PTL

(* No agent ever has two open assignments. *)
THEOREM OneSlot == FabricSpec => []OneSlotPerNode
<1>1. FabricInv => OneSlotPerNode
  BY DEF FabricInv, JobsInv, SlotsDistinct, OneSlotPerNode, Open
<1> QED BY <1>1, Invariance, PTL

(* No principal's key names two jobs. *)
THEOREM KeysUnique == FabricSpec => []RequestKeysUnique
<1>1. FabricInv => RequestKeysUnique
  BY DEF FabricInv, JobsInv, KeysDistinct, RequestKeysUnique
<1> QED BY <1>1, Invariance, PTL

(* No message to an agent is ahead of the recorded jobs. *)
THEOREM RecordedFirst == FabricSpec => []WriteAhead
<1>1. FabricInv => WriteAhead
  BY DEF FabricInv
<1> QED BY <1>1, Invariance, PTL

(* A terminal job never changes. *)
THEOREM Finality == FabricSpec => SettledIsFinal
<1>1. FabricInv /\ [FabricNext]_hubVars
        => [\A j \in Job : jobs[j].state \in Settled => jobs'[j] = jobs[j]]_hubVars
  BY StepLemma DEF Keeps
<1> QED BY <1>1, Invariance, PTL DEF FabricSpec, SettledIsFinal

(* A job is assigned at most once, for ever. *)
THEOREM SingleAssignment == FabricSpec => AssignedOnce
<1>1. ASSUME FabricInv, [FabricNext]_hubVars
      PROVE  \A j \in Job : jobs[j].lease # 0 =>
               /\ jobs'[j].node = jobs[j].node
               /\ jobs'[j].lease = jobs[j].lease
               /\ jobs'[j].state # "QUEUED"
  BY <1>1, StepLemma DEF Keeps, FabricInv, JobsInv, JobShape
<1>2. FabricInv /\ [FabricNext]_hubVars
        => [\A j \in Job : jobs[j].lease # 0 =>
              /\ jobs'[j].node = jobs[j].node
              /\ jobs'[j].lease = jobs[j].lease
              /\ jobs'[j].state # "QUEUED"]_hubVars
  BY <1>1
<1> QED BY <1>2, Invariance, PTL DEF FabricSpec, AssignedOnce

-----------------------------------------------------------------------------
(* The coordinator with its agents.                                        *)

(* How far memory may be ahead of the file: by an acknowledgement or a     *)
(* pruning, and by a change whose save failed, after which none follows.   *)
FileAgrees(n, j) ==
  /\ disk[n][j].state = "none" =>
       cache[n][j].state = "none" \/ (cache[n][j].state = "EXECUTING" /\ Done(n))
  /\ disk[n][j].state = "EXECUTING" =>
       cache[n][j].state = "EXECUTING" \/ (cache[n][j].state \in Final /\ Done(n))
  /\ disk[n][j].state \in Final =>
       \/ SameResult(cache[n][j], disk[n][j])
       \/ cache[n][j].state = "none" /\ disk[n][j].acked
  /\ alive[n] = "up" /\ cache[n][j].acked => disk[n][j].acked

(* An entry or a receipt v of a job tells what its run came to. *)
Truthful(j, v) ==
  /\ v.state \in {"SUCCEEDED", "FAILED"} =>
       effect[j] = [phase |-> "ended", state |-> v.state, result |-> v.result]
  /\ v.state = "UNKNOWN" => v.result = NoResult

(* The hub needs it no more. *)
Recorded(j, v) ==
  \/ jobs[j].state = "ABANDONED"
  \/ jobs[j].state = v.state /\ jobs[j].result = v.result

EntryOK(n, j, e) ==
  /\ e.state # "none" => jobs[j].node = n /\ jobs[j].lease = e.lease
  /\ Truthful(j, e)
  /\ e.acked => e.state \in Final /\ Recorded(j, e)

StoreInv(n) ==
  \A j \in Job :
    /\ FileAgrees(n, j)
    /\ EntryOK(n, j, cache[n][j])
    /\ EntryOK(n, j, disk[n][j])
    /\ disk[n][j].state # "none" => effect[j].phase # "none"

(* The one execution of an agent is the one of its job. *)
RunInv(n) ==
  busy[n] # 0 =>
    /\ alive[n] # "down"
    /\ effect[busy[n]].phase = "running"
    /\ cache[n][busy[n]].state = "EXECUTING"
    /\ disk[n][busy[n]].state = "EXECUTING"

(* What the hub shows of a job is what running it came to, and what the    *)
(* file of its agent says.                                                 *)
VerdictInv(j) ==
  /\ jobs[j].state \in {"absent", "QUEUED"} => effect[j].phase = "none"
  /\ jobs[j].state \in {"SUCCEEDED", "FAILED"} =>
       /\ effect[j] = [phase |-> "ended", state |-> jobs[j].state, result |-> jobs[j].result]
       /\ \A n \in Node : jobs[j].node = n /\ disk[n][j].state # "none" =>
            disk[n][j].state = jobs[j].state /\ disk[n][j].result = jobs[j].result
  /\ jobs[j].state \notin {"SUCCEEDED", "FAILED"} => jobs[j].result = NoResult

(* A receipt repeats an entry of its sender's file, or one that was        *)
(* acknowledged and dropped.                                               *)
ReceiptInv(n, r) ==
  /\ jobs[r.job].node = n /\ jobs[r.job].lease = r.lease
  /\ Truthful(r.job, r)
  /\ effect[r.job].phase # "none"
  /\ \/ AsReceipt(disk[n], r.job) = r
     \/ disk[n][r.job].state = "none" /\ Recorded(r.job, r)

(* An acknowledgement is sent for a result that is recorded. *)
Closed(n, j) ==
  /\ effect[j].phase # "none"
  /\ disk[n][j].state # "EXECUTING"
  /\ disk[n][j].state \in Final => Recorded(j, disk[n][j])

MsgInv(n, m) ==
  /\ m.type = "ack" => Closed(n, m.job)
  /\ m.type = "execute" => /\ effect[m.job].phase = "none"
                           /\ cache[n][m.job].state = "none"
                           /\ disk[n][m.job].state = "none"

(* A suspended schedule() will acknowledge the receipt of job j to n. *)
Acknowledging(n, j) ==
  sched.origin.kind = "receipt" /\ sched.origin.node = n /\ sched.origin.job = j

PathInv ==
  /\ \A n \in Node : StoreInv(n)
  /\ \A n \in Node : RunInv(n)
  /\ \A j \in Job : VerdictInv(j)
  /\ \A n \in Node : \A r \in toHub[n] : ReceiptInv(n, r)
  /\ \A n \in Node : \A m \in toAgent[n] : MsgInv(n, m)
  /\ \A n \in Node, j \in Job : Acknowledging(n, j) => Closed(n, j)

(* The strengthening that every step of the job path preserves. *)
IInv == FabricInv /\ AgentTypeOK /\ PathInv

-----------------------------------------------------------------------------
(* What a step of an agent may do *)

(* The run of one of its jobs starts, ends, or is lost. *)
EffectMove(n) ==
  \/ effect' = effect
  \/ \E j \in Job :
       /\ jobs[j].node = n
       /\ \/ /\ effect[j].phase = "none"
             /\ effect' = [effect EXCEPT ![j].phase = "running"]
          \/ /\ effect[j].phase = "running"
             /\ \/ \E o \in Outcomes :
                     effect' = [effect EXCEPT ![j] =
                                  [phase |-> "ended", state |-> o.state, result |-> o.result]]
                \/ effect' = [effect EXCEPT ![j].phase = "lost"]

(* A final entry of the file stays or, acknowledged, goes; one that is     *)
(* gone does not come back.                                                *)
FileMove(n) ==
  \A j \in Job :
    /\ disk[n][j].state = "none" /\ effect[j].phase # "none" => disk'[n][j].state = "none"
    /\ disk[n][j].state \in Final =>
         \/ SameResult(disk'[n][j], disk[n][j])
         \/ disk'[n][j].state = "none" /\ disk[n][j].acked

(* It sends receipts for final entries of its file, and keeps executes for *)
(* jobs it has not started.                                                *)
MessageMove(n) ==
  /\ \A r \in toHub'[n] :
       r \in toHub[n] \/ (/\ r.job \in Job /\ disk'[n][r.job].state \in Final
                          /\ r = AsReceipt(disk'[n], r.job))
  /\ \A m \in toAgent'[n] :
       /\ m \in toAgent[n]
       /\ m.type = "execute" => /\ effect'[m.job] = effect[m.job]
                                /\ cache'[n][m.job].state = "none"
                                /\ disk'[n][m.job].state = "none"

Elsewhere(n) ==
  \A i \in Node \ {n} :
    /\ cache'[i] = cache[i] /\ disk'[i] = disk[i]
    /\ busy'[i] = busy[i] /\ alive'[i] = alive[i]
    /\ toHub'[i] = toHub[i] /\ toAgent'[i] = toAgent[i]

NodeStep(n) ==
  /\ jobs' = jobs /\ sched' = sched
  /\ Elsewhere(n)
  /\ EffectMove(n) /\ FileMove(n) /\ MessageMove(n)
  /\ StoreInv(n)' /\ RunInv(n)'

(* A run that moves is of a job of that agent that has not ended. *)
LEMMA EffectLemma ==
  ASSUME AgentTypeOK, NEW n \in Node, EffectMove(n)
  PROVE  \A j \in Job :
           /\ effect'[j] = effect[j] \/ (/\ jobs[j].node = n
                                         /\ effect[j].phase \in {"none", "running"}
                                         /\ effect'[j].phase # "none")
           /\ effect[j].phase # "none" => effect'[j].phase # "none"
<1>1. effect \in [Job -> Effect]
  BY DEF AgentTypeOK
<1>2. ASSUME NEW i \in Job, NEW e, e.phase # "none", effect' = [effect EXCEPT ![i] = e],
             jobs[i].node = n, effect[i].phase \in {"none", "running"}
      PROVE  \A j \in Job :
               /\ effect'[j] = effect[j] \/ (/\ jobs[j].node = n
                                             /\ effect[j].phase \in {"none", "running"}
                                             /\ effect'[j].phase # "none")
               /\ effect[j].phase # "none" => effect'[j].phase # "none"
  BY <1>1, <1>2
<1>3. CASE effect' = effect
  BY <1>3
<1>4. ASSUME NEW i \in Job, jobs[i].node = n, effect[i].phase = "none",
             effect' = [effect EXCEPT ![i].phase = "running"]
      PROVE  \E e : e.phase # "none" /\ effect' = [effect EXCEPT ![i] = e]
  <2>1. [effect[i] EXCEPT !.phase = "running"].phase = "running"
    BY <1>1 DEF Effect
  <2> WITNESS [effect[i] EXCEPT !.phase = "running"]
  <2> QED BY <1>1, <1>4, <2>1
<1>5. ASSUME NEW i \in Job, NEW o \in Outcomes,
             effect' = [effect EXCEPT ![i] =
                          [phase |-> "ended", state |-> o.state, result |-> o.result]]
      PROVE  \E e : e.phase # "none" /\ effect' = [effect EXCEPT ![i] = e]
  <2> WITNESS [phase |-> "ended", state |-> o.state, result |-> o.result]
  <2> QED BY <1>5
<1>6. ASSUME NEW i \in Job, effect' = [effect EXCEPT ![i].phase = "lost"]
      PROVE  \E e : e.phase # "none" /\ effect' = [effect EXCEPT ![i] = e]
  <2>1. [effect[i] EXCEPT !.phase = "lost"].phase = "lost"
    BY <1>1 DEF Effect
  <2> WITNESS [effect[i] EXCEPT !.phase = "lost"]
  <2> QED BY <1>1, <1>6, <2>1
<1>7. CASE effect' # effect
  <2>1. PICK i \in Job :
          /\ jobs[i].node = n /\ effect[i].phase \in {"none", "running"}
          /\ \E e : e.phase # "none" /\ effect' = [effect EXCEPT ![i] = e]
    BY <1>4, <1>5, <1>6, <1>7 DEF EffectMove
  <2> QED BY <1>2, <2>1
<1> QED BY <1>3, <1>7

(* The result an acknowledgement stands for stays recorded. *)
LEMMA ClosedKept ==
  ASSUME IInv, NEW n \in Node, NodeStep(n), NEW i \in Node, NEW j \in Job, Closed(i, j)
  PROVE  Closed(i, j)'
<1>1. disk[n][j].state # "none" /\ disk[n][j].state # "EXECUTING" => disk[n][j].state \in Final
  BY EntryLemma DEF IInv, AgentTypeOK, Store, Entry
<1>2. jobs' = jobs /\ effect'[j].phase # "none"
  BY EffectLemma DEF NodeStep, IInv, Closed
<1>3. CASE i = n
  BY <1>1, <1>2, <1>3 DEF NodeStep, FileMove, Closed, Recorded, SameResult, Final
<1>4. CASE i # n
  BY <1>2, <1>4 DEF NodeStep, Elsewhere, Closed, Recorded
<1> QED BY <1>3, <1>4

(* At the other agents nothing changes that PathInv speaks of. *)
LEMMA ElsewhereKeeps ==
  ASSUME IInv, NEW n \in Node, NodeStep(n), NEW i \in Node \ {n}
  PROVE  StoreInv(i)' /\ RunInv(i)' /\ \A r \in toHub'[i] : ReceiptInv(i, r)'
<1>1. /\ cache'[i] = cache[i] /\ disk'[i] = disk[i] /\ toHub'[i] = toHub[i]
      /\ busy'[i] = busy[i] /\ alive'[i] = alive[i] /\ jobs' = jobs
  BY DEF NodeStep, Elsewhere
<1>2. \A j \in Job : jobs[j].node = i => effect'[j] = effect[j]
  BY EffectLemma DEF NodeStep, IInv
<1>3. StoreInv(i)
  BY DEF IInv, PathInv
<1>4. ASSUME NEW j \in Job, NEW e \in Entry, EntryOK(i, j, e)
      PROVE  EntryOK(i, j, e)'
  <2>1. CASE e.state = "none"
    BY <1>4, <2>1 DEF EntryOK, Truthful, Final
  <2>2. CASE e.state # "none"
    <3>1. effect'[j] = effect[j]
      BY <1>2, <1>4, <2>2 DEF EntryOK
    <3> QED BY <1>1, <1>4, <3>1 DEF EntryOK, Truthful, Recorded
  <2> QED BY <2>1, <2>2
<1>5. StoreInv(i)'
  <2>1. SUFFICES ASSUME NEW j \in Job
                 PROVE  /\ FileAgrees(i, j)' /\ EntryOK(i, j, cache[i][j])'
                        /\ EntryOK(i, j, disk[i][j])'
                        /\ disk'[i][j].state # "none" => effect'[j].phase # "none"
    BY DEF StoreInv
  <2>2. FileAgrees(i, j)'
    BY <1>1, <1>3 DEF StoreInv, FileAgrees, Done
  <2>3. cache[i][j] \in Entry /\ disk[i][j] \in Entry
    BY DEF IInv, AgentTypeOK, Store
  <2>4. EntryOK(i, j, cache[i][j]) /\ EntryOK(i, j, disk[i][j])
    BY <1>3 DEF StoreInv
  <2>5. EntryOK(i, j, cache[i][j])' /\ EntryOK(i, j, disk[i][j])'
    BY <1>1, <1>4, <2>3, <2>4 DEF EntryOK, Truthful, Recorded
  <2>6. disk[i][j].state # "none" => effect[j].phase # "none"
    BY <1>3 DEF StoreInv
  <2>7. effect[j].phase # "none" => effect'[j].phase # "none"
    BY EffectLemma DEF NodeStep, IInv
  <2> QED BY <1>1, <2>2, <2>5, <2>6, <2>7
<1>6. RunInv(i)'
  <2>1. SUFFICES ASSUME busy[i] # 0
                 PROVE  /\ alive[i] # "down" /\ effect'[busy[i]].phase = "running"
                        /\ cache[i][busy[i]].state = "EXECUTING"
                        /\ disk[i][busy[i]].state = "EXECUTING"
    BY <1>1 DEF RunInv
  <2>2. busy[i] \in Job /\ RunInv(i)
    BY <2>1 DEF IInv, AgentTypeOK, PathInv
  <2>3. jobs[busy[i]].node = i
    BY <1>3, <2>1, <2>2 DEF StoreInv, EntryOK, RunInv
  <2> QED BY <1>2, <2>1, <2>2, <2>3 DEF RunInv
<1>7. ASSUME NEW r \in toHub[i]
      PROVE  ReceiptInv(i, r)'
  <2>1. ReceiptInv(i, r) /\ r.job \in Job
    BY DEF IInv, PathInv, AgentTypeOK, WireTypeOK, Receipt
  <2>2. effect'[r.job] = effect[r.job]
    BY <1>2, <2>1 DEF ReceiptInv
  <2> QED BY <1>1, <2>1, <2>2 DEF ReceiptInv, Truthful, AsReceipt, Recorded
<1> QED BY <1>1, <1>5, <1>6, <1>7

(* The receipts in flight still repeat the file that sent them. *)
LEMMA ReceiptsKept ==
  ASSUME IInv, NEW n \in Node, NodeStep(n), NEW r \in toHub'[n], AgentTypeOK'
  PROVE  ReceiptInv(n, r)'
<1>1. jobs' = jobs /\ StoreInv(n)'
  BY DEF NodeStep
<1>2. r.job \in Job /\ r.state \in ReceiptState
  BY DEF AgentTypeOK, WireTypeOK, Receipt
<1>3. CASE r \in toHub[n]
  <2>1. ReceiptInv(n, r)
    BY <1>3 DEF IInv, PathInv
  <2>2. effect'[r.job].phase # "none"
    BY <1>2, <2>1, EffectLemma DEF ReceiptInv, NodeStep, IInv
  <2>3. Truthful(r.job, r)'
    <3>1. effect[r.job].phase = "ended" => effect'[r.job] = effect[r.job]
      BY <1>2, EffectLemma DEF NodeStep, IInv
    <3> QED BY <2>1, <3>1 DEF ReceiptInv, Truthful
  <2>4. \/ AsReceipt(disk'[n], r.job) = r
        \/ disk'[n][r.job].state = "none" /\ Recorded(r.job, r)
    <3>1. CASE AsReceipt(disk[n], r.job) = r
      <4>1. /\ disk[n][r.job].state = r.state /\ disk[n][r.job].lease = r.lease
            /\ disk[n][r.job].result = r.result
        BY <3>1 DEF AsReceipt
      <4>2. disk[n][r.job].state \in Final
        BY <1>2, <4>1 DEF ReceiptState, Final
      <4>3. CASE SameResult(disk'[n][r.job], disk[n][r.job])
        BY <3>1, <4>3 DEF SameResult, AsReceipt
      <4>4. CASE disk'[n][r.job].state = "none" /\ disk[n][r.job].acked
        BY <1>2, <4>1, <4>4 DEF IInv, PathInv, StoreInv, EntryOK, Recorded
      <4> QED BY <1>2, <4>2, <4>3, <4>4 DEF NodeStep, FileMove
    <3>2. CASE disk[n][r.job].state = "none" /\ Recorded(r.job, r)
      BY <1>2, <2>1, <3>2 DEF ReceiptInv, NodeStep, FileMove
    <3> QED BY <2>1, <3>1, <3>2 DEF ReceiptInv
  <2> QED BY <1>1, <2>1, <2>2, <2>3, <2>4 DEF ReceiptInv, AsReceipt, Recorded
<1>4. CASE r \notin toHub[n]
  <2>1. disk'[n][r.job].state \in Final /\ r = AsReceipt(disk'[n], r.job)
    BY <1>4 DEF NodeStep, MessageMove
  <2>2. /\ r.state = disk'[n][r.job].state /\ r.lease = disk'[n][r.job].lease
        /\ r.result = disk'[n][r.job].result
    BY <2>1 DEF AsReceipt
  <2>3. EntryOK(n, r.job, disk[n][r.job])' /\ effect'[r.job].phase # "none"
    BY <1>1, <1>2, <2>1 DEF StoreInv, Final
  <2> QED BY <1>1, <2>1, <2>2, <2>3 DEF EntryOK, ReceiptInv, Truthful, Final
<1> QED BY <1>3, <1>4

(* The verdicts of the hub stay those of the runs and of the files. *)
LEMMA VerdictsKept ==
  ASSUME IInv, NEW n \in Node, NodeStep(n), NEW j \in Job
  PROVE  VerdictInv(j)'
<1>1. jobs' = jobs /\ VerdictInv(j)
  BY DEF NodeStep, IInv, PathInv
<1>2. jobs[j].state \in {"absent", "QUEUED"} => effect'[j] = effect[j]
  <2>1. jobs[j].state \in {"absent", "QUEUED"} => jobs[j].node \notin Node
    BY FabricConstants DEF IInv, FabricInv, JobsInv, JobShape
  <2> QED BY <2>1, EffectLemma DEF NodeStep, IInv
<1>3. CASE jobs[j].state \in {"SUCCEEDED", "FAILED"}
  <2>1. effect[j].phase = "ended"
    BY <1>1, <1>3 DEF VerdictInv
  <2>2. effect'[j] = effect[j]
    BY <2>1, EffectLemma DEF NodeStep, IInv
  <2>3. ASSUME NEW i \in Node, jobs[j].node = i, disk'[i][j].state # "none"
        PROVE  disk'[i][j].state = jobs[j].state /\ disk'[i][j].result = jobs[j].result
    <3>1. CASE i # n
      BY <1>1, <1>3, <2>3, <3>1 DEF NodeStep, Elsewhere, VerdictInv
    <3>2. CASE i = n
      <4>1. disk[n][j].state # "none"
        BY <2>1, <2>3, <3>2 DEF NodeStep, FileMove
      <4>2. disk[n][j].state = jobs[j].state /\ disk[n][j].result = jobs[j].result
        BY <1>1, <1>3, <2>3, <3>2, <4>1 DEF VerdictInv
      <4>3. SameResult(disk'[n][j], disk[n][j])
        BY <1>3, <2>3, <3>2, <4>2 DEF NodeStep, FileMove, Final
      <4> QED BY <3>2, <4>2, <4>3 DEF SameResult
    <3> QED BY <3>1, <3>2
  <2> QED BY <1>1, <1>3, <2>2, <2>3 DEF VerdictInv
<1>4. CASE jobs[j].state \notin {"SUCCEEDED", "FAILED"}
  BY <1>1, <1>2, <1>4 DEF VerdictInv
<1> QED BY <1>3, <1>4

(* The messages to the agents still say what they may rely on. *)
LEMMA MessagesKept ==
  ASSUME IInv, NEW n \in Node, NodeStep(n), NEW i \in Node, NEW m \in toAgent'[i]
  PROVE  MsgInv(i, m)'
<1>1. m \in toAgent[i]
  BY DEF NodeStep, Elsewhere, MessageMove
<1>2. MsgInv(i, m) /\ m.job \in Job /\ Covered(jobs, i, m)
  BY <1>1 DEF IInv, PathInv, AgentTypeOK, WireTypeOK, AgentMsg, FabricInv, WriteAhead
<1>3. m.type = "ack" => Closed(i, m.job)'
  BY <1>2, ClosedKept DEF MsgInv
<1>4. ASSUME m.type = "execute"
      PROVE  /\ effect'[m.job].phase = "none" /\ cache'[i][m.job].state = "none"
             /\ disk'[i][m.job].state = "none"
  <2>1. CASE i = n
    BY <1>2, <1>4, <2>1 DEF NodeStep, MessageMove, MsgInv
  <2>2. CASE i # n
    <3>1. effect'[m.job] = effect[m.job]
      BY <1>2, <2>2, EffectLemma DEF Covered, NodeStep, IInv
    <3> QED BY <1>2, <1>4, <2>2, <3>1 DEF NodeStep, Elsewhere, MsgInv
  <2> QED BY <2>1, <2>2
<1> QED BY <1>3, <1>4 DEF MsgInv

(* Together: the strengthening survives a step of an agent. *)
LEMMA NodeKeeps ==
  ASSUME IInv, NEW n \in Node, NodeStep(n), AgentTypeOK'
  PROVE  IInv'
<1>1. jobs' = jobs /\ sched' = sched /\ StoreInv(n)' /\ RunInv(n)'
  BY DEF NodeStep
<1>2. FabricInv'
  <2>1. \A i \in Node : \A m \in toAgent'[i] : m \in toAgent[i]
    BY DEF NodeStep, Elsewhere, MessageMove
  <2>2. \A i \in Node : \A m \in toAgent'[i] : Covered(jobs', i, m)
    BY <1>1, <2>1 DEF IInv, FabricInv, WriteAhead
  <2>3. WireTypeOK' /\ JobsInv(jobs') /\ sched' \in Suspended /\ SchedInv(jobs', sched')
    BY <1>1 DEF AgentTypeOK, IInv, FabricInv, FabricTypeOK
  <2> QED BY <2>2, <2>3, AfterLemma
<1>3. \A i \in Node : StoreInv(i)' /\ RunInv(i)' /\ \A r \in toHub'[i] : ReceiptInv(i, r)'
  BY <1>1, ElsewhereKeeps, ReceiptsKept
<1>4. /\ \A j \in Job : VerdictInv(j)'
      /\ \A i \in Node : \A m \in toAgent'[i] : MsgInv(i, m)'
  BY VerdictsKept, MessagesKept
<1>5. \A i \in Node, j \in Job : Acknowledging(i, j)' => Closed(i, j)'
  BY <1>1, ClosedKept DEF Acknowledging, IInv, PathInv
<1>6. PathInv'
  BY <1>3, <1>4, <1>5 DEF PathInv
<1> QED BY <1>2, <1>6 DEF IInv

-----------------------------------------------------------------------------
(* The steps of an agent *)

(* While saves go through, memory and file differ in what was acknowledged *)
(* or pruned.                                                              *)
LEMMA StoreLemma ==
  ASSUME IInv, NEW n \in Node, NEW j \in Job
  PROVE  /\ cache[n][j] \in Entry /\ disk[n][j] \in Entry
         /\ FileAgrees(n, j) /\ EntryOK(n, j, cache[n][j]) /\ EntryOK(n, j, disk[n][j])
         /\ disk[n][j].state # "none" => effect[j].phase # "none"
         /\ ~ Done(n) =>
              /\ cache[n][j].state # "none" => disk[n][j].state # "none"
              /\ cache[n][j].state = "EXECUTING" <=> disk[n][j].state = "EXECUTING"
              /\ cache[n][j].state \in Final => SameResult(cache[n][j], disk[n][j])
<1>1. /\ FileAgrees(n, j) /\ EntryOK(n, j, cache[n][j]) /\ EntryOK(n, j, disk[n][j])
      /\ disk[n][j].state # "none" => effect[j].phase # "none"
  BY DEF IInv, PathInv, StoreInv
<1>2. /\ cache[n][j] \in Entry /\ disk[n][j] \in Entry
  BY DEF IInv, AgentTypeOK, Store
<1>3. /\ cache[n][j].state \in {"none", "EXECUTING"} \cup Final
      /\ disk[n][j].state \in {"none", "EXECUTING"} \cup Final
  BY <1>2, EntryLemma
<1> QED BY <1>1, <1>2, <1>3 DEF FileAgrees, SameResult, Final

(* An entry that is kept, or pruned, is as good as the one in memory. *)
LEMMA KeptLemma ==
  ASSUME IInv, NEW n \in Node, NEW j \in Job, ~ Done(n), NEW e,
         e = cache[n][j] \/ (e = NoEntry /\ cache[n][j].acked /\ alive[n] = "up")
  PROVE  /\ EntryOK(n, j, e)
         /\ e.state # "none" => effect[j].phase # "none"
         /\ disk[n][j].state = "none" => e.state = "none"
         /\ disk[n][j].state \in Final =>
              SameResult(e, disk[n][j]) \/ (e.state = "none" /\ disk[n][j].acked)
<1>1. CASE e = cache[n][j]
  BY <1>1, StoreLemma DEF FileAgrees
<1>2. CASE e = NoEntry /\ cache[n][j].acked /\ alive[n] = "up"
  <2>1. e.state = "none" /\ e.acked = FALSE
    BY <1>2, NoEntryLemma
  <2>2. disk[n][j].acked
    BY <1>2, StoreLemma DEF FileAgrees
  <2>3. EntryOK(n, j, e)
    BY <2>1 DEF EntryOK, Truthful
  <2> QED BY <2>1, <2>2, <2>3
<1> QED BY <1>1, <1>2

(* An entry of a job whose run does not move stays true. *)
LEMMA EntryKept ==
  ASSUME jobs' = jobs, NEW n, NEW j, effect'[j] = effect[j], NEW e, EntryOK(n, j, e)
  PROVE  EntryOK(n, j, e)'
BY DEF EntryOK, Truthful, Recorded

(* What is saved is in both places. *)
LEMMA SavedLemma ==
  ASSUME AgentTypeOK, NEW n \in Node, NEW s \in Store, Save(n, s),
         \A j \in Job : EntryOK(n, j, s[j])' /\ (s[j].state # "none" => effect'[j].phase # "none")
  PROVE  StoreInv(n)'
<1>1. cache'[n] = s /\ disk'[n] = s
  BY SaveTypes
<1>2. \A j \in Job : s[j] \in Entry
  BY DEF Store
<1>3. ASSUME NEW j \in Job PROVE FileAgrees(n, j)'
  BY <1>1, <1>2, EntryLemma DEF FileAgrees, SameResult, Final
<1>4. ASSUME NEW j \in Job PROVE EntryOK(n, j, cache[n][j])' /\ EntryOK(n, j, disk[n][j])'
  BY <1>1 DEF EntryOK, Truthful, Recorded
<1> QED BY <1>1, <1>3, <1>4 DEF StoreInv

(* A change that reached memory only, on an agent that stops. *)
LEMMA UnsavedLemma ==
  ASSUME IInv, NEW n \in Node, NEW s \in Store, SaveFails(n, s), jobs' = jobs,
         \A j \in Job : /\ EntryOK(n, j, s[j])' /\ EntryOK(n, j, disk[n][j])'
                        /\ effect[j].phase # "none" => effect'[j].phase # "none"
                        /\ disk[n][j].state = "none" =>
                             s[j].state = "none" \/ (s[j].state = "EXECUTING" /\ busy'[n] = 0)
                        /\ disk[n][j].state = "EXECUTING" =>
                             s[j].state = "EXECUTING" \/ (s[j].state \in Final /\ busy'[n] = 0)
                        /\ disk[n][j].state \in Final =>
                             \/ SameResult(s[j], disk[n][j])
                             \/ s[j].state = "none" /\ disk[n][j].acked
  PROVE  StoreInv(n)'
<1>1. cache'[n] = s /\ disk' = disk /\ alive'[n] = "stopped"
  BY SaveTypes DEF IInv
<1>2. ASSUME NEW j \in Job PROVE FileAgrees(n, j)'
  BY <1>1 DEF FileAgrees, Done
<1>3. ASSUME NEW j \in Job PROVE EntryOK(n, j, cache[n][j])' /\ EntryOK(n, j, disk[n][j])'
  BY <1>1 DEF EntryOK, Truthful, Recorded
<1>4. ASSUME NEW j \in Job, disk'[n][j].state # "none" PROVE effect'[j].phase # "none"
  BY <1>1, <1>4, StoreLemma
<1> QED BY <1>2, <1>3, <1>4 DEF StoreInv

(* The file after a step that does not write it. *)
LEMMA SameFile ==
  ASSUME NEW n, disk'[n] = disk[n]
  PROVE  FileMove(n)
BY DEF FileMove, SameResult

(* welcome and the timer send the open receipts. *)
LEMMA SendStep ==
  ASSUME IInv, NEW n \in Node, Welcome(n) \/ Resend(n), jobs' = jobs, sched' = sched
  PROVE  NodeStep(n)
<1>1. /\ cache' = cache /\ disk' = disk /\ busy' = busy /\ alive' = alive /\ effect' = effect
      /\ toAgent' = toAgent /\ toHub' = Uploaded(toHub, n, Receipts(cache[n]))
      /\ alive[n] = "up"
  BY DEF Welcome, Resend, agentVars
<1>2. StoreInv(n) /\ RunInv(n) /\ toHub \in [Node -> SUBSET Receipt]
  BY DEF IInv, PathInv, AgentTypeOK, WireTypeOK
<1>3. StoreInv(n)' /\ RunInv(n)'
  BY <1>1, <1>2 DEF StoreInv, RunInv, FileAgrees, Done, EntryOK, Truthful, Recorded
<1>4. Elsewhere(n)
  BY <1>1, <1>2 DEF Elsewhere, Uploaded
<1>5. MessageMove(n)
  <2>1. ASSUME NEW r \in toHub'[n], r \notin toHub[n]
        PROVE  r.job \in Job /\ disk[n][r.job].state \in Final /\ r = AsReceipt(disk[n], r.job)
    <3>1. cache[n] \in Store /\ Receipts(cache[n]) \in SUBSET Receipt
      BY NextStores DEF IInv
    <3>2. r \in Receipts(cache[n])
      BY <1>1, <1>2, <2>1, <3>1, UploadedLemma
    <3>3. r.job \in Job /\ AsReceipt(cache[n], r.job) = r /\ cache[n][r.job].state \in Final
      BY <3>1, <3>2, ReceiptsLemma
    <3>4. SameResult(cache[n][r.job], disk[n][r.job])
      BY <1>1, <3>3, StoreLemma DEF Done
    <3> QED BY <3>3, <3>4 DEF SameResult, AsReceipt
  <2>2. ASSUME NEW m \in toAgent'[n], m.type = "execute"
        PROVE  cache'[n][m.job].state = "none" /\ disk'[n][m.job].state = "none"
    BY <1>1, <2>2 DEF IInv, PathInv, MsgInv
  <2> QED BY <1>1, <2>1, <2>2 DEF MessageMove
<1> QED BY <1>1, <1>3, <1>4, <1>5, SameFile DEF NodeStep, EffectMove

(* An acknowledgement meets an entry that is final, in memory and on file, *)
(* and recorded at the hub.                                                *)
LEMMA AckedLemma ==
  ASSUME IInv, NEW n \in Node, NEW m \in toAgent[n],
         OnAck(n, m) \/ OnAckFails(n, m), Answered(n, m)
  PROVE  /\ m.job \in Job /\ alive[n] = "up"
         /\ cache[n][m.job].state \in Final /\ Recorded(m.job, cache[n][m.job])
<1>1. /\ m \in AgentMsg /\ m.job \in Job /\ alive[n] = "up" /\ MsgInv(n, m) /\ m.type = "ack"
      /\ cache[n][m.job].state # "none"
  BY DEF OnAck, OnAckFails, Receiving, Answered, IInv, PathInv, AgentTypeOK, WireTypeOK, AgentMsg
<1>2. ~ Done(n) /\ Closed(n, m.job)
  BY <1>1 DEF Done, MsgInv
<1>3. cache[n][m.job].state \in Final
  BY <1>1, <1>2, StoreLemma, EntryLemma DEF Closed
<1>4. SameResult(cache[n][m.job], disk[n][m.job])
  BY <1>1, <1>2, <1>3, StoreLemma
<1> QED BY <1>1, <1>2, <1>3, <1>4 DEF Closed, SameResult, Recorded

(* The store with that entry marked. *)
LEMMA MarkedLemma ==
  ASSUME IInv, NEW n \in Node, NEW m \in toAgent[n],
         OnAck(n, m) \/ OnAckFails(n, m), Answered(n, m), NEW s, s = Acked(n, m)
  PROVE  /\ s \in Store
         /\ \A j \in Job :
              /\ s[j].state = cache[n][j].state
              /\ s[j] = cache[n][j] \/ j = m.job
              /\ EntryOK(n, j, s[j])
              /\ s[j].state # "none" => effect[j].phase # "none"
              /\ disk[n][j].state = "none" => s[j].state = "none"
              /\ disk[n][j].state \in Final =>
                   SameResult(s[j], disk[n][j]) \/ (s[j].state = "none" /\ disk[n][j].acked)
<1>1. /\ m.job \in Job /\ m \in AgentMsg /\ ~ Done(n)
      /\ cache[n][m.job].state \in Final /\ Recorded(m.job, cache[n][m.job])
  BY AckedLemma DEF Done, IInv, AgentTypeOK, WireTypeOK
<1>2. cache[n] \in Store /\ s \in Store
  BY <1>1, NextStores DEF IInv
<1>3. \A j \in Job : j # m.job => s[j] = cache[n][j]
  BY <1>2 DEF Acked, Store
<1>4. /\ s[m.job].state = cache[n][m.job].state /\ s[m.job].lease = cache[n][m.job].lease
      /\ s[m.job].result = cache[n][m.job].result /\ s[m.job].acked = TRUE
  BY <1>1, <1>2 DEF Acked, Store, Entry
<1>5. /\ EntryOK(n, m.job, s[m.job])
      /\ effect[m.job].phase # "none"
      /\ disk[n][m.job].state # "none"
      /\ disk[n][m.job].state \in Final => SameResult(s[m.job], disk[n][m.job])
  <2>1. /\ EntryOK(n, m.job, cache[n][m.job])
        /\ SameResult(cache[n][m.job], disk[n][m.job])
        /\ disk[n][m.job].state # "none" => effect[m.job].phase # "none"
    BY <1>1, StoreLemma
  <2>2. EntryOK(n, m.job, s[m.job])
    BY <1>1, <1>4, <2>1 DEF EntryOK, Truthful, Recorded
  <2> QED BY <1>1, <1>4, <2>1, <2>2 DEF SameResult, Final
<1>6. ASSUME NEW j \in Job, j # m.job
      PROVE  /\ EntryOK(n, j, s[j])
             /\ s[j].state # "none" => effect[j].phase # "none"
             /\ disk[n][j].state = "none" => s[j].state = "none"
             /\ disk[n][j].state \in Final =>
                  SameResult(s[j], disk[n][j]) \/ (s[j].state = "none" /\ disk[n][j].acked)
  BY <1>1, <1>3, <1>6, KeptLemma
<1> QED BY <1>2, <1>3, <1>4, <1>5, <1>6

(* receipt.ack, saved. *)
LEMMA AckStep ==
  ASSUME IInv, NEW n \in Node, NEW m \in toAgent[n], OnAck(n, m), jobs' = jobs, sched' = sched
  PROVE  NodeStep(n)
<1>1. /\ busy' = busy /\ alive' = alive /\ effect' = effect /\ toHub' = toHub
      /\ toAgent' = [toAgent EXCEPT ![n] = @ \ {m}] /\ StoreInv(n) /\ RunInv(n)
      /\ toAgent \in [Node -> SUBSET AgentMsg]
      /\ cache \in [Node -> Store] /\ disk \in [Node -> Store] /\ busy[n] \in Job \cup {0}
  BY DEF OnAck, Took, IInv, PathInv, AgentTypeOK, WireTypeOK
<1>2. CASE ~ Answered(n, m)
  <2>1. cache' = cache /\ disk' = disk
    BY <1>2 DEF OnAck
  <2>2. StoreInv(n)' /\ RunInv(n)'
    BY <1>1, <2>1 DEF StoreInv, RunInv, FileAgrees, Done, EntryOK, Truthful, Recorded
  <2>3. Elsewhere(n) /\ MessageMove(n)
    BY <1>1, <2>1 DEF Elsewhere, MessageMove, IInv, PathInv, MsgInv
  <2> QED BY <1>1, <2>1, <2>2, <2>3, SameFile DEF NodeStep, EffectMove
<1>3. CASE Answered(n, m)
  <2>1. PICK s : s = Acked(n, m)
    OBVIOUS
  <2>2. /\ s \in Store
        /\ \A j \in Job :
              /\ s[j].state = cache[n][j].state
              /\ s[j] = cache[n][j] \/ j = m.job
              /\ EntryOK(n, j, s[j])
              /\ s[j].state # "none" => effect[j].phase # "none"
              /\ disk[n][j].state = "none" => s[j].state = "none"
              /\ disk[n][j].state \in Final =>
                   SameResult(s[j], disk[n][j]) \/ (s[j].state = "none" /\ disk[n][j].acked)
    BY <1>3, <2>1, MarkedLemma
  <2>3. Save(n, s) /\ cache'[n] = s /\ disk'[n] = s
    BY <1>3, <2>1, <2>2, SaveTypes DEF OnAck, IInv
  <2>4. StoreInv(n)'
    <3>1. \A j \in Job : EntryOK(n, j, s[j])'
      BY <1>1, <2>2, EntryKept
    <3> QED BY <1>1, <2>2, <2>3, <3>1, SavedLemma DEF IInv
  <2>5. RunInv(n)'
    BY <1>1, <2>2, <2>3 DEF RunInv
  <2>6. Elsewhere(n)
    BY <1>1, <2>3 DEF Elsewhere, Save
  <2>7. FileMove(n)
    BY <2>2, <2>3 DEF FileMove
  <2>8. MessageMove(n)
    <3>1. ASSUME NEW k \in toAgent'[n], k.type = "execute"
          PROVE  k \in toAgent[n] /\ cache'[n][k.job].state = "none" /\ disk'[n][k.job].state = "none"
      <4>1. k \in toAgent[n] /\ k.job \in Job
        BY <1>1 DEF AgentMsg
      <4>2. cache[n][k.job].state = "none"
        BY <3>1, <4>1 DEF IInv, PathInv, MsgInv
      <4> QED BY <2>2, <2>3, <4>1, <4>2
    <3> QED BY <1>1, <3>1 DEF MessageMove
  <2> QED BY <1>1, <2>4, <2>5, <2>6, <2>7, <2>8 DEF NodeStep, EffectMove
<1> QED BY <1>2, <1>3

(* receipt.ack, and the save fails. *)
LEMMA AckFailsStep ==
  ASSUME IInv, NEW n \in Node, NEW m \in toAgent[n], OnAckFails(n, m), jobs' = jobs, sched' = sched
  PROVE  NodeStep(n)
<1>1. PICK s : s = Acked(n, m)
  OBVIOUS
<1>2. /\ s \in Store
      /\ \A j \in Job :
            /\ s[j].state = cache[n][j].state
            /\ EntryOK(n, j, s[j])
            /\ disk[n][j].state = "none" => s[j].state = "none"
            /\ disk[n][j].state \in Final =>
                 SameResult(s[j], disk[n][j]) \/ (s[j].state = "none" /\ disk[n][j].acked)
  BY <1>1, MarkedLemma DEF OnAckFails
<1>3. /\ SaveFails(n, s) /\ cache'[n] = s /\ disk' = disk /\ alive'[n] = "stopped"
      /\ toAgent'[n] = {}
  BY <1>1, <1>2, SaveTypes DEF OnAckFails, IInv
<1>4. /\ busy' = busy /\ effect' = effect /\ toHub' = toHub /\ alive[n] = "up"
      /\ RunInv(n) /\ busy[n] \in Job \cup {0}
      /\ cache \in [Node -> Store] /\ alive \in [Node -> {"up", "stopped", "down"}]
      /\ toAgent \in [Node -> SUBSET AgentMsg]
  BY DEF OnAckFails, Receiving, IInv, PathInv, AgentTypeOK, WireTypeOK
<1>5. StoreInv(n)'
  <2>1. ASSUME NEW j \in Job
        PROVE  /\ EntryOK(n, j, s[j])' /\ EntryOK(n, j, disk[n][j])'
               /\ disk[n][j].state = "EXECUTING" => s[j].state = "EXECUTING"
    <3>1. EntryOK(n, j, disk[n][j])
      BY StoreLemma
    <3>2. EntryOK(n, j, disk[n][j])'
      BY <1>3, <1>4, <3>1 DEF EntryOK, Truthful, Recorded
    <3>3. EntryOK(n, j, s[j])'
      BY <1>2, <1>4, EntryKept
    <3>4. disk[n][j].state = "EXECUTING" => cache[n][j].state = "EXECUTING"
      BY <1>4, StoreLemma DEF Done
    <3> QED BY <1>2, <3>2, <3>3, <3>4
  <2> QED BY <1>2, <1>3, <1>4, <2>1, UnsavedLemma
<1>6. RunInv(n)'
  BY <1>2, <1>3, <1>4 DEF RunInv
<1>7. Elsewhere(n)
  BY <1>3, <1>4 DEF Elsewhere, SaveFails
<1>8. MessageMove(n)
  BY <1>3, <1>4 DEF MessageMove
<1> QED BY <1>3, <1>4, <1>5, <1>6, <1>7, <1>8, SameFile DEF NodeStep, EffectMove

(* The hub sends one execute per job, and the agent has no entry for it. *)
LEMMA FreshLemma ==
  ASSUME IInv, NEW n \in Node, NEW m \in toAgent[n], m.type = "execute"
  PROVE  /\ m \in AgentMsg /\ m.job \in Job /\ m.lease \in Lease
         /\ jobs[m.job].node = n /\ jobs[m.job].lease = m.lease
         /\ effect[m.job].phase = "none"
         /\ cache[n][m.job].state = "none" /\ disk[n][m.job].state = "none"
         /\ \A k \in toAgent[n] : k.type = "execute" /\ k.job = m.job => k = m
<1>1. m \in AgentMsg /\ MsgInv(n, m) /\ Covered(jobs, n, m)
  BY DEF IInv, AgentTypeOK, WireTypeOK, PathInv, FabricInv, WriteAhead
<1>2. ASSUME NEW k \in toAgent[n], k.type = "execute", k.job = m.job
      PROVE  k = m
  <2>1. k \in AgentMsg /\ Covered(jobs, n, k)
    BY DEF IInv, AgentTypeOK, WireTypeOK, FabricInv, WriteAhead
  <2>2. k.lease = m.lease
    BY <1>1, <1>2, <2>1 DEF Covered
  <2> QED BY <1>1, <1>2, <2>1, <2>2 DEF AgentMsg
<1> QED BY <1>1, <1>2 DEF AgentMsg, MsgInv, Covered

(* A refused execute prunes memory and closes the socket. *)
LEMMA RefuseStep ==
  ASSUME IInv, NEW n \in Node, NEW m \in toAgent[n], OnRefuse(n, m), jobs' = jobs, sched' = sched
  PROVE  NodeStep(n)
<1>1. /\ cache \in [Node -> Store] /\ cache[n] \in Store /\ RunInv(n) /\ busy[n] \in Job \cup {0}
      /\ conn \in [Node -> {"closed", "opening", "ready"}]
      /\ toAgent \in [Node -> SUBSET AgentMsg]
  BY DEF IInv, PathInv, AgentTypeOK, WireTypeOK
<1>2. PICK s \in Pruned(cache[n]) : cache' = [cache EXCEPT ![n] = s]
  BY DEF OnRefuse
<1>3. s \in Store /\ \A j \in Job : s[j] = cache[n][j] \/ (s[j] = NoEntry /\ cache[n][j].acked)
  BY <1>1, <1>2, PrunedLemma
<1>4. /\ cache'[n] = s /\ disk' = disk /\ busy' = busy /\ alive' = alive /\ effect' = effect
      /\ toHub' = toHub /\ alive[n] = "up" /\ toAgent' = [toAgent EXCEPT ![n] = {}]
  BY <1>1, <1>2 DEF OnRefuse, CloseSocket, Receiving
<1>5. StoreInv(n)'
  <2>1. SUFFICES ASSUME NEW j \in Job
                 PROVE  /\ FileAgrees(n, j)' /\ EntryOK(n, j, cache[n][j])'
                        /\ EntryOK(n, j, disk[n][j])'
                        /\ disk'[n][j].state # "none" => effect'[j].phase # "none"
    BY DEF StoreInv
  <2>2. /\ FileAgrees(n, j) /\ EntryOK(n, j, disk[n][j]) /\ EntryOK(n, j, s[j])
        /\ disk[n][j].state # "none" => effect[j].phase # "none"
        /\ disk[n][j].state = "none" => s[j].state = "none"
        /\ disk[n][j].state \in Final =>
             SameResult(s[j], disk[n][j]) \/ (s[j].state = "none" /\ disk[n][j].acked)
    BY <1>3, <1>4, StoreLemma, KeptLemma DEF Done
  <2>3. EntryOK(n, j, disk[n][j])' /\ EntryOK(n, j, cache[n][j])'
    BY <1>4, <2>2 DEF EntryOK, Truthful, Recorded
  <2>4. s[j].acked => cache[n][j].acked
    BY <1>3, NoEntryLemma
  <2>5. disk[n][j].state = "EXECUTING" => s[j].state = "EXECUTING"
    <3>1. cache[n][j].state = "EXECUTING" => ~ cache[n][j].acked
      BY StoreLemma DEF EntryOK, Final
    <3>2. disk[n][j].state = "EXECUTING" => cache[n][j].state = "EXECUTING"
      BY <1>4, StoreLemma DEF Done
    <3> QED BY <1>3, <3>1, <3>2
  <2>6. FileAgrees(n, j)'
    BY <1>4, <2>2, <2>4, <2>5 DEF FileAgrees, Done
  <2> QED BY <1>4, <2>2, <2>3, <2>6
<1>6. RunInv(n)'
  <2>1. SUFFICES ASSUME busy[n] # 0 PROVE s[busy[n]].state = "EXECUTING"
    BY <1>1, <1>4 DEF RunInv
  <2>2. busy[n] \in Job /\ cache[n][busy[n]].state = "EXECUTING"
    BY <1>1, <2>1 DEF RunInv
  <2>3. ~ cache[n][busy[n]].acked
    BY <2>2, StoreLemma DEF EntryOK, Final
  <2> QED BY <1>3, <2>2, <2>3
<1>7. Elsewhere(n)
  BY <1>1, <1>2, <1>4 DEF Elsewhere
<1>8. MessageMove(n)
  BY <1>1, <1>4 DEF MessageMove
<1> QED BY <1>4, <1>5, <1>6, <1>7, <1>8, SameFile DEF NodeStep, EffectMove

(* The store an execute starts from, with the new job as EXECUTING. *)
LEMMA BegunLemma ==
  ASSUME IInv, NEW n \in Node, NEW m \in toAgent[n], m.type = "execute", alive[n] = "up",
         NEW t \in Pruned(cache[n]), NEW s, s = WithExecuting(t, m)
  PROVE  /\ s \in Store /\ s[m.job].state = "EXECUTING"
         /\ EntryOK(n, m.job, s[m.job])
         /\ \A j \in Job \ {m.job} :
              /\ cache[n][j].state = "none" => s[j].state = "none"
              /\ cache[n][j].state = "EXECUTING" => s[j].state = "EXECUTING"
              /\ EntryOK(n, j, s[j])
              /\ s[j].state # "none" => effect[j].phase # "none"
              /\ disk[n][j].state = "none" => s[j].state = "none"
              /\ disk[n][j].state \in Final =>
                   SameResult(s[j], disk[n][j]) \/ (s[j].state = "none" /\ disk[n][j].acked)
<1>1. /\ m \in AgentMsg /\ m.job \in Job /\ m.lease \in Lease
      /\ jobs[m.job].node = n /\ jobs[m.job].lease = m.lease
  BY FreshLemma
<1>2. cache[n] \in Store
  BY DEF IInv, AgentTypeOK
<1>3. t \in Store /\ \A j \in Job : t[j] = cache[n][j] \/ (t[j] = NoEntry /\ cache[n][j].acked)
  BY <1>2, PrunedLemma
<1>4. s \in Store
  BY <1>1, <1>3, NextStores DEF IInv
<1>5. /\ s[m.job] = [state |-> "EXECUTING", lease |-> m.lease, result |-> NoResult, acked |-> FALSE]
      /\ \A j \in Job \ {m.job} : s[j] = t[j]
  BY <1>1, <1>3 DEF WithExecuting, Store
<1>6. /\ s[m.job].state = "EXECUTING" /\ s[m.job].lease = m.lease /\ s[m.job].acked = FALSE
  BY <1>5
<1>7. EntryOK(n, m.job, s[m.job])
  BY <1>1, <1>6 DEF EntryOK, Truthful
<1>8. ASSUME NEW j \in Job \ {m.job}
      PROVE  /\ cache[n][j].state = "none" => s[j].state = "none"
             /\ cache[n][j].state = "EXECUTING" => s[j].state = "EXECUTING"
             /\ EntryOK(n, j, s[j])
             /\ s[j].state # "none" => effect[j].phase # "none"
             /\ disk[n][j].state = "none" => s[j].state = "none"
             /\ disk[n][j].state \in Final =>
                  SameResult(s[j], disk[n][j]) \/ (s[j].state = "none" /\ disk[n][j].acked)
  <2>1. s[j] = cache[n][j] \/ (s[j] = NoEntry /\ cache[n][j].acked)
    BY <1>3, <1>5
  <2>2. cache[n][j].acked => cache[n][j].state \in Final
    BY StoreLemma DEF EntryOK
  <2>3. NoEntry.state = "none"
    BY NoEntryLemma
  <2>4. cache[n][j].state = "none" => s[j].state = "none"
    BY <2>1, <2>3
  <2>5. cache[n][j].state = "EXECUTING" => s[j].state = "EXECUTING"
    BY <2>1, <2>2 DEF Final
  <2> QED BY <2>1, <2>4, <2>5, KeptLemma DEF Done
<1> QED BY <1>4, <1>6, <1>7, <1>8

(* A job starts. *)
LEMMA ExecuteStep ==
  ASSUME IInv, NEW n \in Node, NEW m \in toAgent[n], OnExecute(n, m), jobs' = jobs, sched' = sched
  PROVE  NodeStep(n)
<1>1. /\ cache \in [Node -> Store] /\ disk \in [Node -> Store] /\ effect \in [Job -> Effect]
      /\ busy \in [Node -> Job \cup {0}] /\ toAgent \in [Node -> SUBSET AgentMsg]
      /\ m.type = "execute" /\ alive[n] = "up"
  BY DEF OnExecute, Receiving, IInv, AgentTypeOK, WireTypeOK
<1>2. PICK t \in Pruned(cache[n]) : Save(n, WithExecuting(t, m))
  BY DEF OnExecute
<1>3. PICK s : s = WithExecuting(t, m)
  OBVIOUS
<1>4. /\ m.job \in Job /\ jobs[m.job].node = n /\ effect[m.job].phase = "none"
      /\ cache[n][m.job].state = "none" /\ disk[n][m.job].state = "none"
      /\ \A k \in toAgent[n] : k.type = "execute" /\ k.job = m.job => k = m
  BY <1>1, FreshLemma
<1>5. /\ s \in Store /\ s[m.job].state = "EXECUTING"
      /\ EntryOK(n, m.job, s[m.job])
      /\ \A j \in Job \ {m.job} :
           /\ cache[n][j].state = "none" => s[j].state = "none"
           /\ EntryOK(n, j, s[j])
           /\ s[j].state # "none" => effect[j].phase # "none"
           /\ disk[n][j].state = "none" => s[j].state = "none"
           /\ disk[n][j].state \in Final =>
                SameResult(s[j], disk[n][j]) \/ (s[j].state = "none" /\ disk[n][j].acked)
  BY <1>1, <1>3, BegunLemma
<1>6. Save(n, s) /\ cache'[n] = s /\ disk'[n] = s
  BY <1>2, <1>3, <1>5, SaveTypes DEF IInv
<1>7. /\ busy' = [busy EXCEPT ![n] = m.job] /\ alive' = alive /\ toHub' = toHub
      /\ toAgent' = [toAgent EXCEPT ![n] = @ \ {m}]
      /\ effect' = [effect EXCEPT ![m.job].phase = "running"]
  BY <1>1, <1>4 DEF OnExecute, Started, Took
<1>8. /\ effect'[m.job].phase = "running" /\ \A j \in Job \ {m.job} : effect'[j] = effect[j]
  BY <1>1, <1>4, <1>7 DEF Effect
<1>9. StoreInv(n)'
  <2>1. EntryOK(n, m.job, s[m.job])'
    BY <1>5 DEF EntryOK, Truthful, Final
  <2>2. ASSUME NEW j \in Job \ {m.job} PROVE EntryOK(n, j, s[j])'
    BY <1>5, <1>8, EntryKept
  <2>3. \A j \in Job : s[j].state # "none" => effect'[j].phase # "none"
    BY <1>5, <1>8
  <2> QED BY <1>5, <1>6, <2>1, <2>2, <2>3, SavedLemma DEF IInv
<1>10. RunInv(n)'
  BY <1>1, <1>4, <1>5, <1>6, <1>7, <1>8 DEF RunInv
<1>11. Elsewhere(n)
  BY <1>1, <1>6, <1>7 DEF Elsewhere, Save
<1>12. FileMove(n)
  BY <1>4, <1>5, <1>6 DEF FileMove, Final
<1>13. MessageMove(n)
  <2>1. ASSUME NEW k \in toAgent'[n], k.type = "execute"
        PROVE  /\ k \in toAgent[n] /\ effect'[k.job] = effect[k.job]
               /\ cache'[n][k.job].state = "none" /\ disk'[n][k.job].state = "none"
    <3>1. k \in toAgent[n] /\ k # m
      BY <1>1, <1>7
    <3>2. k.job \in Job \ {m.job} /\ cache[n][k.job].state = "none"
      BY <1>4, <2>1, <3>1, FreshLemma
    <3> QED BY <1>5, <1>6, <1>8, <3>1, <3>2
  <2>2. \A k \in toAgent'[n] : k \in toAgent[n]
    BY <1>1, <1>7
  <2> QED BY <1>7, <2>1, <2>2 DEF MessageMove
<1>14. EffectMove(n)
  BY <1>4, <1>7 DEF EffectMove
<1> QED BY <1>9, <1>10, <1>11, <1>12, <1>13, <1>14 DEF NodeStep

(* A job would start, but its entry cannot be saved. *)
LEMMA ExecuteFailsStep ==
  ASSUME IInv, NEW n \in Node, NEW m \in toAgent[n], OnExecuteFails(n, m),
         jobs' = jobs, sched' = sched
  PROVE  NodeStep(n)
<1>1. /\ cache \in [Node -> Store] /\ alive \in [Node -> {"up", "stopped", "down"}]
      /\ toAgent \in [Node -> SUBSET AgentMsg]
      /\ m.type = "execute" /\ alive[n] = "up" /\ busy[n] = 0
  BY DEF OnExecuteFails, Receiving, IInv, AgentTypeOK, WireTypeOK
<1>2. PICK t \in Pruned(cache[n]) : SaveFails(n, WithExecuting(t, m))
  BY DEF OnExecuteFails
<1>3. PICK s : s = WithExecuting(t, m)
  OBVIOUS
<1>4. disk[n][m.job].state = "none" /\ m.job \in Job
  BY <1>1, FreshLemma
<1>5. /\ s \in Store /\ s[m.job].state = "EXECUTING"
      /\ EntryOK(n, m.job, s[m.job])
      /\ \A j \in Job \ {m.job} :
           /\ cache[n][j].state = "EXECUTING" => s[j].state = "EXECUTING"
           /\ EntryOK(n, j, s[j])
           /\ disk[n][j].state = "none" => s[j].state = "none"
           /\ disk[n][j].state \in Final =>
                SameResult(s[j], disk[n][j]) \/ (s[j].state = "none" /\ disk[n][j].acked)
  BY <1>1, <1>3, BegunLemma
<1>6. /\ SaveFails(n, s) /\ cache'[n] = s /\ disk' = disk /\ alive'[n] = "stopped"
      /\ toAgent'[n] = {}
  BY <1>2, <1>3, <1>5, SaveTypes DEF IInv
<1>7. busy' = busy /\ effect' = effect /\ toHub' = toHub
  BY DEF OnExecuteFails
<1>8. StoreInv(n)'
  <2>1. ASSUME NEW j \in Job
        PROVE  EntryOK(n, j, s[j])' /\ EntryOK(n, j, disk[n][j])'
    <3>1. EntryOK(n, j, disk[n][j]) /\ EntryOK(n, j, s[j])
      BY <1>5, StoreLemma
    <3>2. EntryOK(n, j, disk[n][j])'
      BY <1>6, <1>7, <3>1 DEF EntryOK, Truthful, Recorded
    <3>3. EntryOK(n, j, s[j])'
      BY <1>7, <3>1, EntryKept
    <3> QED BY <3>2, <3>3
  <2>2. ASSUME NEW j \in Job
        PROVE  /\ disk[n][j].state = "none" =>
                    s[j].state = "none" \/ (s[j].state = "EXECUTING" /\ busy'[n] = 0)
               /\ disk[n][j].state = "EXECUTING" => s[j].state = "EXECUTING"
               /\ disk[n][j].state \in Final =>
                    SameResult(s[j], disk[n][j]) \/ (s[j].state = "none" /\ disk[n][j].acked)
    <3>1. disk[n][j].state = "EXECUTING" => cache[n][j].state = "EXECUTING"
      BY <1>1, StoreLemma DEF Done
    <3> QED BY <1>1, <1>4, <1>5, <1>7, <3>1 DEF Final
  <2> QED BY <1>5, <1>6, <1>7, <2>1, <2>2, UnsavedLemma
<1>9. RunInv(n)'
  BY <1>1, <1>7 DEF RunInv
<1>10. Elsewhere(n)
  BY <1>1, <1>6, <1>7 DEF Elsewhere, SaveFails
<1>11. MessageMove(n)
  BY <1>6, <1>7 DEF MessageMove
<1> QED BY <1>6, <1>7, <1>8, <1>9, <1>10, <1>11, SameFile DEF NodeStep, EffectMove

(* The run that ends is the one the agent's job and its entries wait for. *)
LEMMA OutcomeLemma ==
  ASSUME IInv, NEW n \in Node, NEW b, b = busy[n], b # 0, NEW o \in Outcomes,
         NEW s, s = WithOutcome(n, o), effect' = Ended(b, o), jobs' = jobs
  PROVE  /\ b \in Job /\ ~ Done(n) /\ s \in Store
         /\ jobs[b].node = n
         /\ effect[b].phase = "running"
         /\ effect' = [effect EXCEPT ![b] =
                         [phase |-> "ended", state |-> o.state, result |-> o.result]]
         /\ disk[n][b].state = "EXECUTING" /\ s[b].state \in Final
         /\ cache[n][b].state = "EXECUTING"
         /\ \A j \in Job \ {b} : s[j] = cache[n][j] /\ effect'[j] = effect[j]
         /\ \A j \in Job : /\ EntryOK(n, j, s[j])'
                           /\ s[j].state # "none" => effect'[j].phase # "none"
                           /\ effect[j].phase # "none" => effect'[j].phase # "none"
<1>1. /\ b \in Job /\ RunInv(n) /\ effect \in [Job -> Effect] /\ cache[n] \in Store
  BY DEF IInv, AgentTypeOK, PathInv
<1>2. /\ effect[b].phase = "running" /\ ~ Done(n)
      /\ cache[n][b].state = "EXECUTING" /\ disk[n][b].state = "EXECUTING"
  BY <1>1 DEF RunInv, Done
<1>3. s \in Store
  BY NextStores DEF IInv
<1>4. /\ s[b].state = o.state /\ s[b].lease = cache[n][b].lease
      /\ s[b].result = o.result /\ s[b].acked = cache[n][b].acked
      /\ \A j \in Job \ {b} : s[j] = cache[n][j]
  BY <1>1 DEF WithOutcome, Store
<1>5. effect' = [effect EXCEPT ![b] = [phase |-> "ended", state |-> o.state, result |-> o.result]]
  BY <1>1, <1>2 DEF Ended
<1>6. /\ effect'[b] = [phase |-> "ended", state |-> o.state, result |-> o.result]
      /\ \A j \in Job \ {b} : effect'[j] = effect[j]
  BY <1>1, <1>5
<1>7. EntryOK(n, b, cache[n][b]) /\ ~ cache[n][b].acked
  BY <1>1, <1>2, StoreLemma DEF EntryOK, Final
<1>8. o.state \in {"SUCCEEDED", "FAILED"}
  BY DEF Outcomes
<1>9. EntryOK(n, b, s[b])'
  <2>1. jobs[b].node = n /\ jobs[b].lease = s[b].lease /\ ~ s[b].acked
    BY <1>2, <1>4, <1>7, <1>1, <1>3 DEF EntryOK, Store, Entry
  <2> QED BY <1>4, <1>6, <1>8, <2>1 DEF EntryOK, Truthful
<1>10. ASSUME NEW j \in Job \ {b}
       PROVE  /\ EntryOK(n, j, s[j])'
              /\ s[j].state # "none" => effect'[j].phase # "none"
  <2>1. EntryOK(n, j, s[j]) /\ (s[j].state # "none" => effect[j].phase # "none")
    BY <1>2, <1>4, KeptLemma
  <2>2. EntryOK(n, j, s[j])'
    BY <1>6, <2>1, EntryKept
  <2> QED BY <1>6, <2>1, <2>2
<1>11. \A j \in Job : effect[j].phase # "none" => effect'[j].phase # "none"
  BY <1>6
<1>12. jobs[b].node = n /\ s[b].state \in Final
  BY <1>2, <1>4, <1>7, <1>8 DEF EntryOK, Final
<1>13. \A j \in Job : EntryOK(n, j, s[j])' /\ (s[j].state # "none" => effect'[j].phase # "none")
  BY <1>6, <1>9, <1>10
<1> QED BY <1>1, <1>2, <1>3, <1>4, <1>5, <1>6, <1>11, <1>12, <1>13

(* The executor settles, and the result is saved and sent. *)
LEMMA FinishStep ==
  ASSUME IInv, NEW n \in Node, NEW o \in Outcomes, Finish(n, o), jobs' = jobs, sched' = sched
  PROVE  NodeStep(n)
<1>1. /\ cache \in [Node -> Store] /\ disk \in [Node -> Store]
      /\ busy \in [Node -> Job \cup {0}] /\ toAgent \in [Node -> SUBSET AgentMsg]
      /\ toHub \in [Node -> SUBSET Receipt]
  BY DEF IInv, AgentTypeOK, WireTypeOK
<1>2. PICK s : s = WithOutcome(n, o)
  OBVIOUS
<1>3. /\ busy[n] # 0 /\ effect' = Ended(busy[n], o) /\ Save(n, s)
      /\ toHub' = Uploaded(toHub, n, Receipts(s)) /\ toAgent' = toAgent /\ alive' = alive
      /\ busy' = [busy EXCEPT ![n] = 0]
  BY <1>2 DEF Finish
<1>0. PICK b : b = busy[n]
  OBVIOUS
<1>4. /\ b \in Job /\ ~ Done(n) /\ s \in Store
      /\ jobs[b].node = n
      /\ effect[b].phase = "running"
      /\ effect' = [effect EXCEPT ![b] =
                      [phase |-> "ended", state |-> o.state, result |-> o.result]]
      /\ disk[n][b].state = "EXECUTING"
      /\ cache[n][b].state = "EXECUTING"
      /\ \A j \in Job \ {b} : s[j] = cache[n][j] /\ effect'[j] = effect[j]
      /\ \A j \in Job : /\ EntryOK(n, j, s[j])'
                        /\ s[j].state # "none" => effect'[j].phase # "none"
  BY <1>2, <1>3, <1>0, OutcomeLemma
<1>5. cache'[n] = s /\ disk'[n] = s
  BY <1>3, <1>4, SaveTypes DEF IInv
<1>6. StoreInv(n)'
  BY <1>3, <1>4, SavedLemma DEF IInv
<1>7. RunInv(n)'
  BY <1>1, <1>3 DEF RunInv
<1>8. Elsewhere(n)
  BY <1>1, <1>3 DEF Elsewhere, Save, Uploaded
<1>9. FileMove(n)
  <2>1. ASSUME NEW j \in Job \ {b}
        PROVE  /\ disk[n][j].state = "none" => s[j].state = "none"
               /\ disk[n][j].state \in Final =>
                    SameResult(s[j], disk[n][j]) \/ (s[j].state = "none" /\ disk[n][j].acked)
    BY <1>4, KeptLemma
  <2> QED BY <1>4, <1>5, <2>1 DEF FileMove, Final
<1>10. MessageMove(n)
  <2>1. ASSUME NEW r \in toHub'[n], r \notin toHub[n]
        PROVE  r.job \in Job /\ s[r.job].state \in Final /\ r = AsReceipt(s, r.job)
    BY <1>1, <1>3, <1>4, <2>1, ReceiptsLemma, UploadedLemma
  <2>2. ASSUME NEW k \in toAgent[n], k.type = "execute"
        PROVE  effect'[k.job] = effect[k.job] /\ s[k.job].state = "none"
    <3>1. k.job \in Job /\ cache[n][k.job].state = "none"
      BY <2>2, FreshLemma
    <3>2. k.job # b
      BY <1>4, <3>1
    <3> QED BY <1>4, <3>1, <3>2
  <2> QED BY <1>3, <1>5, <2>1, <2>2 DEF MessageMove, AsReceipt
<1>11. EffectMove(n)
  BY <1>4 DEF EffectMove
<1> QED BY <1>6, <1>7, <1>8, <1>9, <1>10, <1>11 DEF NodeStep

(* The executor settles, and the result cannot be saved. *)
LEMMA FinishFailsStep ==
  ASSUME IInv, NEW n \in Node, NEW o \in Outcomes, FinishFails(n, o), jobs' = jobs, sched' = sched
  PROVE  NodeStep(n)
<1>1. /\ cache \in [Node -> Store] /\ alive \in [Node -> {"up", "stopped", "down"}]
      /\ busy \in [Node -> Job \cup {0}] /\ toAgent \in [Node -> SUBSET AgentMsg]
  BY DEF IInv, AgentTypeOK, WireTypeOK
<1>2. PICK s : s = WithOutcome(n, o)
  OBVIOUS
<1>3. /\ busy[n] # 0 /\ effect' = Ended(busy[n], o) /\ SaveFails(n, s)
      /\ toHub' = toHub /\ busy' = [busy EXCEPT ![n] = 0] /\ busy'[n] = 0
  BY <1>1, <1>2 DEF FinishFails
<1>0. PICK b : b = busy[n]
  OBVIOUS
<1>4. /\ b \in Job /\ ~ Done(n) /\ s \in Store
      /\ jobs[b].node = n
      /\ effect[b].phase = "running"
      /\ effect' = [effect EXCEPT ![b] =
                      [phase |-> "ended", state |-> o.state, result |-> o.result]]
      /\ disk[n][b].state = "EXECUTING" /\ s[b].state \in Final
      /\ \A j \in Job \ {b} : s[j] = cache[n][j] /\ effect'[j] = effect[j]
      /\ \A j \in Job : /\ EntryOK(n, j, s[j])'
                        /\ effect[j].phase # "none" => effect'[j].phase # "none"
  BY <1>2, <1>3, <1>0, OutcomeLemma
<1>5. cache'[n] = s /\ disk' = disk /\ toAgent'[n] = {}
  BY <1>3, <1>4, SaveTypes DEF IInv
<1>6. StoreInv(n)'
  <2>1. ASSUME NEW j \in Job
        PROVE  EntryOK(n, j, disk[n][j])'
    <3>1. EntryOK(n, j, disk[n][j])
      BY StoreLemma
    <3>2. CASE j = b
      BY <1>4, <1>5, <3>1, <3>2 DEF EntryOK, Truthful, Recorded, Final
    <3>3. CASE j # b
      BY <1>4, <1>5, <3>1, <3>3 DEF EntryOK, Truthful, Recorded
    <3> QED BY <3>2, <3>3
  <2>2. ASSUME NEW j \in Job
        PROVE  /\ disk[n][j].state = "none" => s[j].state = "none"
               /\ disk[n][j].state = "EXECUTING" =>
                    s[j].state = "EXECUTING" \/ (s[j].state \in Final /\ busy'[n] = 0)
               /\ disk[n][j].state \in Final =>
                    SameResult(s[j], disk[n][j]) \/ (s[j].state = "none" /\ disk[n][j].acked)
    <3>1. CASE j = b
      BY <1>3, <1>4, <3>1 DEF Final
    <3>2. CASE j # b
      <4>1. s[j] = cache[n][j]
        BY <1>4, <3>2
      <4>2. disk[n][j].state = "EXECUTING" => cache[n][j].state = "EXECUTING"
        BY <1>4, StoreLemma
      <4> QED BY <1>4, <4>1, <4>2, KeptLemma
    <3> QED BY <3>1, <3>2
  <2> QED BY <1>3, <1>4, <2>1, <2>2, UnsavedLemma
<1>7. RunInv(n)'
  BY <1>3 DEF RunInv
<1>8. Elsewhere(n)
  BY <1>1, <1>3 DEF Elsewhere, SaveFails
<1>9. MessageMove(n)
  BY <1>3, <1>5 DEF MessageMove
<1>10. EffectMove(n)
  BY <1>4 DEF EffectMove
<1>11. disk'[n] = disk[n]
  BY <1>5
<1> QED BY <1>6, <1>7, <1>8, <1>9, <1>10, <1>11, SameFile DEF NodeStep

(* A stopping agent closes its socket. *)
LEMMA StopStep ==
  ASSUME IInv, NEW n \in Node, Stop(n), jobs' = jobs, sched' = sched
  PROVE  NodeStep(n)
<1>1. /\ cache' = cache /\ disk' = disk /\ busy' = busy /\ effect' = effect /\ toHub' = toHub
      /\ alive' = [alive EXCEPT ![n] = "stopped"] /\ alive[n] = "up"
      /\ toAgent' = [toAgent EXCEPT ![n] = {}]
  BY DEF Stop, CloseSocket
<1>2. /\ alive \in [Node -> {"up", "stopped", "down"}] /\ toAgent \in [Node -> SUBSET AgentMsg]
      /\ StoreInv(n) /\ RunInv(n)
  BY DEF IInv, PathInv, AgentTypeOK, WireTypeOK
<1>3. alive'[n] = "stopped" /\ toAgent'[n] = {}
  BY <1>1, <1>2
<1>4. ASSUME NEW j \in Job PROVE FileAgrees(n, j)'
  <2>1. FileAgrees(n, j) /\ ~ Done(n)
    BY <1>1, StoreLemma DEF Done
  <2> QED BY <1>1, <1>3, <2>1 DEF FileAgrees
<1>5. StoreInv(n)' /\ RunInv(n)'
  BY <1>1, <1>2, <1>3, <1>4 DEF StoreInv, RunInv, EntryOK, Truthful, Recorded
<1>6. Elsewhere(n) /\ MessageMove(n)
  BY <1>1, <1>2, <1>3 DEF Elsewhere, MessageMove
<1> QED BY <1>1, <1>5, <1>6, SameFile DEF NodeStep, EffectMove

(* A starting agent marks what was running as uncertain, and prunes. *)
LEMMA StartStep ==
  ASSUME IInv, NEW n \in Node, Start(n), jobs' = jobs, sched' = sched
  PROVE  NodeStep(n)
<1>1. /\ busy' = busy /\ effect' = effect /\ toHub' = toHub /\ toAgent' = toAgent
      /\ alive[n] = "down" /\ alive' = [alive EXCEPT ![n] = "up"]
  BY DEF Start, wireVars
<1>2. /\ alive \in [Node -> {"up", "stopped", "down"}] /\ RunInv(n) /\ disk[n] \in Store
      /\ cache \in [Node -> Store] /\ disk \in [Node -> Store]
      /\ toAgent \in [Node -> SUBSET AgentMsg]
  BY DEF IInv, PathInv, AgentTypeOK, WireTypeOK
<1>3. PICK s \in Pruned(Loaded(disk[n])) : Save(n, s)
  BY DEF Start
<1>4. PICK l : l = Loaded(disk[n])
  OBVIOUS
<1>5. /\ l \in Store
      /\ \A j \in Job : /\ l[j].acked = disk[n][j].acked
                        /\ IF disk[n][j].state = "EXECUTING" THEN l[j].state = "UNKNOWN"
                           ELSE l[j] = disk[n][j]
      /\ \A j \in Job : disk[n][j].state = "EXECUTING" =>
           l[j] = [state |-> "UNKNOWN", lease |-> disk[n][j].lease,
                   result |-> NoResult, acked |-> disk[n][j].acked]
  BY <1>2, <1>4, LoadedLemma DEF Loaded
<1>6. s \in Store /\ \A j \in Job : s[j] = l[j] \/ (s[j] = NoEntry /\ l[j].acked)
  BY <1>3, <1>4, <1>5, PrunedLemma
<1>7. cache'[n] = s /\ disk'[n] = s
  BY <1>3, <1>6, SaveTypes DEF IInv
<1>8. ASSUME NEW j \in Job
      PROVE  /\ EntryOK(n, j, s[j])
             /\ s[j].state # "none" => effect[j].phase # "none"
             /\ disk[n][j].state = "none" => s[j].state = "none"
             /\ disk[n][j].state \in Final =>
                  SameResult(s[j], disk[n][j]) \/ (s[j].state = "none" /\ disk[n][j].acked)
  <2>1. EntryOK(n, j, disk[n][j]) /\ (disk[n][j].state # "none" => effect[j].phase # "none")
    BY StoreLemma
  <2>2. CASE s[j] = NoEntry /\ l[j].acked
    <3>1. s[j].state = "none" /\ s[j].acked = FALSE /\ disk[n][j].acked
      BY <1>5, <2>2, NoEntryLemma
    <3> QED BY <3>1 DEF EntryOK, Truthful
  <2>3. CASE s[j] = l[j] /\ disk[n][j].state # "EXECUTING"
    <3>1. s[j] = disk[n][j]
      BY <1>5, <2>3
    <3> QED BY <2>1, <3>1 DEF SameResult
  <2>4. CASE s[j] = l[j] /\ disk[n][j].state = "EXECUTING"
    <3>1. disk[n][j].acked = FALSE
      BY <2>1, <2>4, StoreLemma, EntryLemma DEF EntryOK, Final
    <3>2. s[j] = [state |-> "UNKNOWN", lease |-> disk[n][j].lease,
                  result |-> NoResult, acked |-> FALSE]
      BY <1>5, <2>4, <3>1
    <3>3. EntryOK(n, j, s[j])
      BY <2>1, <2>4, <3>2 DEF EntryOK, Truthful
    <3> QED BY <2>1, <2>4, <3>3 DEF Final
  <2> QED BY <1>6, <2>2, <2>3, <2>4
<1>9. StoreInv(n)'
  <2>1. \A j \in Job : EntryOK(n, j, s[j])'
    BY <1>1, <1>8, EntryKept
  <2> QED BY <1>1, <1>3, <1>6, <1>8, <2>1, SavedLemma DEF IInv
<1>10. RunInv(n)'
  BY <1>1, <1>2 DEF RunInv
<1>11. Elsewhere(n)
  BY <1>1, <1>2, <1>3 DEF Elsewhere, Save
<1>12. FileMove(n)
  BY <1>7, <1>8 DEF FileMove
<1>13. MessageMove(n)
  <2>1. ASSUME NEW k \in toAgent[n], k.type = "execute" PROVE s[k.job].state = "none"
    BY <1>8, <2>1, FreshLemma
  <2> QED BY <1>1, <1>7, <2>1 DEF MessageMove
<1> QED BY <1>1, <1>9, <1>10, <1>11, <1>12, <1>13 DEF NodeStep, EffectMove

(* A process that exits loses its memory, its socket and its run. *)
LEMMA ExitStep ==
  ASSUME IInv, NEW n \in Node, Exit(n), jobs' = jobs, sched' = sched
  PROVE  NodeStep(n)
<1>1. /\ cache \in [Node -> Store] /\ alive \in [Node -> {"up", "stopped", "down"}]
      /\ busy \in [Node -> Job \cup {0}] /\ effect \in [Job -> Effect]
      /\ toAgent \in [Node -> SUBSET AgentMsg] /\ RunInv(n)
  BY DEF IInv, PathInv, AgentTypeOK, WireTypeOK
<1>2. /\ disk' = disk /\ toHub' = toHub /\ cache' = [cache EXCEPT ![n] = disk[n]]
      /\ alive' = [alive EXCEPT ![n] = "down"] /\ busy' = [busy EXCEPT ![n] = 0]
      /\ toAgent' = [toAgent EXCEPT ![n] = {}]
  BY DEF Exit, CloseSocket
<1>3. EffectMove(n) /\ \A j \in Job : disk[n][j].state # "EXECUTING" => effect'[j] = effect[j]
  <2>1. CASE busy[n] = 0
    BY <2>1 DEF Exit, EffectMove
  <2>2. CASE busy[n] # 0
    <3>1. PICK b \in Job : b = busy[n]
      BY <1>1, <2>2
    <3>2. /\ effect[b].phase = "running" /\ disk[n][b].state = "EXECUTING"
      BY <1>1, <2>2, <3>1 DEF RunInv
    <3>3. effect' = [effect EXCEPT ![b].phase = "lost"]
      BY <1>1, <2>2, <3>1, <3>2 DEF Exit
    <3>4. jobs[b].node = n
      BY <3>2, StoreLemma DEF EntryOK
    <3>5. EffectMove(n)
      BY <3>2, <3>3, <3>4 DEF EffectMove
    <3>6. \A j \in Job : disk[n][j].state # "EXECUTING" => effect'[j] = effect[j]
      BY <1>1, <3>2, <3>3
    <3> QED BY <3>5, <3>6
  <2> QED BY <2>1, <2>2
<1>4. StoreInv(n)'
  <2>1. cache'[n] = disk[n] /\ disk'[n] = disk[n]
    BY <1>1, <1>2
  <2>2. SUFFICES ASSUME NEW j \in Job
                 PROVE  /\ FileAgrees(n, j)' /\ EntryOK(n, j, disk[n][j])'
                        /\ disk[n][j].state # "none" => effect'[j].phase # "none"
    BY <2>1 DEF StoreInv, EntryOK, Truthful, Recorded
  <2>3. /\ EntryOK(n, j, disk[n][j]) /\ disk[n][j] \in Entry
        /\ disk[n][j].state # "none" => effect[j].phase # "none"
    BY StoreLemma
  <2>4. FileAgrees(n, j)'
    BY <2>1, <2>3, EntryLemma DEF FileAgrees, SameResult, Final
  <2>5. EntryOK(n, j, disk[n][j])'
    <3>1. CASE disk[n][j].state = "EXECUTING"
      BY <2>1, <2>3, <3>1 DEF EntryOK, Truthful, Recorded, Final
    <3>2. CASE disk[n][j].state # "EXECUTING"
      BY <1>3, <2>1, <2>3, <3>2 DEF EntryOK, Truthful, Recorded
    <3> QED BY <3>1, <3>2
  <2>6. effect[j].phase # "none" => effect'[j].phase # "none"
    BY <1>3, EffectLemma DEF IInv
  <2> QED BY <2>3, <2>4, <2>5, <2>6
<1>5. RunInv(n)'
  BY <1>1, <1>2 DEF RunInv
<1>6. Elsewhere(n) /\ MessageMove(n)
  BY <1>1, <1>2 DEF Elsewhere, MessageMove
<1> QED BY <1>2, <1>3, <1>4, <1>5, <1>6, SameFile DEF NodeStep

(* A second execute of a job never arrives. *)
LEMMA NoSecondExecute ==
  ASSUME IInv, NEW n \in Node, NEW m \in toAgent[n]
  PROVE  ~ OnExecuteAgain(n, m) /\ ~ OnEquivocation(n, m)
BY FreshLemma DEF OnExecuteAgain, OnEquivocation

(* Every action of an agent is such a step. *)
LEMMA AgentMoves ==
  ASSUME IInv, NEW n \in Node, AgentStep(n) \/ AgentFault(n), UNCHANGED fabricVars
  PROVE  NodeStep(n) /\ IInv'
<1>1. jobs' = jobs /\ sched' = sched
  BY DEF fabricVars
<1>2. ASSUME AgentStep(n) PROVE NodeStep(n)
  BY <1>1, <1>2, SendStep, StartStep, AckStep, ExecuteStep, RefuseStep, FinishStep,
     NoSecondExecute DEF AgentStep
<1>3. ASSUME AgentFault(n) PROVE NodeStep(n)
  BY <1>1, <1>3, AckFailsStep, ExecuteFailsStep, FinishFailsStep, StopStep, ExitStep
     DEF AgentFault
<1>4. AgentTypeOK'
  BY AgentTypes DEF IInv
<1> QED BY <1>2, <1>3, <1>4, NodeKeeps

-----------------------------------------------------------------------------
(* What a step of the hub may do *)

(* One job moves on, or some assignments fall into doubt.                  *)
JobsMove ==
  \/ \E S \in SUBSET AssignedJobs : jobs' = Doubted(S)
  \/ \E j \in Job :
       /\ \A i \in Job \ {j} : jobs'[i] = jobs[i]
       /\ \/ /\ jobs[j].state = "absent"
             /\ jobs'[j].state = "QUEUED" /\ jobs'[j].result = NoResult
          \/ /\ jobs[j].state = "QUEUED"
             /\ jobs'[j].state \in Open /\ jobs'[j].result = jobs[j].result
          \/ /\ jobs[j].state \in {"QUEUED", "UNKNOWN"}
             /\ jobs'[j].state = "ABANDONED" /\ jobs'[j].result = jobs[j].result
          \/ /\ jobs[j].state \in Open
             /\ \E n \in Node : \E r \in toHub[n] :
                  r.job = j /\ jobs'[j].state = r.state /\ jobs'[j].result = r.result

(* An acknowledgement is due: the suspended operation owes it, or a receipt *)
(* that this step takes is recorded.                                       *)
Due(n, j) ==
  \/ Acknowledging(n, j)
  \/ \E r \in toHub[n] : r.job = j /\ Recorded(j, r)'

HubMessages ==
  /\ \A n \in Node : toHub'[n] \subseteq toHub[n]
  /\ \A n \in Node : \A m \in toAgent'[n] :
       \/ m \in toAgent[n]
       \/ m.type = "execute" /\ jobs[m.job].state = "QUEUED"
       \/ m.type = "ack" /\ Due(n, m.job)
  /\ \A n \in Node, j \in Job : Acknowledging(n, j)' => Due(n, j)

HubMove ==
  /\ UNCHANGED agentVars
  /\ JobsMove /\ Keeps(jobs, jobs') /\ HubMessages

(* What happens to each job. *)
LEMMA JobsMoveLemma ==
  ASSUME IInv, JobsMove, NEW j \in Job
  PROVE  \/ jobs'[j].state = jobs[j].state /\ jobs'[j].result = jobs[j].result
         \/ /\ jobs[j].state \in {"absent", "QUEUED", "ASSIGNED"}
            /\ jobs'[j].state \in {"QUEUED"} \cup Open /\ jobs'[j].result = NoResult
            /\ jobs'[j].state = "QUEUED" => jobs[j].state = "absent"
         \/ /\ jobs[j].state \in {"QUEUED", "UNKNOWN"}
            /\ jobs'[j].state = "ABANDONED" /\ jobs'[j].result = NoResult
         \/ /\ jobs[j].state \in Open
            /\ \E n \in Node : \E r \in toHub[n] :
                 r.job = j /\ jobs'[j].state = r.state /\ jobs'[j].result = r.result
<1>1. jobs \in [Job -> JobRecord] /\ VerdictInv(j)
  BY DEF IInv, FabricInv, JobsInv, PathInv
<1>2. ASSUME NEW S \in SUBSET AssignedJobs, jobs' = Doubted(S)
      PROVE  \/ jobs'[j].state = jobs[j].state /\ jobs'[j].result = jobs[j].result
             \/ /\ jobs[j].state = "ASSIGNED" /\ jobs'[j].state = "UNKNOWN"
                /\ jobs'[j].result = jobs[j].result
  BY <1>1, <1>2 DEF Doubted, AssignedJobs, JobRecord
<1>3. jobs[j].state \in {"absent", "QUEUED"} \cup Open => jobs[j].result = NoResult
  BY <1>1 DEF VerdictInv, Open
<1>4. CASE \E S \in SUBSET AssignedJobs : jobs' = Doubted(S)
  BY <1>2, <1>3, <1>4 DEF Open
<1>5. CASE ~ \E S \in SUBSET AssignedJobs : jobs' = Doubted(S)
  BY <1>3, <1>5 DEF JobsMove, Open
<1> QED BY <1>4, <1>5

(* What the hub recorded of an entry or receipt v, and still agrees with   *)
(* the file, stays recorded.                                               *)
LEMMA RecordedKept ==
  ASSUME IInv, JobsMove, Keeps(jobs, jobs'), NEW n \in Node, NEW j \in Job, jobs[j].node = n,
         NEW v, v.state \in Final, v.state = "UNKNOWN" => v.result = NoResult, Recorded(j, v),
         disk[n][j].state \in Final => disk[n][j].state = v.state
  PROVE  Recorded(j, v)'
<1>1. CASE jobs[j].state \in Settled
  BY <1>1 DEF Keeps, Recorded
<1>2. CASE jobs[j].state \notin Settled
  <2>1. jobs[j].state = "UNKNOWN" /\ v.state = "UNKNOWN" /\ v.result = NoResult
    BY <1>2 DEF Recorded, Settled, Final
  <2>2. ASSUME NEW i \in Node, NEW r \in toHub[i], r.job = j
        PROVE  r.state = "UNKNOWN" /\ r.result = NoResult
    <3>1. ReceiptInv(i, r) /\ r.state \in ReceiptState
      BY DEF IInv, PathInv, AgentTypeOK, WireTypeOK, Receipt
    <3>2. i = n
      BY <2>2, <3>1 DEF ReceiptInv
    <3>3. CASE AsReceipt(disk[n], j) = r
      BY <2>1, <2>2, <3>1, <3>3 DEF AsReceipt, ReceiptState, Final, ReceiptInv, Truthful
    <3>4. CASE Recorded(j, r)
      BY <2>1, <2>2, <3>1, <3>4 DEF Recorded, ReceiptInv, Truthful
    <3> QED BY <2>2, <3>1, <3>2, <3>3, <3>4 DEF ReceiptInv
  <2>3. \/ jobs'[j].state = jobs[j].state /\ jobs'[j].result = jobs[j].result
        \/ jobs'[j].state = "ABANDONED"
        \/ jobs'[j].state = "UNKNOWN" /\ jobs'[j].result = NoResult
    BY <2>1, <2>2, JobsMoveLemma
  <2>4. jobs[j].result = NoResult
    BY <2>1 DEF IInv, PathInv, VerdictInv
  <2> QED BY <2>1, <2>3, <2>4 DEF Recorded
<1> QED BY <1>1, <1>2

(* A job that is an agent's stays so. *)
LEMMA HolderKept ==
  ASSUME IInv, Keeps(jobs, jobs'), NEW n \in Node, NEW j \in Job, jobs[j].node = n
  PROVE  /\ jobs[j].state \notin {"absent", "QUEUED"}
         /\ jobs'[j].node = n /\ jobs'[j].lease = jobs[j].lease
BY FabricConstants DEF IInv, FabricInv, JobsInv, JobShape, Keeps

(* The stores still agree with the jobs. *)
LEMMA StoresKept ==
  ASSUME IInv, HubMove, NEW n \in Node
  PROVE  StoreInv(n)' /\ RunInv(n)'
<1>1. /\ cache' = cache /\ disk' = disk /\ busy' = busy /\ alive' = alive /\ effect' = effect
      /\ StoreInv(n) /\ RunInv(n)
  BY DEF HubMove, agentVars, IInv, PathInv
<1>2. ASSUME NEW j \in Job, NEW e \in {cache[n][j], disk[n][j]}
      PROVE  EntryOK(n, j, e)'
  <2>1. EntryOK(n, j, e)
    BY <1>1 DEF StoreInv
  <2>2. e.state # "none" => jobs'[j].node = n /\ jobs'[j].lease = e.lease
    BY <2>1, HolderKept DEF EntryOK, HubMove
  <2>3. ASSUME e.acked PROVE Recorded(j, e)'
    <3>1. /\ e.state \in Final /\ Recorded(j, e) /\ jobs[j].node = n
          /\ e.state = "UNKNOWN" => e.result = NoResult
      BY <2>1, <2>3 DEF EntryOK, Truthful, Final
    <3>2. disk[n][j].state \in Final => disk[n][j].state = e.state
      BY <3>1, StoreLemma DEF FileAgrees, SameResult, Final
    <3> QED BY <3>1, <3>2, RecordedKept DEF HubMove
  <2> QED BY <1>1, <2>1, <2>2, <2>3 DEF EntryOK, Truthful
<1>3. ASSUME NEW j \in Job
      PROVE  EntryOK(n, j, cache[n][j])' /\ EntryOK(n, j, disk[n][j])'
  BY <1>1, <1>2 DEF EntryOK, Truthful, Recorded
<1>4. ASSUME NEW j \in Job PROVE FileAgrees(n, j)'
  BY <1>1 DEF StoreInv, FileAgrees, Done
<1> QED BY <1>1, <1>3, <1>4 DEF StoreInv, RunInv

(* A receipt the hub has still to take agrees with the jobs as they are.   *)
LEMMA FlightKept ==
  ASSUME IInv, HubMove, NEW n \in Node, NEW r \in toHub'[n]
  PROVE  ReceiptInv(n, r)'
<1>1. cache' = cache /\ disk' = disk /\ effect' = effect
  BY DEF HubMove, agentVars
<1>2. r \in toHub[n]
  BY DEF HubMove, HubMessages
<1>3. ReceiptInv(n, r) /\ r.job \in Job /\ r.state \in ReceiptState
  BY <1>2 DEF IInv, PathInv, AgentTypeOK, WireTypeOK, Receipt
<1>4. jobs'[r.job].node = n /\ jobs'[r.job].lease = r.lease
  BY <1>3, HolderKept DEF ReceiptInv, HubMove
<1>5. disk[n][r.job].state = "none" /\ Recorded(r.job, r) => Recorded(r.job, r)'
  BY <1>3, RecordedKept DEF ReceiptInv, Truthful, HubMove, ReceiptState, Final
<1> QED BY <1>1, <1>3, <1>4, <1>5 DEF ReceiptInv, Truthful, AsReceipt

(* A verdict is recorded from a receipt only, and so from the run. *)
LEMMA VerdictsMove ==
  ASSUME IInv, HubMove, NEW j \in Job
  PROVE  VerdictInv(j)'
<1>1. disk' = disk /\ effect' = effect /\ VerdictInv(j)
  BY DEF HubMove, agentVars, IInv, PathInv
<1>2. jobs[j].state \in Settled => jobs'[j] = jobs[j]
  BY DEF HubMove, Keeps
<1>3. CASE jobs[j].state \in Settled
  BY <1>1, <1>2, <1>3 DEF VerdictInv
<1>4. CASE jobs[j].state \notin Settled
  <2>1. jobs[j].result = NoResult
    BY <1>1, <1>4 DEF VerdictInv, Settled
  <2>2. CASE /\ jobs'[j].state = jobs[j].state /\ jobs'[j].result = jobs[j].result
    BY <1>1, <1>4, <2>2 DEF VerdictInv, Settled
  <2>3. CASE /\ jobs[j].state \in {"absent", "QUEUED", "ASSIGNED"}
             /\ jobs'[j].state \in {"QUEUED"} \cup Open /\ jobs'[j].result = NoResult
             /\ jobs'[j].state = "QUEUED" => jobs[j].state = "absent"
    BY <1>1, <2>3 DEF VerdictInv, Open
  <2>4. CASE jobs'[j].state = "ABANDONED" /\ jobs'[j].result = NoResult
    BY <2>4 DEF VerdictInv
  <2>5. ASSUME NEW n \in Node, NEW r \in toHub[n], jobs[j].state \in Open,
               r.job = j, jobs'[j].state = r.state, jobs'[j].result = r.result
        PROVE  VerdictInv(j)'
    <3>1. ReceiptInv(n, r) /\ r.state \in ReceiptState
      BY DEF IInv, PathInv, AgentTypeOK, WireTypeOK, Receipt
    <3>2. jobs[j].node = n /\ jobs'[j].node = n
      BY <2>5, <3>1, HolderKept DEF ReceiptInv, HubMove
    <3>3. disk[n][j].state # "none" => disk[n][j].state = r.state /\ disk[n][j].result = r.result
      BY <2>5, <3>1 DEF ReceiptInv, AsReceipt
    <3>4. /\ r.state \in {"SUCCEEDED", "FAILED"} =>
               effect[j] = [phase |-> "ended", state |-> r.state, result |-> r.result]
          /\ r.state \notin {"SUCCEEDED", "FAILED"} => r.result = NoResult
      BY <2>5, <3>1 DEF ReceiptInv, Truthful, ReceiptState
    <3>5. ASSUME NEW i \in Node, jobs'[j].node = i, disk[i][j].state # "none"
          PROVE  disk[i][j].state = r.state /\ disk[i][j].result = r.result
      BY <3>2, <3>3, <3>5
    <3>6. r.state \notin {"absent", "QUEUED"}
      BY <3>1 DEF ReceiptState
    <3> QED BY <1>1, <2>5, <3>4, <3>5, <3>6 DEF VerdictInv
  <2> QED BY <2>2, <2>3, <2>4, <2>5, JobsMoveLemma DEF HubMove
<1> QED BY <1>3, <1>4

(* What an acknowledgement stands for is, and stays, recorded. *)
LEMMA ClosedMove ==
  ASSUME IInv, HubMove, NEW n \in Node, NEW j \in Job, jobs[j].node = n,
         Closed(n, j) \/ \E r \in toHub[n] : r.job = j /\ Recorded(j, r)'
  PROVE  Closed(n, j)'
<1>1. disk' = disk /\ effect' = effect
  BY DEF HubMove, agentVars
<1>2. CASE Closed(n, j)
  <2>0. PICK d : d = disk[n][j]
    OBVIOUS
  <2>1. EntryOK(n, j, d)
    BY <2>0, StoreLemma
  <2>2. d.state \in Final => Recorded(j, d)'
    BY <1>2, <2>0, <2>1, RecordedKept DEF Closed, EntryOK, Truthful, HubMove
  <2> QED BY <1>1, <1>2, <2>0, <2>2 DEF Closed, Recorded
<1>3. ASSUME NEW r \in toHub[n], r.job = j, Recorded(j, r)'
      PROVE  Closed(n, j)'
  <2>1. ReceiptInv(n, r) /\ r.state \in ReceiptState
    BY DEF IInv, PathInv, AgentTypeOK, WireTypeOK, Receipt
  <2>2. effect[j].phase # "none"
    BY <1>3, <2>1 DEF ReceiptInv
  <2>3. CASE AsReceipt(disk[n], j) = r
    <3>1. disk[n][j].state = r.state /\ disk[n][j].result = r.result
      BY <2>3 DEF AsReceipt
    <3> QED BY <1>1, <1>3, <2>1, <2>2, <3>1 DEF Closed, Recorded, ReceiptState
  <2>4. CASE disk[n][j].state = "none"
    BY <1>1, <2>2, <2>4 DEF Closed, Final
  <2> QED BY <1>3, <2>1, <2>3, <2>4 DEF ReceiptInv
<1> QED BY <1>2, <1>3

(* A due acknowledgement is for a job of the agent it goes to. *)
LEMMA DueLemma ==
  ASSUME IInv, HubMove, NEW n \in Node, NEW j \in Job, Due(n, j)
  PROVE  Closed(n, j)'
<1>1. CASE Acknowledging(n, j)
  <2>1. Closed(n, j)
    BY <1>1 DEF IInv, PathInv
  <2>2. jobs[j].node = n
    <3>1. sched # Idle
      BY <1>1 DEF Acknowledging, Idle, OfCommand
    <3>2. \A m \in Ack(sched.origin) : Covered(jobs, sched.origin.node, m)
      BY <3>1 DEF IInv, FabricInv, SchedInv
    <3> QED BY <1>1, <3>2 DEF Acknowledging, Ack, Covered
  <2> QED BY <2>1, <2>2, ClosedMove
<1>2. CASE \E r \in toHub[n] : r.job = j /\ Recorded(j, r)'
  <2>1. jobs[j].node = n
    BY <1>2 DEF IInv, PathInv, ReceiptInv
  <2> QED BY <1>2, <2>1, ClosedMove
<1> QED BY <1>1, <1>2 DEF Due

(* Together: the strengthening survives a step of the hub or the channel. *)
LEMMA HubKeeps ==
  ASSUME IInv, HubMove, FabricInv'
  PROVE  IInv'
<1>1. /\ cache' = cache /\ disk' = disk /\ busy' = busy /\ alive' = alive /\ effect' = effect
  BY DEF HubMove, agentVars
<1>2. AgentTypeOK'
  BY <1>1 DEF IInv, AgentTypeOK, FabricInv, FabricTypeOK
<1>3. /\ \A n \in Node : StoreInv(n)' /\ RunInv(n)' /\ \A r \in toHub'[n] : ReceiptInv(n, r)'
      /\ \A j \in Job : VerdictInv(j)'
  BY StoresKept, FlightKept, VerdictsMove
<1>4. ASSUME NEW n \in Node, NEW m \in toAgent'[n] PROVE MsgInv(n, m)'
  <2>1. m.job \in Job /\ m.type \in {"execute", "ack"}
    BY <1>2 DEF AgentTypeOK, WireTypeOK, AgentMsg
  <2>2. CASE m \in toAgent[n]
    <3>1. MsgInv(n, m) /\ jobs[m.job].node = n
      BY <2>2 DEF IInv, PathInv, FabricInv, WriteAhead, Covered
    <3>2. m.type = "ack" => Closed(n, m.job)'
      BY <2>1, <3>1, ClosedMove DEF MsgInv
    <3> QED BY <1>1, <3>1, <3>2 DEF MsgInv
  <2>3. CASE m.type = "execute" /\ jobs[m.job].state = "QUEUED"
    <3>1. effect[m.job].phase = "none"
      BY <2>1, <2>3 DEF IInv, PathInv, VerdictInv
    <3>2. jobs[m.job].node \notin Node
      BY <2>1, <2>3, FabricConstants DEF IInv, FabricInv, JobsInv, JobShape
    <3>3. cache[n][m.job].state = "none" /\ disk[n][m.job].state = "none"
      BY <2>1, <3>2, StoreLemma DEF EntryOK
    <3> QED BY <1>1, <2>3, <3>1, <3>3 DEF MsgInv
  <2>4. CASE m.type = "ack" /\ Due(n, m.job)
    BY <2>1, <2>4, DueLemma DEF MsgInv
  <2> QED BY <2>2, <2>3, <2>4 DEF HubMove, HubMessages
<1>5. \A n \in Node, j \in Job : Acknowledging(n, j)' => Closed(n, j)'
  BY DueLemma DEF HubMove, HubMessages
<1> QED BY <1>2, <1>3, <1>4, <1>5 DEF IInv, PathInv

-----------------------------------------------------------------------------
(* The steps of the hub and of the channel *)

(* schedule() sends the acknowledgement its operation owes and no other.   *)
LEMMA ScheduleMessages ==
  ASSUME NEW js, NEW sent \in [Node -> SUBSET AgentMsg],
         \A n \in Node : \A m \in sent[n] :
            m \in toAgent[n] \/ (m.type = "execute" /\ jobs[m.job].state = "QUEUED"),
         NEW o, o.kind = "receipt" => Due(o.node, o.job),
         NEW from, Schedule(js, sent, from, o), \A n \in Node : toHub'[n] \subseteq toHub[n]
  PROVE  jobs' = js /\ HubMessages
<1>1. sched' = Idle \/ sched'.origin = o
  BY DEF Schedule
<1>2. \A n \in Node, j \in Job : Acknowledging(n, j)' => Due(n, j)
  BY <1>1 DEF Acknowledging, Idle, OfCommand
<1>3. ASSUME NEW n \in Node, NEW m \in toAgent'[n], m \notin sent[n]
      PROVE  m.type = "ack" /\ Due(n, m.job)
  <2>1. toAgent' = Acknowledge(sent, o)
    BY <1>3 DEF Schedule
  <2>2. o.kind = "receipt" /\ n = o.node /\ m \in Ack(o)
    BY <1>3, <2>1 DEF Acknowledge, Delivered
  <2>3. m.type = "ack" /\ m.job = o.job
    BY <2>2 DEF Ack
  <2> QED BY <2>2, <2>3
<1>4. jobs' = js
  BY DEF Schedule
<1> QED BY <1>2, <1>3, <1>4 DEF HubMessages

(* A step that sends nothing and leaves no operation suspended. *)
LEMMA QuietMessages ==
  ASSUME \A n \in Node : toHub'[n] \subseteq toHub[n],
         \A n \in Node : toAgent'[n] \subseteq toAgent[n],
         sched' = Idle \/ sched' = sched
  PROVE  HubMessages
<1>1. \A n \in Node, j \in Job : Acknowledging(n, j)' => Acknowledging(n, j)
  BY DEF Acknowledging, Idle, OfCommand
<1> QED BY <1>1 DEF HubMessages, Due

(* Jobs that stay as they are. *)
LEMMA NoMove == ASSUME IInv, jobs' = jobs PROVE JobsMove
<1>1. Doubted({}) = jobs
  BY DEF Doubted, IInv, FabricInv, JobsInv
<1> QED BY <1>1 DEF JobsMove

(* The operation that a suspended schedule() belongs to is still owed. *)
LEMMA OwedLemma ==
  ASSUME sched.origin.kind = "receipt" PROVE Due(sched.origin.node, sched.origin.job)
BY DEF Due, Acknowledging

(* submit and run add one queued job. *)
LEMMA SubmitMove ==
  ASSUME IInv, NEW p \in Principal, NEW k \in Key \cup {NoKey}, NEW b \in Body, Submit(p, k, b)
  PROVE  JobsMove /\ HubMessages
<1>1. PICK j \in Job :
        /\ jobs[j].state = "absent"
        /\ Schedule([jobs EXCEPT ![j] = [NoJob EXCEPT !.state = "QUEUED", !.owner = p,
                                                      !.key = k, !.body = b]],
                    toAgent, 1, OfCommand)
  BY DEF Submit
<1>2. PICK e : e = [NoJob EXCEPT !.state = "QUEUED", !.owner = p, !.key = k, !.body = b]
  OBVIOUS
<1>3. e.state = "QUEUED" /\ e.result = NoResult
  BY <1>2 DEF NoJob
<1>4. PICK js : js = [jobs EXCEPT ![j] = e]
  OBVIOUS
<1>5. js[j] = e /\ \A i \in Job \ {j} : js[i] = jobs[i]
  BY <1>4 DEF IInv, FabricInv, JobsInv
<1>6. toAgent \in [Node -> SUBSET AgentMsg] /\ toHub' = toHub /\ Schedule(js, toAgent, 1, OfCommand)
  BY <1>1, <1>2, <1>4 DEF Submit, IInv, AgentTypeOK, WireTypeOK
<1>7. jobs' = js /\ HubMessages
  BY <1>6, ScheduleMessages DEF OfCommand
<1> QED BY <1>1, <1>3, <1>5, <1>7 DEF JobsMove

(* The operator gives one job up. *)
LEMMA AbandonMove ==
  ASSUME IInv, NEW j \in Job, Abandon(j)
  PROVE  JobsMove /\ HubMessages
<1>1. /\ jobs \in [Job -> JobRecord] /\ jobs[j] \in JobRecord
      /\ jobs' = [jobs EXCEPT ![j].state = "ABANDONED"]
      /\ jobs[j].state \in {"UNKNOWN", "QUEUED"}
  BY DEF Abandon, IInv, FabricInv, JobsInv
<1>2. /\ jobs'[j].state = "ABANDONED" /\ jobs'[j].result = jobs[j].result
      /\ \A i \in Job \ {j} : jobs'[i] = jobs[i]
  BY <1>1 DEF JobRecord
<1>3. toHub' = toHub /\ toAgent' = toAgent /\ sched' = sched
  BY DEF Abandon, wireVars
<1> QED BY <1>1, <1>2, <1>3, QuietMessages DEF JobsMove

(* The loop passes over a job, and may end the operation. *)
LEMMA NotPlacedMove ==
  ASSUME IInv, NotPlaced
  PROVE  JobsMove /\ HubMessages
<1>1. /\ toAgent \in [Node -> SUBSET AgentMsg] /\ toHub' = toHub
      /\ Schedule(jobs, toAgent, sched.at + 1, sched.origin)
  BY DEF NotPlaced, IInv, AgentTypeOK, WireTypeOK
<1>2. jobs' = jobs /\ HubMessages
  BY <1>1, OwedLemma, ScheduleMessages
<1> QED BY <1>2, NoMove

(* The jobs after an assignment, sent or not. *)
LEMMA PlacedMove ==
  ASSUME IInv, NEW j \in Job, jobs[j].state = "QUEUED", NEW n \in Node, NEW s \in Open,
         jobs' = Placed(j, n, s)
  PROVE  JobsMove
<1>1. jobs \in [Job -> JobRecord] /\ jobs[j] \in JobRecord
  BY DEF IInv, FabricInv, JobsInv
<1>2. /\ jobs'[j].state = s /\ jobs'[j].result = jobs[j].result
      /\ \A i \in Job \ {j} : jobs'[i] = jobs[i]
  BY <1>1 DEF Placed, Assigned, JobRecord
<1> QED BY <1>2 DEF JobsMove

(* An assignment that is sent, or not, is recorded like any other. *)
LEMMA SentPlaced ==
  ASSUME IInv, NEW j \in Job, NEW n \in Node
  PROVE  [jobs EXCEPT ![j] = Assigned(j, n)] = Placed(j, n, "ASSIGNED")
<1>1. Assigned(j, n) = [Assigned(j, n) EXCEPT !.state = "ASSIGNED"]
  BY DEF Assigned, IInv, FabricInv, JobsInv, JobRecord
<1> QED BY <1>1 DEF Placed

(* A queued job is assigned, and its execute is sent. *)
LEMMA PlaceMove ==
  ASSUME IInv, NEW n \in Node, Place(n)
  PROVE  JobsMove /\ HubMessages
<1>1. PICK j \in Job : j = sched.at
  BY SuspendedLemma DEF Place, IInv
<1>2. /\ jobs[j].state = "QUEUED" /\ toAgent \in [Node -> SUBSET AgentMsg] /\ toHub' = toHub
      /\ jobs[j] \in JobRecord
  BY <1>1, SuspendedLemma DEF Place, IInv, AgentTypeOK, WireTypeOK, FabricInv, JobsInv
<1>3. PICK sent : sent = Delivered(toAgent, n, {Execute(j)})
  OBVIOUS
<1>4. PICK from : from = j + 1
  OBVIOUS
<1>5. Schedule(Placed(j, n, "ASSIGNED"), sent, from, sched.origin)
  BY <1>1, <1>3, <1>4, SentPlaced DEF Place
<1>6. Execute(j) \in AgentMsg /\ Execute(j).type = "execute" /\ Execute(j).job = j
  BY <1>2 DEF Execute, AgentMsg, JobRecord, Lease
<1>7. /\ sent \in [Node -> SUBSET AgentMsg]
      /\ \A i \in Node : \A m \in sent[i] :
            m \in toAgent[i] \/ (m.type = "execute" /\ jobs[m.job].state = "QUEUED")
  BY <1>2, <1>3, <1>6 DEF Delivered
<1>8. jobs' = Placed(j, n, "ASSIGNED") /\ HubMessages
  BY <1>2, <1>5, <1>7, OwedLemma, ScheduleMessages
<1>9. "ASSIGNED" \in Open
  BY DEF Open
<1> QED BY <1>2, <1>8, <1>9, PlacedMove

(* A queued job is assigned, and its execute cannot be sent. *)
LEMMA PlaceUnsentMove ==
  ASSUME IInv, NEW n \in Node, PlaceUnsent(n)
  PROVE  JobsMove /\ HubMessages
<1>1. PICK j \in Job : j = sched.at
  BY SuspendedLemma DEF PlaceUnsent, IInv
<1>2. /\ jobs[j].state = "QUEUED" /\ toAgent \in [Node -> SUBSET AgentMsg] /\ toHub' = toHub
  BY <1>1, SuspendedLemma DEF PlaceUnsent, IInv, AgentTypeOK, WireTypeOK
<1>3. PICK from : from = j + 1
  OBVIOUS
<1>4. Schedule(Placed(j, n, "UNKNOWN"), toAgent, from, sched.origin)
  BY <1>1, <1>3 DEF PlaceUnsent, Placed
<1>5. jobs' = Placed(j, n, "UNKNOWN") /\ HubMessages
  BY <1>2, <1>4, OwedLemma, ScheduleMessages
<1>6. "UNKNOWN" \in Open
  BY DEF Open
<1> QED BY <1>2, <1>5, <1>6, PlacedMove

(* The journal refuses an assignment, or the doubt after it. *)
LEMMA PlaceFailsMove ==
  ASSUME IInv, NEW n \in Node, PlaceFails(n)
  PROVE  JobsMove /\ HubMessages
<1>1. PICK j \in Job : j = sched.at
  BY SuspendedLemma DEF PlaceFails, IInv
<1>2. jobs[j].state = "QUEUED"
  BY <1>1, SuspendedLemma DEF PlaceFails, IInv
<1>3. jobs' = jobs \/ jobs' = Placed(j, n, "ASSIGNED")
  BY <1>1, SentPlaced DEF PlaceFails
<1>4. "ASSIGNED" \in Open
  BY DEF Open
<1>5. toHub' = toHub /\ toAgent' = toAgent /\ sched' = Idle
  BY DEF PlaceFails, Reject
<1> QED BY <1>2, <1>3, <1>4, <1>5, NoMove, PlacedMove, QuietMessages

(* A receipt that is taken is recorded, unless the job was given up. *)
LEMMA TakeReceiptMove ==
  ASSUME IInv, NEW n \in Node, NEW r \in toHub[n], TakeReceipt(n, r)
  PROVE  JobsMove /\ HubMessages
<1>1. PICK j \in Job : j = r.job
  BY DEF IInv, AgentTypeOK, WireTypeOK, Receipt
<1>2. /\ toAgent \in [Node -> SUBSET AgentMsg] /\ jobs \in [Job -> JobRecord]
      /\ jobs[j] \in JobRecord
      /\ \A i \in Node : toHub'[i] \subseteq toHub[i]
      /\ jobs[j].node = n /\ Agrees(r)
  BY <1>1 DEF TakeReceipt, Ours, IInv, AgentTypeOK, WireTypeOK, FabricInv, JobsInv
<1>3. jobs[j].state \in Open \cup Settled
  <2>1. jobs[j].state \notin {"absent", "QUEUED"}
    BY <1>2, FabricConstants DEF IInv, FabricInv, JobsInv, JobShape
  <2> QED BY <1>2, <2>1 DEF JobRecord, JobState, Open, Settled
<1>4. PICK js : js = WithReceipt(r)
  OBVIOUS
<1>5. /\ jobs[j].state \in Settled => js = jobs
      /\ jobs[j].state \in Open => /\ js[j].state = r.state /\ js[j].result = r.result
                                   /\ \A i \in Job \ {j} : js[i] = jobs[i]
  BY <1>1, <1>2, <1>4 DEF WithReceipt, Settled, Open, JobRecord
<1>6. jobs' = js
  BY <1>1, <1>4, <1>5 DEF TakeReceipt, Schedule, Settled
<1>7. JobsMove
  <2>1. CASE jobs[j].state \in Settled
    BY <1>5, <1>6, <2>1, NoMove
  <2>2. CASE jobs[j].state \in Open
    BY <1>1, <1>5, <1>6, <2>2 DEF JobsMove
  <2> QED BY <1>3, <2>1, <2>2
<1>8. Due(n, j)
  <2>1. Recorded(j, r)'
    BY <1>1, <1>2, <1>3, <1>5, <1>6 DEF Recorded, Agrees, Settled
  <2> QED BY <1>1, <2>1 DEF Due
<1>9. PICK o : o = OfReceipt(n, r)
  OBVIOUS
<1>10. o.kind = "receipt" /\ o.node = n /\ o.job = j
  BY <1>1, <1>9 DEF OfReceipt
<1>11. CASE jobs[j].state = "ABANDONED"
  <2>1. toAgent' = Acknowledge(toAgent, o) /\ sched' = sched
    BY <1>1, <1>9, <1>11 DEF TakeReceipt
  <2>2. ASSUME NEW i \in Node, NEW m \in toAgent'[i], m \notin toAgent[i]
        PROVE  m.type = "ack" /\ Due(i, m.job)
    <3>1. i = n /\ m \in Ack(o)
      BY <1>2, <1>10, <2>1, <2>2 DEF Acknowledge, Delivered
    <3>2. m.type = "ack" /\ m.job = j
      BY <1>10, <3>1 DEF Ack
    <3> QED BY <1>8, <3>1, <3>2
  <2>3. \A i \in Node, k \in Job : Acknowledging(i, k)' => Due(i, k)
    BY <2>1 DEF Acknowledging, Due
  <2> QED BY <1>2, <1>7, <2>2, <2>3 DEF HubMessages
<1>12. CASE jobs[j].state # "ABANDONED"
  <2>1. Schedule(js, toAgent, 1, o)
    BY <1>1, <1>4, <1>9, <1>12 DEF TakeReceipt
  <2> QED BY <1>2, <1>7, <1>8, <1>10, <2>1, ScheduleMessages
<1> QED BY <1>11, <1>12

(* The operations that put assignments in doubt, or refuse a receipt. *)
LEMMA DoubtMove ==
  ASSUME IInv,
         \/ \E expired \in SUBSET AssignedJobs : Tick(expired) \/ TickFails(expired)
         \/ \E n \in Node : Disconnect(n) \/ \E r \in toHub[n] : RejectReceipt(n, r)
         \/ Restart
  PROVE  JobsMove /\ HubMessages
<1>1. toAgent \in [Node -> SUBSET AgentMsg] /\ toHub \in [Node -> SUBSET Receipt]
  BY DEF IInv, AgentTypeOK, WireTypeOK
<1>2. ASSUME NEW expired \in SUBSET AssignedJobs, Tick(expired)
      PROVE  JobsMove /\ HubMessages
  <2>1. PICK js : js = Doubted(expired)
    OBVIOUS
  <2>2. Schedule(js, toAgent, 1, OfTick) /\ toHub' = toHub
    BY <1>2, <2>1 DEF Tick
  <2>3. jobs' = js /\ HubMessages
    BY <1>1, <2>2, ScheduleMessages DEF OfTick, OfCommand
  <2> QED BY <2>1, <2>3 DEF JobsMove
<1>3. ASSUME NEW expired \in SUBSET AssignedJobs, TickFails(expired)
      PROVE  JobsMove /\ HubMessages
  BY <1>3, QuietMessages DEF TickFails, Reject, JobsMove
<1>4. ASSUME NEW n \in Node, Disconnect(n)
      PROVE  JobsMove /\ HubMessages
  <2>1. JobsOf(n) \in SUBSET AssignedJobs
    BY DEF JobsOf
  <2> QED BY <1>4, <2>1, NoMove, QuietMessages DEF Disconnect, JobsMove
<1>5. ASSUME NEW n \in Node, NEW r \in toHub[n], RejectReceipt(n, r)
      PROVE  JobsMove /\ HubMessages
  BY <1>1, <1>5, NoMove, QuietMessages DEF RejectReceipt
<1>6. CASE Restart
  <2>1. \A n \in Node : toHub'[n] \subseteq toHub[n]
    BY <1>6 DEF Restart
  <2> QED BY <1>6, <2>1, QuietMessages DEF Restart, JobsMove
<1> QED BY <1>2, <1>3, <1>4, <1>5, <1>6

(* Every operation of the hub and every failure of one. *)
LEMMA HubActions ==
  ASSUME IInv, HubStep \/ HubFault
  PROVE  JobsMove /\ HubMessages
<1>1. CASE HubStep
  BY <1>1, SubmitMove, AbandonMove, NotPlacedMove, PlaceMove, PlaceUnsentMove,
     TakeReceiptMove, DoubtMove DEF HubStep
<1>2. CASE HubFault
  BY <1>2, PlaceFailsMove, DoubtMove DEF HubFault
<1> QED BY <1>1, <1>2

(* Every step of the hub is such a step. *)
LEMMA HubMoves ==
  ASSUME IInv, HubStep \/ HubFault, UNCHANGED agentVars
  PROVE  HubMove /\ IInv'
<1>1. FabricInv' /\ Keeps(jobs, jobs')
  BY StepLemma DEF FabricNext, IInv
<1>2. HubMove
  BY <1>1, HubActions DEF HubMove
<1> QED BY <1>1, <1>2, HubKeeps

(* And every step of the channel, and every stuttering one. *)
LEMMA ChannelMoves ==
  ASSUME IInv, UNCHANGED <<fabricVars, agentVars>>,
         \/ UNCHANGED wireVars
         \/ \E n \in Node : \/ Register(n) \/ HubSocketClosed(n)
                            \/ FrameLost(n) \/ AgentSocketClosed(n)
  PROVE  HubMove /\ IInv'
<1>1. jobs' = jobs /\ sched' = sched /\ UNCHANGED agentVars /\ UNCHANGED fabricVars
  BY DEF fabricVars
<1>2. FabricInv' /\ Keeps(jobs, jobs')
  <2>1. [FabricNext]_hubVars
    BY <1>1 DEF FabricNext, Channel, hubVars
  <2> QED BY <2>1, StepLemma DEF IInv
<1>3. /\ \A n \in Node : toHub'[n] \subseteq toHub[n]
      /\ \A n \in Node : toAgent'[n] \subseteq toAgent[n]
  <2>1. toAgent \in [Node -> SUBSET AgentMsg] /\ toHub \in [Node -> SUBSET Receipt]
    BY DEF IInv, AgentTypeOK, WireTypeOK
  <2> QED BY <2>1 DEF wireVars, Register, HubSocketClosed, FrameLost, AgentSocketClosed
<1>4. HubMove
  BY <1>1, <1>2, <1>3, NoMove, QuietMessages DEF HubMove
<1> QED BY <1>2, <1>4, HubKeeps

-----------------------------------------------------------------------------
(* The invariants of the job path *)

(* Empty journals and empty stores agree. *)
LEMMA PathInit == Init => IInv
<1> SUFFICES ASSUME Init PROVE IInv
  OBVIOUS
<1>1. FabricInit /\ AgentInit
  BY DEF Init
<1>2. FabricInv
  BY <1>1, InitLemma
<1>3. NoEntry \in Entry /\ NoEntry.state = "none" /\ NoEntry.acked = FALSE
  BY NoEntryLemma
<1>4. NoEffect \in Effect /\ NoEffect.phase = "none"
  BY DEF NoEffect, Effect
<1>5. AgentTypeOK
  BY <1>1, <1>2, <1>3, <1>4 DEF AgentInit, AgentTypeOK, Store, FabricInv, FabricTypeOK
<1>6. ASSUME NEW n \in Node PROVE StoreInv(n) /\ RunInv(n)
  BY <1>1, <1>3 DEF AgentInit, StoreInv, RunInv, FileAgrees, EntryOK, Truthful, Final
<1>7. ASSUME NEW j \in Job PROVE VerdictInv(j)
  <2>1. jobs[j].state = "absent" /\ jobs[j].result = NoResult /\ effect[j].phase = "none"
    BY <1>1, <1>4 DEF FabricInit, AgentInit, NoJob
  <2> QED BY <2>1 DEF VerdictInv
<1>8. \A n \in Node, j \in Job : ~ Acknowledging(n, j)
  BY <1>1 DEF FabricInit, Acknowledging, Idle, OfCommand
<1>9. \A n \in Node : toHub[n] = {} /\ toAgent[n] = {}
  BY <1>1 DEF FabricInit, WireInit
<1>10. PathInv
  BY <1>6, <1>7, <1>8, <1>9 DEF PathInv
<1> QED BY <1>2, <1>5, <1>10 DEF IInv

(* Every step is one of an agent, of the hub, or of the channel. *)
LEMMA PathStep ==
  ASSUME IInv, [Next]_allVars
  PROVE  IInv' /\ (HubMove \/ \E n \in Node : NodeStep(n))
<1>1. ASSUME HubStep \/ HubFault, UNCHANGED agentVars
      PROVE  IInv' /\ HubMove
  BY <1>1, HubMoves
<1>2. ASSUME NEW n \in Node, AgentStep(n) \/ AgentFault(n), UNCHANGED fabricVars
      PROVE  IInv' /\ NodeStep(n)
  BY <1>2, AgentMoves
<1>3. ASSUME NEW n \in Node, UNCHANGED <<fabricVars, agentVars>>,
             Register(n) \/ HubSocketClosed(n) \/ FrameLost(n) \/ AgentSocketClosed(n)
      PROVE  IInv' /\ HubMove
  BY <1>3, ChannelMoves
<1>4. CASE UNCHANGED allVars
  <2>1. UNCHANGED wireVars /\ UNCHANGED <<fabricVars, agentVars>>
    BY <1>4 DEF allVars
  <2> QED BY <2>1, ChannelMoves
<1>5. CASE Step
  <2>1. CASE Hub
    BY <1>1, <2>1 DEF Hub
  <2>2. CASE Agents
    BY <1>2, <2>2 DEF Agents
  <2>3. CASE \E n \in Node : Connect(n) \/ NoticesLoss(n)
    BY <1>3, <2>3 DEF Connect, NoticesLoss
  <2> QED BY <1>5, <2>1, <2>2, <2>3 DEF Step
<1>6. CASE Fault
  BY <1>1, <1>2, <1>3, <1>6 DEF Fault
<1> QED BY <1>4, <1>5, <1>6 DEF Next

(* The strengthening is an invariant of the whole job path. *)
THEOREM PathInvariance == Spec => []IInv
<1>1. IInv /\ [Next]_allVars => IInv'
  BY PathStep
<1> QED BY <1>1, PathInit, PTL DEF Spec

(* The part of VerdictInv that the theorems use. *)
LEMMA VerdictLemma ==
  ASSUME IInv, NEW j \in Job
  PROVE  /\ jobs[j].state \in {"absent", "QUEUED"} => effect[j].phase = "none"
         /\ jobs[j].state \in {"SUCCEEDED", "FAILED"} =>
              /\ effect[j].phase = "ended"
              /\ \A n \in Node : jobs[j].node = n /\ disk[n][j].state # "none" =>
                   disk[n][j].state = jobs[j].state /\ disk[n][j].result = jobs[j].result
<1>1. VerdictInv(j)
  BY DEF IInv, PathInv
<1> QED BY <1>1 DEF VerdictInv

(* The hub never rejects what its agents report. *)
THEOREM ReportsAgree == Spec => []ReceiptsAgree
<1>1. ASSUME IInv PROVE ReceiptsAgree
  <2>1. SUFFICES ASSUME NEW n \in Node, NEW r \in toHub[n] PROVE Ours(n, r) /\ Agrees(r)
    BY DEF ReceiptsAgree
  <2>2. ReceiptInv(n, r) /\ r.job \in Job /\ r.state \in ReceiptState
    BY <1>1 DEF IInv, PathInv, AgentTypeOK, WireTypeOK, Receipt
  <2>3. Agrees(r)
    <3>1. ASSUME jobs[r.job].state \in {"SUCCEEDED", "FAILED"}
          PROVE  jobs[r.job].state = r.state /\ jobs[r.job].result = r.result
      <4>1. disk[n][r.job].state # "none" =>
              /\ disk[n][r.job].state = jobs[r.job].state
              /\ disk[n][r.job].result = jobs[r.job].result
        BY <1>1, <2>2, <3>1, VerdictLemma DEF ReceiptInv
      <4>2. CASE AsReceipt(disk[n], r.job) = r
        BY <2>2, <4>1, <4>2 DEF AsReceipt, ReceiptState
      <4>3. CASE Recorded(r.job, r)
        BY <3>1, <4>3 DEF Recorded
      <4> QED BY <2>2, <4>2, <4>3 DEF ReceiptInv
    <3> QED BY <3>1 DEF Agrees
  <2> QED BY <2>2, <2>3 DEF ReceiptInv, Ours
<1> QED BY <1>1, PathInvariance, PTL

(* An agent lets go of a receipt only when the hub needs it no more. *)
THEOREM LetGoIsRecorded == Spec => []AckedIsRecorded
<1>1. IInv => AckedIsRecorded
  BY DEF IInv, PathInv, StoreInv, EntryOK, Recorded, AckedIsRecorded
<1> QED BY <1>1, PathInvariance, PTL

(* What an agent runs is held open at the hub in its name, or given up. *)
THEOREM BusyReserved == Spec => []BusyIsReserved
<1>1. ASSUME IInv PROVE BusyIsReserved
  <2>1. SUFFICES ASSUME NEW n \in Node, NEW b \in Job, b = busy[n]
                 PROVE  \/ jobs[b].state \in {"ASSIGNED", "UNKNOWN"} /\ jobs[b].node = n
                        \/ jobs[b].state = "ABANDONED"
    BY <1>1 DEF BusyIsReserved, IInv, AgentTypeOK
  <2>2. busy[n] # 0
    BY <2>1 DEF Job
  <2>3. effect[b].phase = "running" /\ cache[n][b].state = "EXECUTING"
    BY <1>1, <2>1, <2>2 DEF IInv, PathInv, RunInv
  <2>4. jobs[b].node = n
    BY <1>1, <2>3, StoreLemma DEF EntryOK
  <2>5. jobs[b].state \notin {"absent", "QUEUED"}
    BY <1>1, <2>3, VerdictLemma
  <2>6. jobs[b].state \notin {"SUCCEEDED", "FAILED"}
    BY <1>1, <2>3, VerdictLemma
  <2>7. jobs[b].state \in JobState
    BY <1>1 DEF IInv, FabricInv, JobsInv, JobRecord
  <2> QED BY <2>4, <2>5, <2>6, <2>7 DEF JobState
<1> QED BY <1>1, PathInvariance, PTL

-----------------------------------------------------------------------------
(* The job path implements the contract of a job *)

(* A step of the hub is a step of the contract, or none that shows. *)
LEMMA HubImplements ==
  ASSUME IInv, HubMove
  PROVE  Contract!ContractNext \/ UNCHANGED Contract!contractVars
<1> DEFINE status == [j \in Job |-> jobs[j].state]
           result == [j \in Job |-> jobs[j].result]
<1>1. effect' = effect /\ jobs \in [Job -> JobRecord] /\ JobsMove
  BY DEF HubMove, agentVars, IInv, FabricInv, JobsInv
<1>2. ASSUME NEW S \in SUBSET AssignedJobs, jobs' = Doubted(S)
      PROVE  Contract!Doubt(S)
  BY <1>1, <1>2 DEF Contract!Doubt, Doubted, AssignedJobs, JobRecord
<1>3. ASSUME NEW j \in Job, \A i \in Job \ {j} : jobs'[i] = jobs[i],
             NEW s, NEW v, jobs'[j].state = s, jobs'[j].result = v
      PROVE  /\ status' = [status EXCEPT ![j] = s]
             /\ result' = [result EXCEPT ![j] = v]
             /\ v = jobs[j].result => result' = result
  BY <1>3
<1>4. ASSUME NEW j \in Job, \A i \in Job \ {j} : jobs'[i] = jobs[i],
             jobs[j].state = "absent", jobs'[j].state = "QUEUED", jobs'[j].result = NoResult
      PROVE  Contract!Request(j)
  <2>1. jobs[j].result = NoResult
    BY <1>4 DEF IInv, PathInv, VerdictInv
  <2> QED BY <1>1, <1>3, <1>4, <2>1 DEF Contract!Request
<1>5. ASSUME NEW j \in Job, \A i \in Job \ {j} : jobs'[i] = jobs[i],
             jobs[j].state = "QUEUED", jobs'[j].state \in Open, jobs'[j].result = jobs[j].result
      PROVE  Contract!Assign(j)
  BY <1>1, <1>3, <1>5 DEF Contract!Assign, Open
<1>6. ASSUME NEW j \in Job, \A i \in Job \ {j} : jobs'[i] = jobs[i],
             jobs[j].state \in {"QUEUED", "UNKNOWN"},
             jobs'[j].state = "ABANDONED", jobs'[j].result = jobs[j].result
      PROVE  Contract!GiveUp(j)
  BY <1>1, <1>3, <1>6 DEF Contract!GiveUp
<1>7. ASSUME NEW j \in Job, \A i \in Job \ {j} : jobs'[i] = jobs[i],
             jobs[j].state \in Open, NEW n \in Node, NEW r \in toHub[n],
             r.job = j, jobs'[j].state = r.state, jobs'[j].result = r.result
      PROVE  Contract!Settle(j) \/ Contract!Doubt({j}) \/ UNCHANGED Contract!contractVars
  <2>1. r.state \in ReceiptState /\ Truthful(j, r)
    BY <1>7 DEF IInv, PathInv, AgentTypeOK, WireTypeOK, Receipt, ReceiptInv
  <2>2. CASE r.state \in {"SUCCEEDED", "FAILED"}
    <3>1. effect[j].phase = "ended" /\ effect[j].state = r.state /\ effect[j].result = r.result
      BY <2>1, <2>2 DEF Truthful
    <3> QED BY <1>1, <1>3, <1>7, <3>1 DEF Contract!Settle, Open
  <2>3. CASE r.state = "UNKNOWN"
    <3>1. jobs[j].result = NoResult /\ r.result = NoResult
      BY <1>7, <2>1, <2>3 DEF IInv, PathInv, VerdictInv, Open, Truthful
    <3>2. result' = result /\ status' = [status EXCEPT ![j] = "UNKNOWN"]
      <4>1. jobs'[j].state = "UNKNOWN" /\ jobs'[j].result = r.result /\ r.result = jobs[j].result
        BY <1>7, <2>3, <3>1
      <4>2. PICK s, v : s = jobs'[j].state /\ v = jobs'[j].result
        OBVIOUS
      <4>3. status' = [status EXCEPT ![j] = s] /\ (v = jobs[j].result => result' = result)
        <5> HIDE DEF status, result
        <5> QED BY <1>3, <1>7, <4>2
      <4> QED BY <4>1, <4>2, <4>3
    <3>3. CASE jobs[j].state = "UNKNOWN"
      BY <1>1, <3>2, <3>3 DEF Contract!contractVars
    <3>4. CASE jobs[j].state = "ASSIGNED"
      BY <1>1, <3>2, <3>4 DEF Contract!Doubt
    <3> QED BY <1>7, <3>3, <3>4 DEF Open
  <2> QED BY <2>1, <2>2, <2>3 DEF ReceiptState
<1>8. CASE \E S \in SUBSET AssignedJobs : jobs' = Doubted(S)
  BY <1>2, <1>8 DEF Contract!ContractNext, AssignedJobs
<1>9. CASE ~ \E S \in SUBSET AssignedJobs : jobs' = Doubted(S)
  <2>1. PICK j \in Job :
          /\ \A i \in Job \ {j} : jobs'[i] = jobs[i]
          /\ \/ /\ jobs[j].state = "absent"
                /\ jobs'[j].state = "QUEUED" /\ jobs'[j].result = NoResult
             \/ /\ jobs[j].state = "QUEUED"
                /\ jobs'[j].state \in Open /\ jobs'[j].result = jobs[j].result
             \/ /\ jobs[j].state \in {"QUEUED", "UNKNOWN"}
                /\ jobs'[j].state = "ABANDONED" /\ jobs'[j].result = jobs[j].result
             \/ /\ jobs[j].state \in Open
                /\ \E n \in Node : \E r \in toHub[n] :
                     r.job = j /\ jobs'[j].state = r.state /\ jobs'[j].result = r.result
    BY <1>1, <1>9 DEF JobsMove
  <2>2. \/ Contract!Request(j) \/ Contract!Assign(j) \/ Contract!GiveUp(j) \/ Contract!Settle(j)
        \/ Contract!Doubt({j}) \/ UNCHANGED Contract!contractVars
    BY <1>4, <1>5, <1>6, <1>7, <2>1
  <2> QED BY <2>2 DEF Contract!ContractNext
<1> QED BY <1>8, <1>9

(* A step of an agent starts, ends or loses a run, or does not show. *)
LEMMA NodeImplements ==
  ASSUME IInv, NEW n \in Node, NodeStep(n)
  PROVE  Contract!ContractNext \/ UNCHANGED Contract!contractVars
<1>1. jobs' = jobs /\ EffectMove(n)
  BY DEF NodeStep
<1>2. CASE effect' = effect
  BY <1>1, <1>2 DEF Contract!contractVars
<1>3. ASSUME NEW j \in Job, jobs[j].node = n, effect[j].phase = "none",
             effect' = [effect EXCEPT ![j].phase = "running"]
      PROVE  Contract!Run(j)
  <2>1. jobs[j].state \in JobState \ {"absent", "QUEUED"}
    BY <1>3, FabricConstants DEF IInv, FabricInv, JobsInv, JobShape, JobRecord
  <2>2. jobs[j].state \notin {"SUCCEEDED", "FAILED"}
    BY <1>3, VerdictLemma
  <2> QED BY <1>1, <1>3, <2>1, <2>2 DEF Contract!Run, JobState
<1>4. ASSUME NEW j \in Job, effect[j].phase = "running", NEW o \in Outcomes,
             effect' = [effect EXCEPT ![j] =
                          [phase |-> "ended", state |-> o.state, result |-> o.result]]
      PROVE  Contract!End(j)
  <2>1. o.state \in {"SUCCEEDED", "FAILED"} /\ o.result \in Result
    BY DEF Outcomes
  <2> QED BY <1>1, <1>4, <2>1 DEF Contract!End
<1>5. ASSUME NEW j \in Job, effect[j].phase = "running",
             effect' = [effect EXCEPT ![j].phase = "lost"]
      PROVE  Contract!Lose(j)
  BY <1>1, <1>5 DEF Contract!Lose
<1>6. CASE effect' # effect
  <2>1. PICK j \in Job : Contract!Run(j) \/ Contract!End(j) \/ Contract!Lose(j)
    BY <1>1, <1>3, <1>4, <1>5, <1>6 DEF EffectMove
  <2> QED BY <2>1 DEF Contract!ContractNext
<1> QED BY <1>2, <1>6

(* The hub, its agents and the channel keep the contract of a job. *)
THEOREM PathKeepsContract == Spec => KeepsContract
<1>1. Init => Contract!ContractInit
  BY DEF Init, FabricInit, AgentInit, Contract!ContractInit, Contract!NoRun, NoEffect, NoJob
<1>2. IInv /\ [Next]_allVars => [Contract!ContractNext]_Contract!contractVars
  BY PathStep, HubImplements, NodeImplements
<1> QED BY <1>1, <1>2, PathInvariance, PTL DEF Spec, KeepsContract, Contract!ContractSpec

=============================================================================
