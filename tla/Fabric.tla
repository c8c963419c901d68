------------------------------- MODULE Fabric -------------------------------
(***************************************************************************)
(* The job coordinator: class Fabric of src/lib/fabric.js.                 *)
(*                                                                         *)
(* Commands, receipts, disconnects and ticks run one at a time, in the     *)
(* promise chain of serial().  Only schedule() awaits inside an operation: *)
(* while the placement adapter runs, sched holds the loop's place and      *)
(* everything that is not serialized (registrations, sockets closing,      *)
(* receipts arriving) goes on.  record() appends to the journal before it  *)
(* changes the map, so jobs stands for both; an append that throws changes *)
(* neither and fails the operation it happens in (Journal.tla models the   *)
(* file).                                                                  *)
(***************************************************************************)
EXTENDS Wire, FiniteSets

CONSTANTS
  Principal,        \* who submits: a tenant and a subject
  Key,              \* idempotency keys of submit
  NoKey,            \* the fresh random key of run
  Body,             \* <<target, op, data>> of a request
  NoBody,
  Eligible(_, _),   \* nodes of the principal's tenant that the target names
                    \* and whose grant has the operation
  NoNode, NoPrincipal,
  SentLease,        \* leases a receipt names when the coordinator is taken alone
  MaxInFlight       \* and a bound on their unhandled receipts

ASSUME FabricConstants ==
  /\ NoNode \notin Node
  /\ NoPrincipal \notin Principal
  /\ NoKey \notin Key
  /\ NoBody \notin Body
  /\ SentLease \subseteq Nat

VARIABLES
  jobs,      \* the jobs map, in the order of insertion, and its journal
  sched      \* the operation suspended in schedule(), if any

fabricVars == <<jobs, sched>>

JobState == {"absent", "QUEUED", "ASSIGNED", "UNKNOWN",
             "SUCCEEDED", "FAILED", "ABANDONED"}

JobRecord == [state  : JobState,
              owner  : Principal \cup {NoPrincipal},
              key    : Key \cup {NoKey},
              body   : Body \cup {NoBody},
              node   : Node \cup {NoNode},
              lease  : Lease,
              result : Result \cup {NoResult}]

NoJob == [state |-> "absent", owner |-> NoPrincipal, key |-> NoKey,
          body |-> NoBody, node |-> NoNode, lease |-> 0, result |-> NoResult]

(* The operation a schedule() belongs to, and so who hears of its end. *)
Origin == [kind : {"command", "tick"}, node : {NoNode}, job : {0}, lease : {0}]
          \cup [kind : {"receipt"}, node : Node, job : Job, lease : Lease]

OfCommand == [kind |-> "command", node |-> NoNode, job |-> 0, lease |-> 0]
OfTick    == [OfCommand EXCEPT !.kind = "tick"]
OfReceipt(n, r) == [kind |-> "receipt", node |-> n, job |-> r.job, lease |-> r.lease]

(* at = 0: nothing is suspended and the next operation may start. *)
Suspended == [at : Job \cup {0}, free : SUBSET Node, origin : Origin]

Idle == [at |-> 0, free |-> {}, origin |-> OfCommand]

FabricTypeOK ==
  /\ WireTypeOK
  /\ jobs \in [Job -> JobRecord]
  /\ sched \in Suspended

FabricInit ==
  /\ WireInit
  /\ jobs = [j \in Job |-> NoJob]
  /\ sched = Idle

-----------------------------------------------------------------------------
(* schedule() *)

Settled == {"SUCCEEDED", "FAILED", "ABANDONED"}

(* Connected nodes the job's target admits. *)
Candidates(js, j) ==
  {n \in Node : peers[n] # "none" /\ n \in Eligible(js[j].owner, js[j].body)}

(* Mutant: an assignment in doubt no longer takes the slot. *)
FreeUnlessAssigned(js, n) == ~ \E j \in Job : js[j].node = n /\ js[j].state = "ASSIGNED"

(* free_slots = 1 *)
Free(js, n) ==
  ~ \E j \in Job : js[j].node = n /\ js[j].state \in {"ASSIGNED", "UNKNOWN"}

(* Queued jobs the loop has still to ask the adapter about. *)
ToPlace(js, from) ==
  {j \in Job : j >= from /\ js[j].state = "QUEUED" /\ Candidates(js, j) # {}}

(* The acknowledgement a receipt's operation resolves to. *)
Ack(o) == IF o.kind = "receipt"
          THEN {[type |-> "ack", job |-> o.job, lease |-> o.lease]}
          ELSE {}

Acknowledge(sent, o) ==
  IF o.kind = "receipt" /\ peers[o.node] = "live"
  THEN Delivered(sent, o.node, Ack(o))
  ELSE sent

(* The loop from index `from` on, with the jobs and messages as the        *)
(* operation has made them: it suspends at the first job that has a        *)
(* connected candidate, or ends the operation.                             *)
Schedule(js, sent, from, o) ==
  /\ jobs' = js
  /\ \/ \E j \in ToPlace(js, from) :
          /\ \A k \in ToPlace(js, from) : j <= k
          /\ sched' = [at |-> j,
                       free |-> {n \in Candidates(js, j) : Free(js, n)},
                       origin |-> o]
          /\ toAgent' = sent
     \/ /\ ToPlace(js, from) = {}
        /\ sched' = Idle
        /\ toAgent' = Acknowledge(sent, o)

(* ws.close of the hub's end of the sockets of N. *)
Closing(N) ==
  [n \in Node |-> IF n \in N /\ peers[n] = "live" THEN "closed" ELSE peers[n]]

(* An operation rejects.  A command's error goes to its terminal only; a   *)
(* receipt's closes the agent's socket; a tick's closes the socket whose   *)
(* registration asked for it, or all of them when the timer did.           *)
Reject(o) ==
  /\ sched' = Idle
  /\ \/ o.kind = "command" /\ peers' = peers
     \/ o.kind = "receipt" /\ peers' = Closing({o.node})
     \/ o.kind = "tick" /\ \E N \in {Node} \cup {{n} : n \in Node} : peers' = Closing(N)

-----------------------------------------------------------------------------
(* Commands *)

Duplicate(p, k) == {j \in Job : jobs[j].owner = p /\ jobs[j].key = k /\ k # NoKey}

(* run, and submit with a key the principal has not used; a used key       *)
(* answers with the old job or a conflict and changes nothing.  The new    *)
(* job is journalled, then scheduled.                                      *)
Submit(p, k, b) ==
  /\ sched = Idle
  /\ Duplicate(p, k) = {}
  /\ \E j \in Job :
       /\ jobs[j].state = "absent"
       /\ \A i \in Job : i < j => jobs[i].state # "absent"
       /\ Schedule([jobs EXCEPT ![j] = [NoJob EXCEPT !.state = "QUEUED", !.owner = p,
                                                     !.key = k, !.body = b]],
                   toAgent, 1, OfCommand)
  /\ UNCHANGED <<peers, conn, toHub>>

(* abandon: the operator stops waiting for a job whose outcome is open. *)
Abandon(j) ==
  /\ sched = Idle
  /\ jobs[j].state \in {"UNKNOWN", "QUEUED"}
  /\ jobs' = [jobs EXCEPT ![j].state = "ABANDONED"]
  /\ UNCHANGED <<sched, wireVars>>

-----------------------------------------------------------------------------
(* The adapter answers, or its ten seconds are over. *)

(* No placement: unavailable, refused, or stopped by the recheck (the      *)
(* chosen peer has been silent for fifteen seconds). The job stays queued. *)
NotPlaced ==
  /\ sched # Idle
  /\ Schedule(jobs, toAgent, sched.at + 1, sched.origin)
  /\ UNCHANGED <<peers, conn, toHub>>

(* What the recheck after the await admits. *)
Placeable(j, n) ==
  /\ n \in sched.free
  /\ peers[n] # "none"
  /\ jobs[j].state = "QUEUED"

Assigned(j, n) == [jobs[j] EXCEPT !.state = "ASSIGNED", !.node = n, !.lease = @ + 1]

Execute(j) == [type |-> "execute", job |-> j, lease |-> jobs[j].lease + 1]

(* The assignment is journalled with a fresh lease, then sent. *)
Place(n) ==
  LET j == sched.at IN
  /\ sched # Idle
  /\ Placeable(j, n)
  /\ peers[n] = "live"
  /\ Schedule([jobs EXCEPT ![j] = Assigned(j, n)],
              Delivered(toAgent, n, {Execute(j)}), j + 1, sched.origin)
  /\ UNCHANGED <<peers, conn, toHub>>

(* send() answers false, the socket closed or its queue full: the          *)
(* assignment is journalled once more, as UNKNOWN.                         *)
PlaceUnsent(n) ==
  LET j == sched.at IN
  /\ sched # Idle
  /\ Placeable(j, n)
  /\ Schedule([jobs EXCEPT ![j] = [Assigned(j, n) EXCEPT !.state = "UNKNOWN"]],
              toAgent, j + 1, sched.origin)
  /\ UNCHANGED <<peers, conn, toHub>>

(* Mutant: the assignment is sent first, and then the journal refuses it. *)
PlaceFailsSent(n) ==
  /\ sched # Idle
  /\ Placeable(sched.at, n)
  /\ Reject(sched.origin)
  /\ toAgent' = Delivered(toAgent, n, {Execute(sched.at)})
  /\ UNCHANGED <<jobs, conn, toHub>>

(* The journal refuses the assignment, or the UNKNOWN that follows an      *)
(* unsent one; the operation rejects.                                      *)
PlaceFails(n) ==
  LET j == sched.at IN
  /\ sched # Idle
  /\ Placeable(j, n)
  /\ jobs' \in {jobs, [jobs EXCEPT ![j] = Assigned(j, n)]}
  /\ Reject(sched.origin)
  /\ UNCHANGED <<conn, toHub, toAgent>>

-----------------------------------------------------------------------------
(* Receipts, ticks and disconnects *)

(* The receipt answers this node's assignment of the job. *)
Ours(n, r) == jobs[r.job].node = n /\ jobs[r.job].lease = r.lease

(* It may be recorded, or repeats what is. *)
Agrees(r) ==
  jobs[r.job].state \in {"SUCCEEDED", "FAILED"} =>
    jobs[r.job].state = r.state /\ jobs[r.job].result = r.result

(* Mutant: only an assigned job takes a receipt. *)
WithReceiptIfAssigned(r) ==
  IF jobs[r.job].state = "ASSIGNED"
  THEN [jobs EXCEPT ![r.job].state = r.state, ![r.job].result = r.result] ELSE jobs

WithReceipt(r) ==
  IF jobs[r.job].state \in Settled THEN jobs
  ELSE [jobs EXCEPT ![r.job].state = r.state, ![r.job].result = r.result]

(* receipt: recorded, then scheduled, then acknowledged. *)
TakeReceipt(n, r) ==
  /\ sched = Idle
  /\ r \in toHub[n]
  /\ toHub' = [toHub EXCEPT ![n] = @ \ {r}]
  /\ Ours(n, r) /\ Agrees(r)
  /\ IF jobs[r.job].state = "ABANDONED"
     THEN toAgent' = Acknowledge(toAgent, OfReceipt(n, r)) /\ UNCHANGED <<jobs, sched>>
     ELSE Schedule(WithReceipt(r), toAgent, 1, OfReceipt(n, r))
  /\ UNCHANGED <<peers, conn>>

(* FOREIGN_OR_STALE_RECEIPT or RESULT_EQUIVOCATION, or the journal refuses *)
(* what would have been recorded.                                          *)
RejectReceipt(n, r) ==
  /\ sched = Idle
  /\ r \in toHub[n]
  /\ toHub' = [toHub EXCEPT ![n] = @ \ {r}]
  /\ Ours(n, r) /\ Agrees(r) => jobs[r.job].state \notin Settled
  /\ peers' = Closing({n})
  /\ UNCHANGED <<jobs, sched, conn, toAgent>>

(* Mutant: an assignment in doubt is queued for another try.               *)
DoubtedRequeued(S) == [j \in Job |-> IF j \in S THEN [jobs[j] EXCEPT !.state = "QUEUED"]
                                                ELSE jobs[j]]

(* tick: the assignments past their deadline become UNKNOWN. *)
Doubted(S) == [j \in Job |-> IF j \in S THEN [jobs[j] EXCEPT !.state = "UNKNOWN"]
                                        ELSE jobs[j]]

AssignedJobs == {j \in Job : jobs[j].state = "ASSIGNED"}

(* Mutant: the deadline is not looked at. *)
TickOnlySchedules(expired) ==
  /\ sched = Idle
  /\ expired \subseteq AssignedJobs
  /\ Schedule(jobs, toAgent, 1, OfTick)
  /\ UNCHANGED <<peers, conn, toHub>>

Tick(expired) ==
  /\ sched = Idle
  /\ expired \subseteq AssignedJobs
  /\ Schedule(Doubted(expired), toAgent, 1, OfTick)
  /\ UNCHANGED <<peers, conn, toHub>>

(* The journal refuses one of them, those before it are recorded. *)
TickFails(expired) ==
  /\ sched = Idle
  /\ expired \subseteq AssignedJobs
  /\ expired # AssignedJobs
  /\ jobs' = Doubted(expired)
  /\ Reject(OfTick)
  /\ UNCHANGED <<conn, toHub, toAgent>>

(* disconnect, in its turn after the receipts of the closed socket. *)

(* Mutant: every job of the node, ended ones too. *)
JobsOfEver(n) == {j \in Job : jobs[j].node = n}

JobsOf(n) == {j \in AssignedJobs : jobs[j].node = n}

(* Mutant: a peer with an open job is kept for its receipt. *)
DisconnectIfFree(n) ==
  /\ sched = Idle
  /\ peers[n] = "closed"
  /\ toHub[n] = {}
  /\ Free(jobs, n)
  /\ peers' = [peers EXCEPT ![n] = "none"]
  /\ UNCHANGED <<jobs, sched, conn, toHub, toAgent>>

Disconnect(n) ==
  /\ sched = Idle
  /\ peers[n] = "closed"
  /\ toHub[n] = {}
  /\ peers' = [peers EXCEPT ![n] = "none"]
  /\ jobs' \in {Doubted(JobsOf(n)), jobs}    \* the latter: the journal refuses
  /\ UNCHANGED <<sched, conn, toHub, toAgent>>

-----------------------------------------------------------------------------

(* The process dies and the constructor replays the journal: what was      *)
(* ASSIGNED is UNKNOWN, no agent is connected, nothing is suspended.       *)
Restart ==
  /\ jobs' = Doubted(AssignedJobs)
  /\ sched' = Idle
  /\ peers' = [n \in Node |-> "none"]
  /\ toHub' = [n \in Node |-> {}]
  /\ UNCHANGED <<conn, toAgent>>

(* Every operation of the coordinator that succeeds, and every failure. *)
HubStep ==
  \/ \E p \in Principal, k \in Key \cup {NoKey}, b \in Body : Submit(p, k, b)
  \/ \E j \in Job : Abandon(j)
  \/ NotPlaced
  \/ \E n \in Node : Place(n) \/ PlaceUnsent(n) \/ Disconnect(n)
  \/ \E n \in Node : \E r \in toHub[n] : TakeReceipt(n, r)
  \/ \E expired \in SUBSET AssignedJobs : Tick(expired)

HubFault ==
  \/ \E n \in Node : PlaceFails(n)
  \/ \E n \in Node : \E r \in toHub[n] : RejectReceipt(n, r)
  \/ \E expired \in SUBSET AssignedJobs : TickFails(expired)
  \/ Restart

-----------------------------------------------------------------------------
(* The coordinator alone: an agent may send any receipt at any time, for   *)
(* any job, with a current, an old or a made-up lease.                     *)

AnyReceipt(n) ==
  /\ peers[n] = "live"
  /\ Cardinality(UNION {toHub[i] : i \in Node}) < MaxInFlight
  /\ \E r \in [job : Job, lease : SentLease, state : ReceiptState,
               result : Result \cup {NoResult}] :
       /\ r.state = "UNKNOWN" <=> r.result = NoResult
       /\ toHub' = Uploaded(toHub, n, {r})
  /\ UNCHANGED <<peers, conn, toAgent, fabricVars>>

Channel(n) ==
  /\ Register(n) \/ HubSocketClosed(n) \/ FrameLost(n) \/ AgentSocketClosed(n)
  /\ UNCHANGED fabricVars

hubVars == <<wireVars, fabricVars>>

FabricNext ==
  \/ HubStep
  \/ HubFault
  \/ \E n \in Node : Channel(n) \/ AnyReceipt(n)

FabricSpec == FabricInit /\ [][FabricNext]_hubVars

-----------------------------------------------------------------------------
(* Properties *)

(* An agent runs one job at a time, so the coordinator must never hold two *)
(* open assignments of a node, whatever its receipts, its reconnections    *)
(* and the restarts of the hub were: a second execute meets JOB_REFUSED    *)
(* and its job can only be abandoned.                                      *)
OneSlotPerNode ==
  \A i, j \in Job :
    /\ jobs[i].state \in {"ASSIGNED", "UNKNOWN"}
    /\ jobs[j].state \in {"ASSIGNED", "UNKNOWN"}
    /\ jobs[i].node = jobs[j].node
    => i = j

(* What a message on the wire may rely on: an execute names the recorded   *)
(* assignment of its job, and an acknowledged job's receipt is recorded,   *)
(* or waived by the operator.                                              *)
Covered(js, n, m) ==
  /\ js[m.job].node = n
  /\ js[m.job].lease = m.lease
  /\ m.type = "ack" => js[m.job].state \in Settled \cup {"UNKNOWN"}

(* Nothing leaves the hub ahead of its journal: every message an agent has *)
(* still to handle is covered by the recorded jobs, also after the journal *)
(* refused a write, a restart came in the middle of the operation that     *)
(* sent it, or the operator gave the job up.                               *)
WriteAhead == \A n \in Node : \A m \in toAgent[n] : Covered(jobs, n, m)

(* A retried submit finds its job: no two jobs share a principal's key,    *)
(* not even when the first one has ended or the hub restarted in between.  *)
RequestKeysUnique ==
  \A i, j \in Job :
    /\ jobs[i].state # "absent" /\ jobs[j].state # "absent"
    /\ jobs[i].owner = jobs[j].owner
    /\ jobs[i].key = jobs[j].key
    /\ jobs[i].key # NoKey
    => i = j

(* A terminal job keeps its verdict and its result: late, repeated or      *)
(* contradicting receipts, ticks, disconnects and restarts leave it alone. *)
SettledIsFinal ==
  [][\A j \in Job : jobs[j].state \in Settled => jobs'[j] = jobs[j]]_hubVars

(* No second attempt: once a job has been assigned, no later step gives it *)
(* another node or another lease, or queues it again.                      *)
AssignedOnce ==
  [][\A j \in Job : jobs[j].lease # 0 =>
       /\ jobs'[j].node = jobs[j].node
       /\ jobs'[j].lease = jobs[j].lease
       /\ jobs'[j].state # "QUEUED"]_hubVars

=============================================================================
