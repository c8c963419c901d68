# Continuous Fabric: formal models

TLA+ models of the Continuous Fabric Reference 0.4, with model-checking
configurations for TLC and proofs for TLAPS. Paths are relative to the root of
the repository.

The models cover three parts of the system:

- the **job path**, durable and distributed: a command becomes a job of the hub,
  the job is assigned to an enrolled agent, and the agent's result comes back
  across broken connections, crashes and refused writes;
- the **host**: the processes that share the hub's state directory, and those that
  share the slots of the fabric commands;
- the **terminal**, volatile: gateway, worker, shell, clients and renderer, with
  their flow control and their data structures.

## 1. The system

| Component | Source | State | Operations | Interacts with |
|---|---|---|---|---|
| Coordinator | `lib/fabric.js` | `jobs` (Map), `peers`, `tail` (promise chain) | `command`, `schedule`, `register`, `disconnect`, `receipt`, `tick`, constructor | journal (synchronous calls), placement adapter (awaited), agents (messages) |
| Hub and agent channel | `lib/hub.js` | sockets, grants, timers | `/ws/agent` upgrade, messages, 1-second check, 3-second tick, `stop` | coordinator (calls), agents (WebSocket), gateway (same listener) |
| Executor agent | `lib/agent.js` | receipt store `cache` and its file, `busy`, `stopped`, socket | message handler, reconnect and beat timers, `persist`, `prune`, `stop` | hub (WebSocket), executor (awaited), state file |
| Journal | `lib/journal.js` | file, `seq`, `head`, `events` | constructor, `append`, `stats` | coordinator |
| Locks, atomic files, adapters | `lib/common.js` | lock files, temporary files | `acquireLock`, `atomic`, `adapter` | all of the above |
| Operator commands | `bin/cfp.js`, `lib/backup.js`, `lib/custody.js` | state directory | `init`, `start`, `enroll`, `revoke`, `recover-lock`, `archive-journal`, `backup`, `restore` | files of hub and agents |
| Session memory ledger | `runtime/hermit/ram/` | accounts, leases, descriptors, slabs | `admit`, `acquire`, release, `close` | gateway |
| Terminal gateway | `runtime/hermit/gateway/` | registry, connections, tickets, credits, queues | admission, messages both ways, flow control, worker life cycle, drain | browser (WebSocket), worker (thread or process), ledger |
| Session worker | `runtime/hermit/worker/` | output gate, fabric slot leases | messages of the link, `write`, `finish` | gateway, kernel |
| Spiral shell | `runtime/hermit/src/main/spiral/` | kernel, line editor, virtual file system | keys, commands, pipelines, cancellation, exit | worker |
| Clients | `runtime/hermit/client/` | tabs, sequence numbers, credits | connect, reconnect, input, output, close | gateway |
| Renderer | `runtime/hermit/src/renderer/` | parser state, screen buffer | bytes of output, resize | client |

What is hard about it, and what makes each part correct:

- **Coordinator.** Operations are serialized by a promise chain, except that
  `schedule()` awaits the adapter for up to ten seconds inside an operation,
  while sockets close and agents register. Journal writes may throw between two
  steps of one operation; the process may die anywhere. It is correct if a job
  is assigned at most once, an agent never has two open jobs, a verdict is final,
  and nothing is sent before it is recorded.
- **Agent.** The executor call is awaited while messages, timers and closes go
  on; a save may fail after the memory has changed; the process may exit between
  the save before an execution and the one after it. It is correct if a job runs
  once, a result is never lost or invented, and a receipt is durable before it is
  sent.
- **Channel.** The two ends notice a loss separately; receipts are repeated,
  delayed and lost. It is correct if a running agent is always connected again.
- **State directory.** Commands are processes that run beside each other, look at the
  lock or do not, and may die between any two steps; writes of the journal stop part
  way. It is correct if one hub has the directory, a file a start accepts is the history
  the callers were told, one key opens all secrets, and no journal is destroyed.
- **Slots.** Directories made and removed by workers that may die while they hold
  them. Correct if the cap and the exclusive builds hold and no slot stays behind.
- **Ledger, file system, screen, decoders, line editor.** Sequential data structures
  whose counts, bounds and cuts are kept by increments through long sequences of calls.
  Correct if every sum is right, every index inside, and what comes out does not depend
  on how the input was cut.
- **Gateway and worker.** The client, the socket, the worker, six timers and a shutdown
  end a connection independently, and a message that cannot be queued closes it in the
  middle of a handler. It is correct if capacity is given back, one truthful
  `session.exit` is sent, and no worker outlives its session.
- **Flow control.** Credits, windows, pauses and waiters between shell, worker, gateway
  and browser. Correct if output arrives in order, gaps are marked, nothing is counted
  twice and nobody waits for a wake-up that does not come.
- **Shell.** Keys arrive at a prompt, in a running command, or between. Correct if they
  are fed in order, acknowledged, and the session exits once.
- **Tabs.** They share one ticket cookie and reconnect on their own. Correct if a ticket
  admits once, a revoked credential gets nobody in, and each tab ends up somewhere.

`PROJECT.json` lists every component with its status, and every hazard at its line.

## 2. Modules

| Module | Models | Extends |
|---|---|---|
| `Wire` | the socket between hub and agent: the two ends, the messages in flight | |
| `Fabric` | class `Fabric`, with the journal as a store that takes a write or refuses it | `Wire` |
| `Agent` | `startAgent`, one per node | `Wire` |
| `AgentAlone` | an agent against any hub that keeps one rule of `fabric.js` | `Agent` |
| `HubAgent` | coordinator, agents and channel composed; the mapping to `JobContract` | `Fabric`, `Agent` |
| `HubAgentLive` | the same with fairness, and what is promised once faults stop | `HubAgent` |
| `JobContract` | abstract: what the fabric promises of a job | |
| `Journal` | class `Journal`, and what `archive-journal` does to it | |
| `StateDir` | the state directory under the operator's commands: lock, secrets, journal, copies | `Journal` |
| `Slots` | the slots of the fabric commands and the children that run under them | |
| `Session` | class `Connection`, its registry entry, worker link and worker; shutdown | |
| `Output` | output from the shell through gate, link, connection and socket to the client, with credits | `CreditLimits` |
| `Credit` | abstract: the credit protocol, which `Output` implements | `CreditLimits` |
| `Shell` | input from the client through the connection to kernel and line reader; pipelines, acknowledgements, exit | |
| `Tabs` | the tabs of a browser: tickets, upgrades, reconnection, close | |
| `Ledger` | classes `Ledger`, `SessionAccount`, `Lease` | |
| `Vfs` | class `VFS` and the commands that change files | |
| `VtParser` | class `Parser` of escape sequences | |
| `Screen` | class `Screen`: rows, cursor, scroll region, scrollback | |
| `Frames` | the receiving side of `ws.js`, and the decoder of `bridge.js` | |
| `CommandLine` | `tokenize`, `expandWord`, `parse` of `pipeline.js` | |
| `LineReader` | class `LineReader` and completion | |
| `HubAgent_proofs` | theorems about `Fabric` and `HubAgent` | `HubAgent`, `AgentStore_proofs` |
| `Agent_proofs` | theorems about `AgentAlone` | `AgentAlone`, `AgentStore_proofs` |
| `AgentStore_proofs` | lemmas about the operators of `Agent` | `Agent`, `TLAPS` |
| `Host_proofs` | theorems about `StateDir` and `Slots` | both modules, `TLAPS` |
| `Session_proofs` | theorems about `Session` | `Session`, `TLAPS` |
| `Terminal_proofs` | theorems about `Output`, `Shell`, `Tabs` | the modules, `Sums` |
| `Data_proofs` | theorems about `Ledger`, `Credit`, `VtParser`, `Vfs`, `Screen`, `Frames` | the modules, `Sums` |
| `Sums` | lemmas about least elements, sums over sets and sequences, and folds | `TLAPS` |
| `MC...` | constants of the runs; parts that share no state are put side by side there | |

`MCHost`, `MCTerminal` and `MCData` check several modules in one run: a variable `focus`
chooses one, and the others stay as they begin. Modules put side by side in this way have
no variable in common, so this is the same as one run for each. In `MCHost` the state
directory is three such parts: its lock, under hubs and `recover-lock` alone; its secrets,
under every command and key and a hub that appends nothing; its journal, under commands
without keys. They meet only in that a start which is refused for one never comes to the
other. This restricts the instance that is checked; the theorems of `Host_proofs` do
without it.

### State and actions against the code

**Wire.** `peers[n]` is the hub's view: `live` while its socket is open, `closed`
from the socket's close until the queued `disconnect` has run (all that time
`/ws/agent` answers 409), `none` after. `conn[n]` is the agent's view: `opening`
until the welcome. `toHub`, `toAgent` are the messages sent and not handled, as
sets: a set forgets order and merges equal copies, so each order of the code is
among those of the model, and a receipt is repeated every three seconds anyway.
A closed socket loses what the hub's end has not received (`FrameLost`) or all
the agent has not handled.

**Fabric.** `jobs` stands for the map and the journal: `record()` appends before it
changes the map, so they differ only inside a synchronous call, and a write that
throws changes neither. `sched` is the continuation of the operation that awaits
the adapter: the index of the loop, the agents it was told to have a free slot,
and whose operation it is (a command, a tick, or the receipt to be acknowledged at
its end). Every operation requires `sched = Idle`, as in `serial()`; `Register`,
`HubSocketClosed` and arriving receipts do not. `Submit`, `Abandon`,
`TakeReceipt`, `Tick` and `Disconnect` are the operations; `Place`, `PlaceUnsent`
and `NotPlaced` are what may follow the adapter's answer; each continues with
`Schedule`, the rest of the loop. `PlaceFails`, `RejectReceipt` and `TickFails`
are the same operations when the journal refuses a record, with the sockets
`hub.js` closes for it (`Reject`); the failing half of `Disconnect` is its second
alternative, and a `Submit` whose first record fails changes nothing. `Restart` is
a crash at any point followed by the replay of the constructor. Time is not
modelled: any assigned job may be past its deadline, and any peer past its fifteen
seconds.

The recheck after the await compares the peer found by name with the one seen
before. Because `disconnect` is serialized, no peer is removed while `schedule()`
waits, so this comparison always succeeds; the conditions that can fail are the
silence of the peer and the socket closing, and both are in the model.

A lease is counted per job instead of drawn at random; only its freshness matters.

**Agent.** `cache` and `disk` are the receipt store in memory and in the file;
`atomic()` replaces the file as a whole or not at all. Handlers are atomic but for
the executor call: `OnExecute` ends where the executor starts, `Finish` begins where
it settles. `OnAckFails`, `OnExecuteFails` and `FinishFails` are handlers whose save
throws: memory changed, disk not, the agent stopped. `OnRefuse` prunes before it
refuses, as the code does. `Exit` is the end of the process at any point, `Start` the
next one: lock, load, mark interrupted executions, prune, save. `effect` is a ghost:
what running each job came to.

**Journal.** A line carries the sequence number and the hash of its predecessor;
with a hash free of collisions both say which events its writer believed to
precede it, and that is the field `prev`. A line is whole, torn (no newline), or
garbage (written behind a torn one). `events` has an entry for each hub that has the file
open, since nothing in `append` keeps two from writing to it. `returned` is a ghost: what
the callers know.

**JobContract.** `status` and `result` of a job and the `effect` of running it. The
refinement maps `status` and `result` to the fields of `jobs`.

**StateDir.** `procs` are the commands given, each at the step it takes next; a dead
process is one that has `ended` where it was. `lock` is the file: created empty, then
stamped with the owner's pid. A secret is known by the key that sealed it; the secrets
are in the order in which the migration reads them. A read of a secret (`Custody`,
`ReadSecret`, `ReadGrants`) and the write that seals it (`Seals`) are two steps, between
which any other process may act. `start` runs the migration before it takes the lock, as
the code does, then opens the journal of module `Journal` and serves; a serving hub reads,
and may seal, the grants. The commands that look at the lock and act later are one action
for the look and one for each change of the file system, and `backup` copies a file per
step. Each acts on whatever there is by then: `Unlinks` removes the lock of a living hub
if there is one. `crossed` is a ghost that remembers where this has happened, to the lock,
to a secret or to the journal; no action depends on it. `aside` are the journals that were
archived or moved away, `saved` the backups; a backup that died has `hub.json` and no
journal, and `restore` takes it, as in the code. `remade` ends a behaviour in which a file
is made anew where the directory has just been moved away.

**Slots.** `slot[i]` says who made the directory and whether the owner file is there;
`job[w]` is the command a worker runs: the index of its scan, the slots it holds, whether
it was interrupted and its child killed. `MakeSlot` and `StampSlot`, and the look
(`PassSlot`) and the removal (`ClearSlot`) of a stale slot are separate steps. `Stale`
takes a living owner's slot for taken even while it has no owner file, that is, a slot is
stamped within the code's five seconds, or never. `MakeFails` and `OwnerFails` are errors
of the two steps other than `EEXIST`: the command ends with status 75
(`commands/dfabric.js:297`) and what it had taken stays; `failed` is a ghost for that.

**Session.** A connection is a record of the fields of `Connection` that decide
anything, and of its worker. Each handler is the set of records it can leave behind,
composed of the sets of its calls: `_control` may, inside any handler, run
`_onSocketClose`, and what the handler does afterwards is done to the closed
connection. `gen` and `linkGen` are the generation fence. `inbox` and `outbox` are the
link; the worker's part is what the gateway can observe of it: it gets ready, opens,
prints, finishes, ends, dies, or does nothing for ever. A thread's messages are
delivered before its exit event; the pipe of a child process is read independently of
it, and not at all while it is paused. Time is not modelled: any armed timer may fire,
and what disarms it in the code disarms it here. A `stop` that is under way is
`stopping`, with whether its timer marks the end as the gateway's doing. `sent`,
`told`, `broken` and `left` are ghosts.

**Output.** Bytes are numbered as the shell writes them; a chunk is a number and a
length, and the marker of a gap has number 0. `gate` is the output gate, `conn` the output
half of a connection, `client` the receiving half of a tab; between them the link both
ways, the socket's send queue (`wire`) and the grants (`toServer`). A handler flushes to
the end, as the code does. `over` is why a session is over. Its credits are shown to be
those of `Credit`.

**Shell.** `user` is the client's numbering, `gw` the connection's input half, `pipe` and
`up` the link, `sh` the kernel with its reader. A key is printable, Enter, Ctrl-C or
Ctrl-D, with its number as a ghost. Between two records of a thread all continuations of
the shell run; the records of one chunk of a process's pipe are handled before them. Of
the line editor `Shell` has only what ends a line; the rest is `LineReader`.

**Tabs.** `tab[t]` is a tab's phase between asking for a ticket and its end, `jar` the one
cookie the browser has, `store` the tickets that are valid, `served` the connections the
gateway has. A tab's promise, timer and socket callbacks are one action each.

**Ledger.** One action per call; refused calls change only statistics and are left out,
as are the bytes used of a lease and the handles by which it is looked up. `account`
holds the account last admitted under a key, even after it has given its reservation
back, because leases and callers may still hold on to it.

**Vfs.** The tree is the set of its paths; each operation charges `usedBytes` and
`nodeCount` as its line of code does, and `UsageIsTrue` counts the tree. `Move` does what
the code does in its order: what stands at the target is given back, the node is put
there, and the old name is looked up again in the tree that results. That matters when the
target holds the node (`mv a/a .`): the ghost `upended` remembers it. `mv / x` hangs the
root below itself (`MoveRoot`); such a tree has no end, and what commands do to it is the
one thing not modelled.

**VtParser** reads one class of byte per step with the code's states and bounds; `since`
is a ghost, the bytes since the last one that was acted upon. **Screen** keeps the
lengths of rows: one action per operation, `Sequence` is `_dispatchCsi`, and `Resize`
the resize. The cursor that was saved is restored as it is, also outside of the grid
(ghost `strayed`), and what then touches a row that is not there throws (ghost `threw`).
**Frames** has a chunk per step in the first half (which frames end in it,
which begin) and a piece of a record in the second. **CommandLine** composes a line by
the grammar and compares what the tokenizer makes of its characters; a piece of a word is
plain, escaped, in single or double quotes, or a variable. **LineReader** feeds the same
keys in chunks and one by one; its ghost `dropped` remembers that a run was too long.

## 3. Runs

| Run | Specification, instance | Question |
|---|---|---|
| `fabric` | `FabricSpec`; 2 agents, 2 jobs, 1 key besides the fresh ones, leases 1 and 2, one receipt in flight; symmetry over agents | Is the coordinator consistent with agents that send anything? |
| `host` | `HostSpec`: an agent, 3 jobs, store of 2 pruned to 1, leases 1 and 2 for one job and 1 for the others, one message in flight; or 3 workers and 2 slots, one of which is interrupted or meets an error; or 5 hubs and `recover-lock`s, 3 at a time; or 4 processes, 2 at a time and the fourth alone, with 2 keys and 2 secrets, or with 2 events and 2 lines; symmetry over events | Does an agent run a job once and keep its results? Is the cap of the slots kept, and none left behind? Is the directory one hub's, its secrets one key's, its history true, its journals whole? |
| `job_path` | `LiveSpec`; 1 agent, 2 jobs, store of 1, any number of faults | Do hub and agent keep the contract, and agree on receipts? Does everything get done once faults stop? |
| `session` | `SessionLive`; 1 connection, both backends, 2 chunks of output, the control reserve may run out | Does a session end once, truthfully, completely? |
| `terminal` | `TerminalSpec`; both backends; output of 7 bytes in writes of 2 and 5, chunks of 2, window 5; or 3 keys in bursts, lines of 1 character, 2 pipelines; or 2 tabs, 2 tickets, 1 retry | Does output arrive, is input fed and answered, do tabs settle? |
| `data` | `DataSpec`; one of eight data structures, sizes of one to six | Are counts, bounds and cuts right after any sequence of calls? |
| `journal_lost` | `JournalSpec`; 2 events, 4 lines | What a failed write costs the next append (violation, section 6) |
| `session_reset` | `SessionSpec`; as `session`, threads | A worker without a reservation (violation, section 6) |
| `shutdown_forced` | `SessionSpec`; the control reserve never runs out | A forced shutdown that reports success (violation, section 6) |
| `tab_closed` | `TabsSpec`; as `terminal` | A closed tab that gets a session (violation, section 6) |
| `locks_raced` | `LocksSpec`; the hubs and `recover-lock`s of `host` | Two hubs that serve one directory (violation, section 6) |
| `quoting` | `DataSpec`; as `data`, with two pieces of words | A quoted `$` that is expanded (violation, section 6) |

Bounds. Two jobs and two agents are the fewest for a conflict over a slot, a choice
of agent, an adapter call for one job while another changes, and a key used twice.
Three jobs with a store of two make the store fill, prune, and refuse. Two leases
distinguish a current from a stale one. One result suffices where a receipt also
carries one of three states: equivocation is already possible between states. Symmetry is used in safety
properties only.

Five processes of which three live at a time are what the race of two `recover-lock`s
needs: a hub that dies, the two, and two starts. Four of which two live at a time are
enough for a hub that dies, the `recover-lock` that cleans up after it, and two commands
around it, or for two migrations side by side; two keys for a wrong one; two secrets for a
migration that is half done and a copy of two moments; two lines for one that is torn and
one behind it. Three workers and two slots: two hold one each while the third builds,
cleans up or waits.

Writes of two and five bytes against chunks of two, a window of five and a gate of four
are one that fits, one that is cut and one that overflows; seven bytes and the markers of
two gaps use up the window, and the five that may be queued. Three keys are a line and
what is typed behind it, an interrupt among it; the second pipeline runs when the first
was interrupted or has failed. Two tabs are what a shared cookie needs, and of two tickets
one is issued between another's issue and its use. Connections meet only in the count of reserved
places, which `reserve` guards, and in the end of a shutdown; one connection therefore
suffices for what a connection does to itself, its worker and the registry.

In `data` each bound is passed from both sides: two leases of one or two against limits
of two and three; files of none or all of three bytes, and a snapshot with one of two;
five nodes, names three deep, and one move a behaviour that upends the tree; two screen
shapes, each resized into the other, and counts from 0 to beyond the screen; payloads of
up to three bytes in messages of four; three pieces in a command line, which begin with or
follow a tilde, a letter, an operator in each kind of quote, or a variable; six keys in
chunks of up to two, and a line that holds three.

The instances are the smallest that do this: no run takes more than four minutes on two
processors.

Runs with `CHECK_DEADLOCK FALSE` are those of things that end: a hub whose file is
refused stops, keys, leases, processes and bytes are bounded, a shutdown ends a gateway.

Safety properties.

- `OneSlotPerNode`: the hub never holds two open assignments of an agent. The slot
  count is taken before the await and used after it.
- `WriteAhead`: each message on the wire is covered by recorded jobs: an execute by
  its assignment, an acknowledgement by a recorded verdict or doubt, or by the
  operator's abandon.
- `SettledIsFinal`, `AssignedOnce` (action properties): verdicts are final; a job
  is never given to a second agent or lease, nor queued again.
- `RunsOnce`: one agent never starts a job twice. The hub of `AgentAlone` may repeat
  an execute, and is held to one rule: not after it has acknowledged the job.
- `UnackedIsKept` (action property): an unacknowledged result survives every step.
- `ReceiptsAgree`: the hub never rejects a receipt of its own agents. A rejection
  would recur on each connection for ever.
- `AckedIsRecorded`: what an agent may prune is recorded with the same verdict.
- `BusyIsReserved`: an agent works on no job the hub does not hold open in its
  name, except one the operator gave up.
- `KeepsContract`: the composed system implements `JobContract`.
- `HubIsAlone`: of all processes that got past the lock at most one lives, and the lock
  names it, through any deaths and recoveries, until a command has taken away a lock that
  it had not looked at (`"lock" \in crossed`): `recover-lock`, a `restore` beside a start,
  or a start that fails to stamp. What then becomes of it is `locks_raced`.
- `SecretsOpen`: all secrets there are open with one key, in the directory and in every
  backup, whatever keys the commands were given and wherever they died, until a secret was
  replaced that had been replaced since it was read, or a copy has files of two moments
  (`"secret" \in crossed`).
- `HistoryIsKept`: an accepted journal replays what was returned, plus at most the
  one append whose caller has no answer; also after it was archived, copied or restored,
  and also when two hubs write to it, until a journal was exchanged under a hub
  (`"journal" \in crossed`).
- `JournalsSurvive` (action property): no step of a command destroys a journal. This has
  no exception.
- `CapIsKept`: children of living workers are within the slots, a build is alone, nobody
  loses a slot to one who cleans up, and a command that has ended holds nothing, unless
  its worker met an error when it took a slot.
- `WireDiscipline`: `session.opened` first, `session.exit` last, each once, and an opened
  session is told its end before the gateway closes, unless the client left.
- `NothingKept`: a forgotten connection holds nothing, and a running worker has its place
  and its memory or is being stopped.
- `ExitIsTruthful`: the reason told is the worker's or the gateway's; a failure is
  reported only of a worker that failed. This is claimed of threads. With processes the
  exit event can overtake the exit record, and a logout is then reported as a failure.
- `InOrder`: what is shown is what was written, in order, a marker in every gap.
- `WindowIsExact`: the gate's window counts each byte in flight once.
- `KeepsCredit`: the output path implements the protocol `Credit`.
- `KeysKept`: keys are fed in the order typed; none is missing that was not dropped aloud.
- `ExitsOnce`: one exit, the last thing said, with the code of the user's `exit`.
- `AdmittedOnce`: a ticket admits one connection, and is gone then.
- `Reconciles`: the ledger's own `reconcile()`, its limits at every level, and no closed
  account without a lease.
- `UsageIsTrue`: the quotas of the file system count its tree, and the tree hangs together,
  until a move puts a node over one that holds it; again after an import.
- `ActsOnWholes`: the renderer acts only on sequences that arrived whole.
- `ScreenFits`: grid, region and scrollback fit the screen after any resize; so does the
  cursor, and nothing throws, as long as none was restored outside of the grid.
- `ReceivesWholes`: messages and records are delivered as sent, and what is held of a
  part is paid for, timed, bounded, and returned.
- `PlanIsMeant`: the plan of a command line is the one that was composed, spaces, operators
  and tildes within quotes among it, if it has no word that `expandWord` takes for another
  (`Misread`: a letter after a literal `$` or after a variable that a quote ends; an
  escaped tilde; a tilde with something quoted behind it).
- `LineIsAsTyped`: the line does not depend on how the keys were cut into chunks, as long
  as no run was dropped; cursor, bound and completion are right also then.

Liveness: `ResultIsDelivered` (a durable result is acknowledged in the end),
`Reconnects` (a running agent gets a connection again), `AssignmentsResolve` (no job
stays assigned), `ConnectionEnds` (a connection that is ending is forgotten),
`WorkerReaped` (a worker without a connection dies, even one that loops), `Flows` (a
producer that waits goes on, and output reaches the screen), `Answered` (a closed session
is told its exit; otherwise its input is accepted and acknowledged), `Settles` (a tab gets
a session or is told its end), `RevokedIsOut` (a revoked credential has no connection in
the end).

Each property is broken by a plausible change of the code, defined as an operator
marked "Mutant" beside the definition it changes.

## 4. Fairness

- *Weak*: connecting (the agent's reconnect timer), noticing that the other end left
  (the hub's 1-second check of the 15-second silence; a failing write of the agent),
  the welcome, the 3-second resend, messages on an open socket, the executor and the
  placement (adapters are killed after ten seconds).
- *Strong*: handling a receipt, running a disconnect, and a tick that finds all
  deadlines passed. They wait for their turn in `serial()`, so they are disabled
  again and again while others run; the queue is first-in first-out, so each has its
  turn.
- Faults have no fairness, and any number may happen; each liveness property of the job
  path is claimed of the behaviours in which they stop (`FaultsStop`: from some step on
  every step is one of `Step`). Submits and abandons have none either. An agent that
  exits need not start again, which the properties about agents allow for.
- *Gateway*, all weak: the timer of the closing handshake, the ready timer, the grace
  timer of `stop`, callbacks of the link, the death of what was killed, and the end of a
  worker that has finished (`process.exit`). A worker has no fairness before that: it
  may loop and never read its inbox. Nor have clients, the socket or a shutdown.
- *Output and input*, weak, one condition for each: while a message is unhandled or a
  continuation can run, the event loops and the browser go on. The shell need not write
  or end, the user need not type, a command need not end, no timer is relied upon.
- *Tabs*, weak, for each tab: requests are answered, a retry timer fires, an upgrade
  succeeds or fails; and the gateway's heartbeat and its check of credentials.
- The state directory, the slots and the data structures have no fairness and no
  liveness property: an operator need not give any command.

## 5. Proofs

Each module of theorems speaks of every value of the constants that satisfies the named
assumptions of its modules, and none uses the bounds of the runs. In each, the
invariants that are wanted are not inductive alone; what follows says what has to be
added, and why. Where a property of section 3 holds until a ghost has changed, so does the
theorem: the model goes on beyond it, and the invariant covers those states too.

**`HubAgent_proofs`, the coordinator** (about `FabricSpec`, any number of agents, principals, keys, bodies
and retained jobs, any eligibility relation): type correctness, `OneSlotPerNode`,
`RequestKeysUnique`, `WriteAhead`, `SettledIsFinal`, `AssignedOnce`. The assumptions are
those of `Wire` and `Fabric`: the retention limit is positive, the null values are not
values, leases are numbers. `OneSlotPerNode` needs that the agents `sched.free` names
are still free when the adapter answers, because nothing that is not serialized touches
the jobs. `WriteAhead` needs that a job that was ever assigned keeps its agent and its
lease, and that a suspended receipt is already recorded. `FabricInv` is `JobsInv`
(types; an unassigned job has no agent; open jobs have distinct agents; keys are
distinct), `SchedInv` (the job asked about is still queued, the free agents still free,
the acknowledgement owed covered) and `WriteAhead`. The jobs change in five ways only;
one lemma for each shows `JobsInv` for the new jobs and `Keeps(old, new)`: what was
promised is not taken back. `Keeps` carries the messages in flight and implies both
action properties. `ScheduleLemma` says that the rest of the loop, from any consistent
jobs, ends in a consistent suspension; every action that schedules is that lemma applied
to one of the five changes.

**`Agent_proofs`** (about `AloneSpec`, any number of jobs, any size of the store, one
agent): type correctness, `RunsOnce`, `UnackedIsKept`, and `ReceiptIsDurable`, that a
receipt on its way is in the agent's file unless the hub has closed its job. That there
is one agent is the assumption `OneNode` of each theorem: the hub of `AgentAlone` closes
a job for one agent. `AloneInv` says, job by job, what memory may hold by what the file
holds (`Agrees`: it is ahead only after a save has failed, and then the agent has stopped
and nothing runs); that what is acknowledged has been closed by the hub and is not
running (`Closes`); that what was ever started is in the file or closed (`Began`); that
the running job is in memory and in the file as such (`Runs`); and what the messages
under way say (`Sent`, `Durable`). A handler whose save succeeds and one whose save
fails are two lemmas (`SavedStore` for stores that `Keeps` allows, `UnsavedStore` for
those of `Strays`); each handler is one of them, applied to the entry it changes. What the operators of
`Agent` return and that its actions keep their types is in `AgentStore_proofs`, which the
next module shares.

**`HubAgent_proofs`, the job path** (about `HubAgent!Spec`, any number of agents, jobs, principals,
keys and results, any size of the stores): `ReceiptsAgree`, `AckedIsRecorded`,
`BusyIsReserved`, and that the job path implements `JobContract` (`KeepsContract`). The
assumptions are those of `Wire`, `Fabric` and `Agent`. None of the three invariants is
inductive: what the hub may believe depends on the agent's file, the file on the messages
that made it, and those on the jobs. `IInv` is `FabricInv`, the types, and `PathInv`:

- `StoreInv`: an entry, in memory or in the file, is of a job the hub gave to that agent
  under that lease, tells the outcome of its run if it tells one, and is acknowledged
  only if the hub has recorded it; memory is ahead of the file only by acknowledgements
  and prunings, or after a failed save that none will follow (`FileAgrees`).
- `RunInv`: the job an agent runs is `EXECUTING` in its file. So a process that exits finds
  it there, and makes it `UNKNOWN` instead of running it again.
- `VerdictInv`: what the hub shows as ended is what the run ended with, and does not
  contradict the file.
- `ReceiptInv` and `MsgInv`: a receipt in flight repeats an entry of the file, or one that
  was recorded and dropped; an execute in flight is of a job that nobody has started; an
  acknowledgement, also one that a suspended `schedule()` still owes, is for a result
  that is recorded (`Closed`).

The proof is cut at the wire. A step of an agent leaves the jobs alone: `NodeStep` lists
what it may do to its file, its messages and the run, one lemma per handler shows that it
does no more, and `NodeKeeps` that `IInv` survives. A step of the hub or of the channel
leaves the agents alone: `HubMove` lists how jobs may move and what may be sent, and
`HubKeeps` shows the same. The refinement needs no more than these two relations:
`HubImplements` maps each kind of `JobsMove`, and `NodeImplements` each kind of
`EffectMove`, to an action of the contract.

**`Host_proofs`, the state directory** (about `StateSpec`, any number of processes, keys, secrets and
lines): `HubIsAlone`, `SecretsOpen`, `HistoryIsKept`, `JournalsSurvive`. The only
assumption is `SecretsAssumption`.

- `LockInv`: one process is past the lock and the lock is its own (`OneHolds`), until a
  lock was crossed; and the owner that a `recover-lock` remembers has ended (`SeenDead`).
  The last is what the removal of a lock relies on: pids are not used again. The removal
  is crossed just where the lock is no longer that owner's.
- `SecretsInv`: every secret is plain or sealed as `agents.json` is (`Good`), in the
  directory, in each copy and in what a restore has staged; a migration that has a key and
  has passed the first file has sealed it, or found it sealed, with that key (`Migrates`),
  as long as no secret was crossed. `SealedStep` is the write of a sealed form after some
  other process may have acted: if the file is still plain, the key is that of
  `agents.json`, or the file is the first.
- `HistoryInv`: every journal, live or copied, that a start would accept tells what was
  returned and at most one event more (`Story`); whoever serves knows a beginning of it
  (`Knows`), which is why two hubs on one file do no harm to what is accepted.
  `WrittenLemma` is the step of an append: a line behind a torn one makes the file
  unacceptable, and a whole line is accepted only if its writer knew of all lines before
  it.

**`Host_proofs`, the slots** (about `SlotsSpec`, any number of workers and slots): `CapIsKept`. To
be inductive it needs whose a slot is: the slots a worker holds, and the one it is
stamping, are made in its name, and no others are unless a command of it has failed
(`Owned`); and a free slot has no owner file (`Nobody`).

**`Session_proofs`** (about `SessionSpec`, any set of connections, any `MaxOut`, either
backend): `WireDiscipline`, `NothingKept`, `ExitIsTruthful`. Connections share nothing but
the backend, so the invariant is one record's, `Sound`:

- `Phase`: the state, the socket, the generation and what is reserved agree; a socket
  that is closed has given its generation, its place and its memory back.
- `Linked` and `Stops`: the link, the process and what was heard of its end agree; a
  running worker of a closing connection has been told to stop or is being killed. This
  is what `NothingKept` needs after the place is given back.
- `Form` and `Said`: what was sent has the form of `WireDiscipline` whatever the socket
  does; while it is open no exit was sent, and while it closes the exit is the last
  message. `Said` is false in the middle of `_finalExit`, between the exit and the close.
- `Reasons` and `Causes`: every reason stored or told is true; a thread that is dying and
  is still listened to is one that broke, or that the gateway is killing because it ends
  the session; one that finished has said so, or its exit record is on its way. Without
  the last, `_workerExited` could tell a failure that was none.

A handler calls `end`, `stop`, `_flush`, `_finalExit` and `_control`, and each may end the
session. One lemma for each says that it leaves a sound connection sound, `_finalExit`
together with the close of the socket; a kill by itself leaves only `Core`, until the
caller has noted who asked for it. A handler is the chain of these lemmas. `SessionTypeOK` bounds `pending` by the outputs of
a worker, which would need their count; the proof does with `pending \in Nat`.

**`Data_proofs`, the credits** (about the abstract protocol `Credit`, any limits that
`gateway/config.js` admits, `CreditAssumption`): the gateway never sends more than what was
consumed and one window (`Bounded`); and with limits for which the client renews in time
(`RenewsInTime`: `4 * ChunkBytes <= 3 * Window` and `RenewMessages <= MaxOutstanding`, as
the defaults are and `config.js:68` does not require), when all that was sent is consumed
and no grant is under way or lost, there is credit for another chunk (`Unstalled`).
`CreditInv` says that grants are ordered and none newer than the client's
last, that the client has renewed whenever it was due, and that its last grant is known
to the server or on its way. That `Output` implements `Credit` is proved with the output.

**`Data_proofs`, the ledger** (about `LedgerSpec`, any keys, tenants, buckets, leases, sizes and
limits): type correctness, `WithinLimits`, `HeldIsCharged`, `ClosedIsHeld`,
`RefundedOnce` and `Reconciles`. `HeldIsCharged` is not inductive: a lease could be taken
in an account that has given its reservation back. `LedgerInv` adds that an account which
is not closed is held (`OpenIsAdmitted`), and says of every total that it is the sum of
what it stands for (`TotalsAgree`), in the terms of `Sums`: a call adds a summand, takes
one away or changes none (`TotalChanges`). The two need each other. A key that is admitted
again starts with nothing charged because no lease of its former account is live, and
what `_finishClose` takes from a tenant is never cut off at zero because the tenant is
charged no less than each of its accounts reserves. `BytesTotal` and `LimitsTotal` say
that the sums of `Reconcile` are those totals.

**`Data_proofs`, the parser** (about `ParserSpec`, any bytes and bounds): `ActsOnWholes`.
`ParserInv` says in each state of the parser what the bytes since `GROUND` are: an ESC that
has only begun (`EscAt`), a control sequence with so many parameters (`CsiAt`), a title of
which so many bytes are kept (`OscAt`), also when an ESC follows it that may end it. One
lemma for each state.

**`Data_proofs`, the file system** (about `VfsSpec`, any names, sizes, quotas and depth):
`UsageIsTrue`. The assumptions are that the quotas are numbers and allow the root
(`QuotaAssumption`), that sizes and depths are numbers (`PathAssumption`), and that a
snapshot is a tree (`SnapshotAssumption`), as the nested records `importSnapshot` reads
are. `VfsInv` adds to the property that the tree is one (`IsTree`), with finitely many
nodes, and that `usedBytes` is their total in the terms of `Sums`; the invariant of the
specification is that, unless the tree is `upended` (`HonestInv`), because only an import
makes an upended one right again. Whatever is above a node
is a directory of the tree (`Ancestors`, by the least counterexample), which is why a move
to a place below a file is refused and why `mkdir -p` misses every directory below one it
misses. An operation puts a node (`PutTree`), adds directories (`AddDirs`), cuts a subtree
(`CutTree`) or moves one (`MoveTree`), and each lemma says by how much the total and the
number of nodes change; a command charges just that (`ChargedTree`). A move renames paths,
back and forth (`RebasedBack`), and a sum over renamed summands is the same
(`TotalImage`). Of an upended tree nothing is said (section 6).

**`Data_proofs`, the screen** (about `ScreenSpec`, any positive sizes and any bounds that are
numbers, `ScreenAssumption`): `ScreenFits`. Rows that are long enough stay so when they are joined, cut and
shifted, which is what scrolling, inserting and resizing do to them; how long they may be,
and where the cursor may be, are sets (`Widths`, `Xs`, `Ys`) that are exactly those of the
screen while no cursor has strayed, and have no upper end afterwards.
What goes to the scrollback is a fold, a row at a time, each of which may push out older
ones. `Sums` says what any fold is, as it does of sums: there is a function over the
subsets of a finite set that is the fold (`FoldExists`), and what every step keeps the
fold keeps (`FoldStays`). `PushedRowKept` is that one step: the rows dropped are the fewest
that are enough, all of them would be, and the count of cells goes down by what they have.
`ScreenInv` adds to the property the types, and that the saved cursor has coordinates, not
that they are on the screen: they may be of a larger one, and are restored as they are.

**`Data_proofs`, the framings** (about `FramesSpec` and `BridgeSpec`, any lengths and
bounds that are numbers, `FramesAssumption`): `ReceivesWholes`. For a WebSocket connection
the invariant, `FramesInv`, adds what is held of the message the peer is sending, as a
frame that spans chunks or as parts, and that it is what the peer has told so far
(`HeldIsTold`); so what is delivered at the end is what was told. That nothing more than
`MaxMessageBytes` is held needs the check of the header to count the parts already there
(`NotRefused`). For the decoder of the bridge, `Reached(d, got)` says where in the
records a decoder is after so many bytes: after so many whole records, none an error, and
so far into the header or the body of the next. A byte takes it one further
(`TakesByteReaches`), a chunk, a fold of bytes, as many as it has (`ChunkReaches`, by
`FoldGrows`: what one step makes of what so many have left is true after one more). From
that, `DecodesWholes` is arithmetic: records end in order (`RecordOrder`), so the number
delivered is the greatest that has arrived and precedes an error. The deadline is part of
the invariant while the pipe is open only (`Timed`): its end stops the timer.

**`Terminal_proofs`, the output** (about `OutputSpec`, any writes, limits and either
backend, under `OutputAssumption` and `CreditAssumption`): `WindowIsExact`, `InOrder`, and
that the output path implements `Credit` (`KeepsCredit`). The first two speak of queues, whose bytes are a fold. `Sums` says what a fold over a sequence is
without an induction over data: a sum is a function over the subsets of a finite set, of
all sets it could be wrong about one is least, and that one it is right about. Sums of two
parts of a queue then add up (`BytesSplit`, `BytesConcat`). `PumpIs` and `FlushIs` say what
the two loops of the code do: they move a first part of one queue to the end of the next,
within the limits. `WindowInv` is the types and `WindowIsExact` itself; the types include
that the bytes in the socket are within its queue, and that a report is a number.
`OrderInv` joins the queues to one pipeline (`Pipeline`), in which every chunk of output
continues the last or follows a marker (`InSequence`), and which ends with a marker while
the gate drops. A pump or a flush does not change the pipeline, a write puts something at
its end, and the client takes its head (`SequenceChunks`, `SequenceMarker`, `SequenceDrop`).

For the refinement, `CreditsInv` adds to the types what the two ends know of the messages
(`Agreed`): the outstanding ones are numbered without a gap (`Numbered`), the last of them
are on the wire (`OnWire`), the sum noted with each is what the client will have consumed
with it (`Summed`), and every grant on its way is of an outstanding message and tells the
sum of that message and one window (`Granting`). So the count in `_credit` finds the message
of a grant (`FoundIs`), and an honest grant is no violation (`Honest`). A flush is the
protocol's `Flush` (`FlushMaps`) and leaves the ends agreed (`FlushAgrees`); one lemma per
action shows `Accords`, that the ends agree afterwards and the step is one of `CreditNext`.
From the same invariant: the gateway never sends more than one window beyond what was
consumed (`OutputNeverOverruns`), and never ends the session of this client for a violation
(`HonestNeverPunished`), which is why `Flows` does not excuse it.

**`Terminal_proofs`, the shell** (about `ShellSpec`, for any inputs of at least one key,
as `decodeData` refuses an empty one, and any room for them: `ShellAssumption`):
`ExitsOnce` and `KeysKept`. `ExitsInv` says where the exit is: not said, with its timer,
the last message on its way, or come. A handler of the shell leaves the exit alone
(`Stays`) or exits (`Leaves`), and one that has exited does not again.

`KeysKept` needs more than it says. `KeysInv` adds what the kernel's buffers hold
(`Ordered`: the type-ahead is in order, within its room, and behind all that was fed) and
what is on the way (`Coming`: each message goes on where the input before it ends, and if
the gateway has taken every input the last of them ends with the last key typed; once it
has refused one it accepts none, so nothing can follow the gap). The numbers of the next
keys are then exactly those after `arrived`. One lemma per operation of the kernel
(`AheadKept`, `FeedKept`, `OpenKept`, `WrittenKept`, `SignalledKept`, `FinishedGoes`) says
where it puts the keys it is given. They rest on `FedIs`, by induction over the fold in
`Fed`: a reader takes all keys or is done, and one that is done takes none; and on
`CutKeys` and `JoinKeys` for the parts of the type-ahead.

**`Terminal_proofs`, the tabs** (about `TabsSpec`, any tabs and tickets): `AdmittedOnce`,
which is inductive: a ticket in the store is used by nobody, since it leaves the store
before it is used and a new one is fresh.

Only model-checked: `Journal` by itself; the command line and the line editor, whose
parsers are recursive and so out of the prover's reach; and all liveness, which, like
`ENABLED`, is too.

## 6. Findings

`journal_lost`: `append()` does not undo a failed write. When a write or sync throws, its
caller is told, but the bytes stay in the file while `seq` and `head` do not advance. The
next append returns, and its caller acknowledges a receipt or sends an assignment; but its
line follows a partial line, or repeats a sequence number, and cannot be read back.
`docs/ARCHITECTURE.md:132` promises that the receipt is persisted before it is
acknowledged. It is not the refusal of a torn tail at a start that is complained of, which
is documented (`journal.js:12`): `ReturnedIsRecoverable` asks only that the appends that
have returned are whole and chained at the head of the file, whatever is behind them.
`HistoryIsKept` shows the other half: a refused file is never silently misread.

`session_reset`: `_open()` goes on after a `session.reset` that could not be queued. The
failed `_control()` has terminated the socket, closed the connection and released its
session; `_open()` then links a worker all the same, under the new generation, so the
fence does not hold its callbacks back. No place and no memory is reserved for that
worker, against `connection.js:228` and `server.js:66`. It does end: the closed account
refuses its first output, and `end` stops it (`WorkerReaped` covers it). `NothingKept`
is claimed of all other workers.

`shutdown_forced`: when the deadline of a shutdown has to terminate connections,
terminating the last of them re-enters the end of the shutdown and resolves it as not
forced (`server.js:294` against `299` and `323`), so the process exits with 0.

`tab_closed`: `close()` of a tab clears its retry timer, but not a reconnection that
already waits for its ticket or its socket (`ws-adapter.js:197`, `199`): the tab that the
user has closed gets a session, and a worker for it.

`locks_raced`: `recover-lock` tests the owner and unlinks whatever lock there is then
(`cfp.js:169`, `170`). Of two that look at the lock of a dead hub, the second may remove
the lock of the hub that started after the first, and another hub starts beside it.
`docs/DEPLOYMENT.md:33` calls the lock exclusive process ownership, and line 123 says that
the lock of a living owner is refused.

`quoting`: `expandWord` sees the value of a word and not what was quoted of it. It expands
a `$` that was escaped or in single quotes, reads `"$A"a` as the variable `Aa`, takes `\~`
for the home, and keeps a plain tilde when something else in the word is quoted.
`pipeline.js:13` says what is expanded, and that quoting is honored.

### Other divergences met while modelling

These have no run of their own: a ghost or an assumption names them, or the model simply
behaves as the code does.

- *Slots.* A worker that dies leaves its child running while its slot is reclaimed, so the
  cap holds of the children of living workers only. Two workers that clean up the same
  stale slot look and remove separately; the second may remove a slot taken in between
  (`snatched`). The thread backend writes the gateway's pid, so the slots of a dead thread
  are never stale. An interrupt while waiting is noticed after the pause.
- *State directory.* `archive-journal`, `backup` and `restore` look at the lock without
  taking it, and `start` migrates the secrets before it takes the lock, so that two starts
  with different keys seal some files with each; an `enroll` without a key beside a
  migration, or an enrolled file that sorts before `agents.json`, mixes keys; concurrent
  `enroll`s lose updates. The model has these behaviours and marks them (`crossed`), but
  for the file that sorts first. A start that dies between creating and stamping the lock
  leaves an empty file that `recover-lock` refuses for ever. A backup that died is
  accepted by `restore`.
- *Credits.* `config.js:68` admits a window of one chunk, and eight messages in flight,
  with which output can stall; `RenewsInTime` is what is needed. A grant refused for
  its rate stalls output too. Input refused for rate or memory leaves the client's number
  ahead of the gateway's, and the terminal takes no more input. The gate lets one chunk
  more than its window out, and the marker of a gap may exceed its bound.
- *Shell.* `executedSeq` counts what was only typed ahead; an empty line and a Ctrl-C are
  never acknowledged. A Ctrl-C between two pipelines goes into the type-ahead, and after
  `;` the line continues at 130. In the process backend an interrupt in the chunk of its
  Enter is lost. After `exit N` a close that arrives first is told as `closed`.
- *Line editor.* `_insert` drops a run of characters that is too long for the line as a
  whole (`line-reader.js:201`), where the same characters one by one fill it, against the
  same screen result that `line-reader.js:101` promises; `LineIsAsTyped` holds until then
  (`dropped`). An escape followed by Enter or Ctrl-C inserts the control character.
- *File system.* `mv a/a .` gives back the directory `a` with all that is in it
  (`vfs.js:224`), and then hangs `a/a` in its place: the node is there and not counted,
  against the atomic accounting of `vfs.js:101`. The old name is then looked up through the
  new tree (`vfs.js:226`): the command fails with everything done, or drops a child.
  `UsageIsTrue` and its theorem are about all other moves (`upended`). `mv / x` hangs the root below itself; `mkdir -p` keeps the directories it
  made before a refusal.
- *Renderer.* A cursor that was saved is restored unchecked (`screen.js:141`). After a
  resize to fewer rows it is below the grid, and the next character throws
  (`screen.js:96`); `tests/vt/vt.test.js:58` says that no bytes do, but its bytes save no
  cursor. `ScreenFits` holds of the cursor and the rows until then (`strayed`). Erasing the scrollback does not reset its count of cells; an escape in an
  escape ends it; a cancelled OSC leaves its overflow mark.
- *Framing.* A frame header that stays incomplete has no deadline; while a socket closes, a
  body may still be rented. `resume()` of the bridge's decoder after a failure arms its
  timer again.
- *Tabs.* All tabs share the ticket cookie, so one tab's ticket may be spent by another; a
  failed tab may emit its exit twice.

## 7. Abstractions and what is not modelled

- Receipts an agent could not send because its socket's buffer was full are sent by
  the next beat; the model sends them all. The limits of 20 messages a second and of
  sizes are not counted; a socket may close at any time instead.
- The journal's 32 MiB limit is a refused write.
- The coordinator's read-only commands and the `reason` texts are left out.
- Saves of the agent are durable once they return; the directory is not synced in the
  code, so a power loss is outside the model.
- Time is nowhere modelled: an armed timer may fire at any moment, and what disarms it in
  the code disarms it here. Rates (messages, credits, input) are refusals or closes that
  may happen.
- `Session` leaves out input, credits and bytes, which are in `Output` and `Shell`; the
  checks of identity, tickets and memory are refusals there. What remains of a worker
  when the gateway itself exits is not modelled.
- `StateDir` is not composed with `HubAgent`: restoring an older journal under agents
  that have pruned their receipts is a hazard without a property.
- `Screen` has neither cells, pens nor tabs, `VtParser` neither UTF-8 nor C1 controls,
  `Frames` neither masks nor UTF-8; `CommandLine` compares classes of characters.
- Not modelled, as pure tables, formatting or I/O without a state worth checking:
  validation of messages (`protocol/codec.js`), metrics, policy and locator of the PHOTON
  commands, transport selection and boot of the clients, accessibility, build and check
  tools.
- Not modelled, as calls of external programs whose answers are a choice in the models
  that use them: software attestation, the placement and execution adapters, the
  Electron shell.
- `requireEnc` and the dry run of `upgrade` are left out: the first refuses more starts,
  the second writes nothing.

## 8. Plan

Done are the modules of section 2. What would add most, in this order:

1. Compose `StateDir` with `HubAgent`: a restore of an older journal, and an
   `archive-journal`, under agents with unacknowledged or pruned receipts.
2. Compose `Shell` and `Output`, so that a command's output and the acknowledgement of its
   line are seen in one order.
3. `Session` with more than one connection, for the bound on sessions.
