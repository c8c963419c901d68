-------------------------------- MODULE Slots --------------------------------
(***************************************************************************)
(* The fabric commands of remote sessions share a few slots: directories   *)
(* that the workers, each a process of its own, make and remove            *)
(* (createLease of src/runtime/hermit/worker/fabric-lease.js; runPoliced   *)
(* of commands/dfabric.js; runCli of dfabric/runner.js).  A run or verify  *)
(* needs any one slot, a build needs them all.                             *)
(*                                                                         *)
(* A worker may die between any two steps; what it leaves is removed by    *)
(* another, which looks and then removes: when a living worker has taken   *)
(* the slot between the two, `snatched` becomes TRUE and the model stops.  *)
(* That a slot is stamped within 5 s of its making, or never, is assumed.  *)
(*                                                                         *)
(* Making a slot or writing its owner may fail (a full disk, no rights):   *)
(* the command ends, and what it had taken stays until the worker is dead, *)
(* or for 5 s where the owner is missing.  `failed` remembers where that   *)
(* happened; nothing in the code does, and no action depends on it.        *)
(***************************************************************************)
EXTENDS Integers, FiniteSets

CONSTANTS Worker, SlotCount

ASSUME SlotsAssumption == SlotCount \in Nat \ {0} /\ "nobody" \notin Worker

VARIABLES
  slot,            \* who made each slot, and whether the owner is written
  job,             \* the command of each worker
  snatched,
  failed           \* the workers of which a command has failed to take a slot

slotVars == <<slot, job, snatched, failed>>

Slot == 1..SlotCount
Kind == {"run", "build"}
FreeSlot == [by |-> "nobody", stamped |-> FALSE]

NoJob == [pc |-> "idle", kind |-> "run", at |-> 1, held |-> {}, aborted |-> FALSE,
          killed |-> FALSE, status |-> 0]

SlotsInit ==
  /\ slot = [i \in Slot |-> FreeSlot]
  /\ job = [w \in Worker |-> NoJob]
  /\ snatched = FALSE
  /\ failed = {}

LivingWorker(w) == job[w].pc # "dead"
Need(w) == IF job[w].kind = "build" THEN SlotCount ELSE 1
JobAt(w, pc) == job[w].pc = pc /\ ~ snatched
Sets(w, pc, at, held) == job' = [job EXCEPT ![w] = [job[w] EXCEPT !.pc = pc, !.at = at, !.held = held]]

-----------------------------------------------------------------------------
(* Taking: tryTake for one slot after the other. *)

BeginJob(w, kind) ==
  /\ JobAt(w, "idle")
  /\ job' = [job EXCEPT ![w] = [NoJob EXCEPT !.pc = "scans", !.kind = kind]]
  /\ UNCHANGED <<slot, snatched, failed>>

(* The user interrupts. *)
AbortJob(w) ==
  /\ ~ snatched /\ job[w].pc \notin {"idle", "dead"} /\ ~ job[w].aborted
  /\ job' = [job EXCEPT ![w] = [job[w] EXCEPT !.aborted = TRUE]]
  /\ UNCHANGED <<slot, snatched, failed>>

Scans(w) == JobAt(w, "scans") /\ Cardinality(job[w].held) < Need(w) /\ job[w].at \in Slot

MakeSlot(w) ==
  /\ Scans(w)
  /\ LET i == job[w].at IN
     /\ i \notin job[w].held /\ slot[i] = FreeSlot
     /\ slot' = [slot EXCEPT ![i] = [by |-> w, stamped |-> FALSE]]
     /\ Sets(w, "stamps", i, job[w].held)
  /\ UNCHANGED <<snatched, failed>>

(* Any other error than that the slot is there: the command fails, and the *)
(* slots it holds are not given back.                                      *)
Fails(w) == job' = [job EXCEPT ![w] = NoJob] /\ failed' = failed \cup {w}

MakeFails(w) ==
  /\ Scans(w) /\ job[w].at \notin job[w].held /\ slot[job[w].at] = FreeSlot
  /\ Fails(w)
  /\ UNCHANGED <<slot, snatched>>

OwnerFails(w) ==
  /\ JobAt(w, "stamps")
  /\ Fails(w)
  /\ UNCHANGED <<slot, snatched>>

StampSlot(w) ==
  /\ JobAt(w, "stamps")
  /\ LET i == job[w].at IN
     /\ slot' = [slot EXCEPT ![i] = [by |-> w, stamped |-> TRUE]]
     /\ Sets(w, "scans", i + 1, job[w].held \cup {i})
  /\ UNCHANGED <<snatched, failed>>

(* Mutant: a slot without an owner is stale however young it is. *)
StaleUnstamped(i) == ~ slot[i].stamped \/ ~ LivingWorker(slot[i].by)

Stamping(i) == \E w \in Worker : job[w].pc = "stamps" /\ job[w].at = i

(* The owner is dead, or none was written in 5 s. *)
Stale(i) == IF slot[i].stamped THEN ~ LivingWorker(slot[i].by) ELSE ~ Stamping(i)

(* A slot that nobody will stamp any more is not yet stale when it is young. *)
PassSlot(w) ==
  /\ Scans(w)
  /\ LET i == job[w].at IN
     \/ i \in job[w].held /\ Sets(w, "scans", i + 1, job[w].held)
     \/ /\ i \notin job[w].held /\ slot[i] # FreeSlot
        /\ \/ Stale(i) /\ Sets(w, "clears", i, job[w].held)
           \/ ~ (Stale(i) /\ slot[i].stamped) /\ Sets(w, "scans", i + 1, job[w].held)
  /\ UNCHANGED <<slot, snatched, failed>>

ClearSlot(w) ==
  /\ JobAt(w, "clears")
  /\ LET i == job[w].at IN
     /\ slot' = [slot EXCEPT ![i] = FreeSlot]
     /\ snatched' = (slot[i] # FreeSlot /\ ~ Stale(i))
     /\ Sets(w, "scans", i + 1, job[w].held)
  /\ UNCHANGED failed

-----------------------------------------------------------------------------
(* Waiting, running, and giving back *)

(* Whoever builds does not wait with a part of the slots. *)
WaitForSlots(w) ==
  /\ JobAt(w, "scans") /\ Cardinality(job[w].held) < Need(w) /\ job[w].at \notin Slot
  /\ Sets(w, IF job[w].held = {} THEN "waits" ELSE "yields", 1, job[w].held)
  /\ UNCHANGED <<slot, snatched, failed>>

(* After a pause; an interrupt is seen only now, and the time may be over. *)
TryAgain(w) ==
  /\ JobAt(w, "waits") /\ ~ job[w].aborted
  /\ Sets(w, "scans", 1, job[w].held)
  /\ UNCHANGED <<slot, snatched, failed>>

GiveUp(w) ==
  /\ JobAt(w, "waits")
  /\ \E status \in IF job[w].aborted THEN {75, 130} ELSE {75} :
        job' = [job EXCEPT ![w] = [job[w] EXCEPT !.pc = "gives", !.status = status]]
  /\ UNCHANGED <<slot, snatched, failed>>

(* The child runs; one that was interrupted before is interrupted at once. *)
StartChild(w) ==
  /\ JobAt(w, "scans") /\ Cardinality(job[w].held) >= Need(w)
  /\ Sets(w, "runs", 1, job[w].held)
  /\ UNCHANGED <<slot, snatched, failed>>

(* The deadline of the child: SIGKILL. *)
ChildLate(w) ==
  /\ JobAt(w, "runs") /\ ~ job[w].killed
  /\ job' = [job EXCEPT ![w] = [job[w] EXCEPT !.killed = TRUE]]
  /\ UNCHANGED <<slot, snatched, failed>>

(* 'close', or 'error': by a signal, or with a code, also after one. *)
ChildEnds(w) ==
  /\ JobAt(w, "runs")
  /\ \E status \in CASE job[w].killed -> {124}
                     [] ~ job[w].killed /\ job[w].aborted -> {0, 1, 127, 130}
                     [] OTHER -> {0, 1, 127} :
        job' = [job EXCEPT ![w] = [job[w] EXCEPT !.pc = "gives", !.status = status]]
  /\ UNCHANGED <<slot, snatched, failed>>

(* releaseAll, the slot taken last first. *)
GiveBack(w) ==
  /\ ~ snatched /\ job[w].pc \in {"gives", "yields"}
  /\ LET held == job[w].held
         left == {i \in held : \E j \in held : j > i} IN
     /\ slot' = [i \in Slot |-> IF i \in held \ left THEN FreeSlot ELSE slot[i]]
     /\ CASE left # {} -> Sets(w, job[w].pc, 1, left)
          [] left = {} /\ job[w].pc = "yields" -> Sets(w, "waits", 1, left)
          [] left = {} /\ job[w].pc = "gives" -> job' = [job EXCEPT ![w] = NoJob]
  /\ UNCHANGED <<snatched, failed>>

WorkerDies(w) ==
  /\ ~ snatched /\ LivingWorker(w)
  /\ job' = [job EXCEPT ![w] = [NoJob EXCEPT !.pc = "dead"]]
  /\ UNCHANGED <<slot, snatched, failed>>

SlotsNext ==
  \E w \in Worker :
    \/ \E kind \in Kind : BeginJob(w, kind)
    \/ AbortJob(w) \/ MakeSlot(w) \/ StampSlot(w) \/ MakeFails(w) \/ OwnerFails(w)
    \/ PassSlot(w) \/ ClearSlot(w)
    \/ WaitForSlots(w) \/ TryAgain(w) \/ GiveUp(w)
    \/ StartChild(w) \/ ChildLate(w) \/ ChildEnds(w) \/ GiveBack(w) \/ WorkerDies(w)

SlotsSpec == SlotsInit /\ [][SlotsNext]_slotVars

-----------------------------------------------------------------------------
(* Properties *)

(* No more children run than there are slots, and a build runs alone       *)
(* ("exclusive", fabric-lease.js:7), as far as the children of living      *)
(* workers go.  Nobody has lost a slot to a worker that cleans up.  And a  *)
(* command that has ended or waits has left no slot behind, however it     *)
(* ended, unless a command of the same worker failed to make a slot or to  *)
(* write its owner: then slots stay behind (fabric-lease.js:19).           *)
CapIsKept == ~ snatched =>
  LET running == {w \in Worker : job[w].pc = "runs"}
      making(w) == IF job[w].pc = "stamps" THEN {job[w].at} ELSE {}
      made(w) == {i \in Slot : slot[i].by = w} IN
  /\ Cardinality(running) <= SlotCount
  /\ \A w \in running : job[w].kind = "build" => running = {w}
  /\ \A w \in Worker : LivingWorker(w) =>
       /\ job[w].held \cup making(w) \subseteq made(w)
       /\ w \notin failed => made(w) = job[w].held \cup making(w)
  /\ \A w \in Worker : job[w].pc \in {"idle", "waits"} => job[w].held = {}
=============================================================================
