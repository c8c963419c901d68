-------------------------------- MODULE MCHost --------------------------------
(***************************************************************************)
(* What processes keep on disk and find there when they start again: the   *)
(* receipts of an agent, the slots of the fabric commands and the state    *)
(* directory of the hub, small.  They share nothing, and each is checked   *)
(* for itself (focus).                                                     *)
(*                                                                         *)
(* "receipts": one agent, three jobs, a store of two entries, so that it   *)
(* fills up, refuses and prunes, and one job that the hub may send under   *)
(* two leases.  "slots": one worker at most is interrupted, or meets an    *)
(* error when it takes a slot.                                             *)
(*                                                                         *)
(* The lock, the secrets and the journal of the directory meet only in     *)
(* that a start refused for the one does not come to the other.  "locks"   *)
(* has hubs and recover-lock alone, five processes; "keys" has every key   *)
(* and command and a hub that appends nothing; "journal" has no keys, and  *)
(* so nothing that changes a secret.  In the last two a fourth process     *)
(* runs when the others have ended.                                        *)
(***************************************************************************)
EXTENDS AgentAlone, Slots, StateDir, TLC

VARIABLE focus

hostVars == <<focus, aloneVars, slotVars, allVars>>

MCSentLease == [j \in Job |-> IF j = 1 THEN {1, 2} ELSE {1}]

\* One worker at most is in trouble, and it does not matter which.
OneTrouble ==
  LET first == CHOOSE w \in Worker : TRUE IN
  /\ \A w \in Worker : job[w].aborted => w = first
  /\ failed \subseteq {first} /\ (job[first].aborted => failed = {})

Living == Cardinality({pid \in DOMAIN procs : Alive(pid)})
Keyless == \A pid \in DOMAIN procs : procs[pid].key = NoKey /\ procs[pid].cmd \notin {"enroll", "revoke"}
FourAtMost == Len(procs) <= 4 /\ Living <= IF Len(procs) = 4 THEN 1 ELSE 2
LocksOnly == \A pid \in DOMAIN procs : procs[pid].cmd \in {"start", "recover-lock", ""}

HostInit ==
  /\ focus \in {"receipts", "slots", "locks", "keys", "journal"}
  /\ AloneInit /\ SlotsInit /\ StateInit
  /\ focus # "keys" => secrets[1] = Plain

HostNext ==
  /\ UNCHANGED focus
  /\ \/ focus = "receipts" /\ AloneNext /\ UNCHANGED <<slotVars, allVars>>
     \/ focus = "slots" /\ SlotsNext /\ OneTrouble' /\ UNCHANGED <<aloneVars, allVars>>
     \/ /\ StateNext /\ UNCHANGED <<aloneVars, slotVars>>
        /\ \/ focus = "locks" /\ (Keyless /\ LocksOnly)'
           \/ focus = "keys" /\ FourAtMost' /\ file' = file
           \/ focus = "journal" /\ (Keyless /\ FourAtMost)'

HostSpec == HostInit /\ [][HostNext]_hostVars

\* Hubs and recover-lock alone, to see what they come to.
LocksSpec == HostInit /\ focus = "locks" /\ [][HostNext]_hostVars

MCSymmetry == Permutations(Event)
===============================================================================
