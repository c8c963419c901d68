------------------------------ MODULE StateDir ------------------------------
(***************************************************************************)
(* The state directory of a hub: its lock, its journal, its sealed secrets *)
(* and its copies, under the commands of bin/cfp.js, each a process that   *)
(* may die between any two of its steps.                                   *)
(*                                                                         *)
(* Sources: acquireLock and atomic of lib/common.js, lib/backup.js,        *)
(* lib/custody.js, and the commands start, enroll, revoke, recover-lock,   *)
(* archive-journal, backup and restore of bin/cfp.js.                      *)
(*                                                                         *)
(* Only a hub takes the lock.  Every command looks first and acts later,   *)
(* on what may have changed meanwhile.  It then acts all the same; crossed *)
(* records what was crossed in this way, and no action depends on it.      *)
(***************************************************************************)
EXTENDS Journal, Integers, FiniteSets

CONSTANTS Keys,     \* master keys the operators may give
          Secrets,  \* how many secret files init makes
          MaxPid,   \* bound: processes started
          MaxAlive  \* bound: of them at one time

ASSUME SecretsAssumption == Secrets \in Nat \ {0} /\ "plain" \notin Keys /\ "none" \notin Keys

NoKey == "none"     \* no CFP_MASTER_KEY
Plain == "plain"

VARIABLES
    dir,        \* the state directory is there
    lock,       \* hub.lock: who made it, and whether its pid is in it
    secrets,    \* what each secret file is sealed with, in the order of readdir:
                \* agents.json first, the files of enrolled agents last
    procs,      \* the commands given, by pid
    aside,      \* journals of directories moved aside, and archived ones
    saved,      \* the copies made by backup, by its pid
    remade,     \* a file was written where restore had moved the directory, or the
                \* file, away: atomic makes both anew, and the model stops
    crossed     \* ghost: "lock", "secret", "journal": what a command has changed
                \* though it was no longer what it had looked at

stateVars == <<dir, lock, secrets, procs, aside, saved, remade, crossed>>
allVars == <<stateVars, journalVars>>

NoLock == [by |-> 0, stamped |-> FALSE]
Alive(pid) == pid \in DOMAIN procs /\ procs[pid].pc # "ended"
Holding(pid) == procs[pid].pc \in {"stamp", "open", "serve", "reseal"}

\* Process pid goes on to pc; nothing is kept of one that has ended.
NoCopy == [file |-> <<>>, returned |-> <<>>, secrets |-> <<>>]
Process(cmd, key, pc) ==
    [cmd |-> cmd, key |-> key, pc |-> pc, seen |-> 0, at |-> 1, copy |-> NoCopy]
Exited == Process("", NoKey, "ended")
Becomes(pid, p) == procs' = [procs EXCEPT ![pid] = p]
Goes(pid, pc) == Becomes(pid, IF pc = "ended" THEN Exited ELSE [procs[pid] EXCEPT !.pc = pc])
At(pid, cmd, pc) == procs[pid].cmd = cmd /\ procs[pid].pc = pc /\ ~remade

Crosses(what, yes) == crossed' = IF yes THEN crossed \cup what ELSE crossed
-----------------------------------------------------------------------------
Commands == {"start", "enroll", "revoke", "recover-lock", "archive-journal", "backup", "restore"}
WithKey == {"start", "enroll", "revoke"}

\* loadMasterKey: the key is one of the environment or of a file, or there is none.
Run(cmd, key) ==
    /\ ~remade /\ Len(procs) < MaxPid
    /\ Cardinality({pid \in DOMAIN procs : Alive(pid)}) < MaxAlive
    /\ procs' = Append(procs, Process(cmd, key, CASE cmd = "start" -> "custody"
                                                  [] cmd \in {"enroll", "revoke"} -> "read"
                                                  [] OTHER -> "look"))
    /\ UNCHANGED <<dir, lock, secrets, aside, saved, remade, crossed, journalVars>>

\* Mutant: what is sealed already is not looked into.
OpensAny(secret, key) == TRUE

\* decryptJson: what is sealed opens with the key it was sealed with, and no other.
Opens(secret, key) == secret = Plain \/ secret = key

\* writeSecret seals what it writes, if there is a key; a secret read as plain text
\* is sealed on the way, in a second step.
WrittenWith(key) == IF key = NoKey THEN Plain ELSE key
Unsealed(pid) == secrets[procs[pid].at] = Plain /\ procs[pid].key # NoKey

\* atomic: a file is replaced as a whole, or not at all.
There(pid) == dir /\ procs[pid].at \in DOMAIN secrets
Replaces(i, secret) == secrets' = [secrets EXCEPT ![i] = secret]

\* enforceCustody lists the files and takes one after the other: a sealed one must
\* open with this key, a plain one is sealed if there is a key.
Listed(pid) == IF procs[pid].at = 1 THEN Len(secrets) ELSE procs[pid].seen
NextSecret(pid) ==
    Becomes(pid, IF procs[pid].at >= Listed(pid)
                 THEN Process("start", procs[pid].key, "lock")
                 ELSE [procs[pid] EXCEPT !.pc = "custody", !.seen = Listed(pid), !.at = procs[pid].at + 1])

Custody(pid) ==
    /\ At(pid, "start", "custody")
    /\ IF There(pid) /\ Opens(secrets[procs[pid].at], procs[pid].key)
       THEN IF Unsealed(pid) THEN Becomes(pid, [procs[pid] EXCEPT !.pc = "seal", !.seen = Listed(pid)])
                             ELSE NextSecret(pid)
       ELSE Goes(pid, "ended")
    /\ UNCHANGED <<dir, lock, secrets, aside, saved, remade, crossed, journalVars>>

\* readSecret of agents.json, by enroll and revoke.
ReadSecret(pid) ==
    /\ ~remade /\ procs[pid].pc = "read"
    /\ Goes(pid, CASE ~ (There(pid) /\ Opens(secrets[1], procs[pid].key)) -> "ended"
                   [] There(pid) /\ Unsealed(pid) -> "seal"
                   [] OTHER -> "write")
    /\ UNCHANGED <<dir, lock, secrets, aside, saved, remade, crossed, journalVars>>

\* A hub reads it every second for every agent: getGrants of lib/hub.js.
ReadGrants(pid) ==
    /\ At(pid, "start", "serve") /\ There(pid) /\ Unsealed(pid) /\ Goes(pid, "reseal")
    /\ UNCHANGED <<dir, lock, secrets, aside, saved, remade, crossed, journalVars>>

\* The sealed form replaces the file, whatever that is by now.
Seals(pid) ==
    /\ ~remade /\ procs[pid].pc \in {"seal", "reseal"} /\ There(pid)
    /\ Replaces(procs[pid].at, procs[pid].key)
    /\ Crosses({"secret"}, secrets[procs[pid].at] # Plain)
    /\ CASE procs[pid].pc = "reseal" -> Goes(pid, "serve")
         [] procs[pid].pc = "seal" /\ procs[pid].cmd = "start" -> NextSecret(pid)
         [] OTHER -> Goes(pid, "write")
    /\ UNCHANGED <<dir, lock, aside, saved, remade, journalVars>>

\* agents.json is written as it was read, but for the grant; enroll writes the file
\* of the new agent at last.
Changed(pid) == secrets[1] # WrittenWith(procs[pid].key)
WriteGrants(pid) ==
    /\ ~remade /\ procs[pid].pc = "write" /\ There(pid)
    /\ Replaces(1, WrittenWith(procs[pid].key)) /\ Crosses({"secret"}, Changed(pid))
    /\ Goes(pid, IF procs[pid].cmd = "enroll" THEN "config" ELSE "ended")
    /\ UNCHANGED <<dir, lock, aside, saved, remade, journalVars>>
WriteConfig(pid) ==
    /\ At(pid, "enroll", "config") /\ dir
    /\ secrets' = Append(secrets, WrittenWith(procs[pid].key)) /\ Crosses({"secret"}, Changed(pid))
    /\ Goes(pid, "ended")
    /\ UNCHANGED <<dir, lock, aside, saved, remade, journalVars>>

WritesNowhere(pid) ==
    /\ ~remade /\ procs[pid].pc \in {"seal", "reseal", "write", "config", "lock", "open"}
    /\ ~dir \/ (procs[pid].pc \in {"seal", "reseal"} /\ ~There(pid))
    /\ remade' = TRUE
    /\ UNCHANGED <<dir, lock, secrets, procs, aside, saved, crossed, journalVars>>

-----------------------------------------------------------------------------
\* acquireLock: created, then stamped.
CreateLock(pid) ==
    /\ At(pid, "start", "lock") /\ dir
    /\ IF lock = NoLock THEN lock' = [by |-> pid, stamped |-> FALSE] /\ Goes(pid, "stamp")
                        ELSE Goes(pid, "ended") /\ UNCHANGED lock
    /\ UNCHANGED <<dir, secrets, aside, saved, remade, crossed, journalVars>>

\* The pid goes into the file that was created, wherever that is by now.
StampLock(pid) ==
    /\ At(pid, "start", "stamp") /\ Goes(pid, "open")
    /\ lock' = IF lock.by = pid THEN [lock EXCEPT !.stamped = TRUE] ELSE lock
    /\ UNCHANGED <<dir, secrets, aside, saved, remade, crossed, journalVars>>
StampFails(pid) ==
    /\ At(pid, "start", "stamp") /\ Goes(pid, "ended")
    /\ lock' = NoLock /\ Crosses({"lock"}, lock.by \notin {0, pid})
    /\ UNCHANGED <<dir, secrets, aside, saved, remade, journalVars>>

\* The owner removes the lock only if it is still its own.
Released(pid) == IF lock.by = pid THEN NoLock ELSE lock

OpenJournal(pid) ==
    /\ At(pid, "start", "open") /\ dir
    /\ \/ Open(pid) /\ Goes(pid, "serve") /\ UNCHANGED lock
       \/ ~Accepted(file) /\ Goes(pid, "ended") /\ lock' = Released(pid) /\ UNCHANGED journalVars
    /\ UNCHANGED <<dir, secrets, aside, saved, remade, crossed>>

\* Without the directory an append throws before it has written.
Serve(pid) ==
    /\ At(pid, "start", "serve") /\ dir /\ \E e \in Event : AppendReturns(pid, e) \/ AppendThrows(pid, e)
    /\ UNCHANGED stateVars

StopHub(pid) ==
    /\ At(pid, "start", "serve") /\ Goes(pid, "ended") /\ lock' = Released(pid)
    /\ Forgets(pid) /\ UNCHANGED <<file, returned>>
    /\ UNCHANGED <<dir, secrets, aside, saved, remade, crossed>>

\* A process dies; what it has done stays.
Dies(pid) ==
    /\ ~remade /\ Alive(pid) /\ Goes(pid, "ended")
    /\ IF Running(pid) THEN Crash(pid) /\ (file' # file => dir /\ procs[pid].pc = "serve")
                       ELSE UNCHANGED journalVars
    /\ UNCHANGED <<dir, lock, secrets, aside, saved, remade, crossed>>

-----------------------------------------------------------------------------
(* recover-lock: the owner must be dead, and the file is removed.          *)

\* The owner is remembered.
Remembers(pid) == Becomes(pid, [procs[pid] EXCEPT !.pc = "act", !.seen = lock.by])

\* Mutant: the owner may be alive.
LooksRecoverAny(pid) ==
    /\ At(pid, "recover-lock", "look")
    /\ IF lock.stamped THEN Remembers(pid) ELSE Goes(pid, "ended")
    /\ UNCHANGED <<dir, lock, secrets, aside, saved, remade, crossed, journalVars>>

LooksRecover(pid) ==
    /\ At(pid, "recover-lock", "look")
    /\ IF lock.stamped /\ ~Alive(lock.by) THEN Remembers(pid) ELSE Goes(pid, "ended")
    /\ UNCHANGED <<dir, lock, secrets, aside, saved, remade, crossed, journalVars>>

\* Whatever lock there is by now.
Unlinks(pid) ==
    /\ At(pid, "recover-lock", "act") /\ Goes(pid, "ended")
    /\ lock' = NoLock /\ Crosses({"lock"}, lock.by \notin {0, procs[pid].seen})
    /\ UNCHANGED <<dir, secrets, aside, saved, remade, journalVars>>

-----------------------------------------------------------------------------
(* archive-journal, backup and restore: there must be no lock at all.      *)

LooksFor(pid, cmd, may) ==
    /\ At(pid, cmd, "look") /\ Goes(pid, IF lock = NoLock /\ may THEN "act" ELSE "ended")
    /\ UNCHANGED <<dir, lock, secrets, aside, saved, remade, crossed, journalVars>>
LooksToArchive(pid) == LooksFor(pid, "archive-journal", dir /\ file # <<>>)
LooksToBackup(pid) == LooksFor(pid, "backup", dir)
LooksToRestore(pid) == LooksFor(pid, "restore", DOMAIN saved # {})

\* A start is under way, or its hub.
Starting == \E pid \in DOMAIN procs : procs[pid].cmd = "start"

Archives(pid) ==
    /\ At(pid, "archive-journal", "act") /\ Goes(pid, "ended")
    /\ IF dir /\ file # <<>>
       THEN Archive /\ aside' = aside \cup {file} /\ Crosses({"journal"}, Starting)
       ELSE UNCHANGED <<journalVars, aside, crossed>>  \* it has gone meanwhile
    /\ UNCHANGED <<dir, lock, secrets, saved, remade>>

\* copyTree lists the files and copies one after the other: hub.json and the secrets,
\* and jobs.jsonl.  A copy that has hub.json is one that restore takes.
Lists(pid) ==
    /\ At(pid, "backup", "act")
    /\ IF dir THEN Becomes(pid, [procs[pid] EXCEPT !.pc = "copying", !.seen = Len(secrets)])
              ELSE Goes(pid, "ended")
    /\ UNCHANGED <<dir, lock, secrets, aside, saved, remade, crossed, journalVars>>

SoFar(pid) == IF pid \in DOMAIN saved THEN saved[pid] ELSE NoCopy
Copied(pid, copy) ==
    saved' = [p \in DOMAIN saved \cup {pid} |-> IF p = pid THEN copy ELSE saved[p]]

\* The copy is of several moments when what is copied already is not so any more.
CopiesSecret(pid) ==
    /\ At(pid, "backup", "copying") /\ procs[pid].at <= procs[pid].seen
    /\ IF There(pid)
       THEN /\ Copied(pid, [SoFar(pid) EXCEPT !.secrets = Append(SoFar(pid).secrets, secrets[procs[pid].at])])
            /\ Crosses({"secret"}, SubSeq(secrets, 1, procs[pid].at - 1) # SoFar(pid).secrets)
            /\ Becomes(pid, [procs[pid] EXCEPT !.at = procs[pid].at + 1])
       ELSE Goes(pid, "ended") /\ UNCHANGED <<saved, crossed>>
    /\ UNCHANGED <<dir, lock, secrets, aside, remade, journalVars>>
CopiesJournal(pid) ==
    /\ At(pid, "backup", "copying") /\ procs[pid].at > procs[pid].seen /\ Goes(pid, "ended")
    /\ IF dir THEN Copied(pid, [SoFar(pid) EXCEPT !.file = file, !.returned = returned])
              ELSE UNCHANGED saved
    /\ UNCHANGED <<dir, lock, secrets, aside, remade, crossed, journalVars>>

\* restoreTree: it looks for the lock again and copies a backup beside the live
\* directory; then the live directory is moved aside with all that is in it, and the
\* copy takes its place.
Stages(pid) ==
    /\ At(pid, "restore", "act")
    /\ IF lock # NoLock THEN Goes(pid, "ended")
       ELSE \E p \in DOMAIN saved : Becomes(pid, [procs[pid] EXCEPT !.pc = "staged", !.copy = saved[p]])
    /\ UNCHANGED <<dir, lock, secrets, aside, saved, remade, crossed, journalVars>>

\* Mutant: the live directory is removed.
RemovesLive(pid) ==
    /\ At(pid, "restore", "staged") /\ Goes(pid, "between")
    /\ dir' = FALSE /\ lock' = NoLock /\ file' = <<>> /\ returned' = <<>>
    /\ Crosses({"lock", "secret", "journal"}, Starting)
    /\ UNCHANGED <<secrets, aside, saved, remade, events>>

MovesAside(pid) ==
    /\ At(pid, "restore", "staged") /\ Goes(pid, "between")
    /\ dir' = FALSE /\ lock' = NoLock /\ file' = <<>> /\ returned' = <<>>
    /\ aside' = IF dir THEN aside \cup {file} ELSE aside
    /\ Crosses({"lock", "secret", "journal"}, Starting)
    /\ UNCHANGED <<secrets, saved, remade, events>>
MovesIn(pid) ==
    /\ At(pid, "restore", "between") /\ Goes(pid, "ended")
    /\ IF dir THEN UNCHANGED <<dir, secrets, file, returned>>  \* another restore was faster
       ELSE /\ dir' = TRUE /\ secrets' = procs[pid].copy.secrets
            /\ file' = procs[pid].copy.file /\ returned' = procs[pid].copy.returned
    /\ Crosses({"lock", "secret", "journal"}, Starting)
    /\ UNCHANGED <<lock, aside, saved, remade, events>>

-----------------------------------------------------------------------------
\* What init leaves: the secrets plain, or sealed with the key it was given.
StateInit ==
    /\ JournalInit
    /\ dir = TRUE /\ lock = NoLock
    /\ \E key \in Keys \cup {NoKey} : secrets = [i \in 1..Secrets |-> WrittenWith(key)]
    /\ procs = <<>> /\ aside = {} /\ saved = [p \in {} |-> NoCopy] /\ remade = FALSE /\ crossed = {}

StateNext ==
    \/ \E cmd \in Commands, key \in Keys \cup {NoKey} :
           (cmd \notin WithKey => key = NoKey) /\ Run(cmd, key)
    \/ \E pid \in DOMAIN procs :
          \/ Custody(pid) \/ ReadSecret(pid) \/ ReadGrants(pid) \/ Seals(pid)
          \/ WriteGrants(pid) \/ WriteConfig(pid) \/ WritesNowhere(pid)
          \/ CreateLock(pid) \/ StampLock(pid) \/ StampFails(pid)
          \/ OpenJournal(pid) \/ Serve(pid) \/ StopHub(pid)
          \/ LooksRecover(pid) \/ Unlinks(pid)
          \/ LooksToArchive(pid) \/ LooksToBackup(pid) \/ LooksToRestore(pid)
          \/ Archives(pid) \/ Lists(pid) \/ CopiesSecret(pid) \/ CopiesJournal(pid)
          \/ Stages(pid) \/ MovesAside(pid) \/ MovesIn(pid)
          \/ Dies(pid)

StateSpec == StateInit /\ [][StateNext]_allVars
-----------------------------------------------------------------------------
(* Properties.                                                             *)

\* One hub at a time has the directory, and the lock it made stays its own, through
\* deaths between any two steps and any number of recover-lock, until a command has
\* taken a lock away that it had not looked at: recover-lock removes whatever lock
\* there is by then (cfp.js:169-170), and restore moves it away with the directory.
HubIsAlone ==
    "lock" \notin crossed => \A pid \in DOMAIN procs : Holding(pid) =>
        /\ \A q \in DOMAIN procs : Holding(q) => q = pid
        /\ lock = [by |-> pid, stamped |-> procs[pid].pc # "stamp"]

\* A hub that works on the directory.
Owns(pid) == procs[pid].pc \in {"serve", "reseal"}

\* "Exclusive process ownership" (DEPLOYMENT.md:33): no two hubs serve one directory.
OwnershipIsExclusive ==
    \A pid, q \in DOMAIN procs : Owns(pid) /\ Owns(q) => q = pid

\* One key opens all the secrets there are, however many commands were given another
\* key or died half way through the migration; the copies are no exception.  So it is
\* until a command has replaced a secret that had been replaced since it was read, or
\* copied secrets of different moments.
OneKey(s) == \A i, j \in DOMAIN s : s[i] = Plain \/ s[j] = Plain \/ s[i] = s[j]
SecretsOpen ==
    "secret" \notin crossed => OneKey(secrets) /\ \A p \in DOMAIN saved : OneKey(saved[p].secrets)

\* A start never invents or reorders history, also after commands have moved the
\* journal away, copied it or brought it back, and when two hubs write to one journal:
\* ReplayIsHistory of module Journal.  Only a journal exchanged under a hub, by
\* archive-journal or restore, may take up what another was told.
HistoryIsKept == "journal" \notin crossed /\ dir => ReplayIsHistory

\* No command, nor its death, destroys a journal, whatever else runs: each one there
\* is, live or set aside, is there afterwards, possibly with more lines.
Continues(f, g) == Len(f) <= Len(g) /\ \A i \in DOMAIN f : g[i].event = f[i].event
Journals == {file} \cup aside
JournalsSurvive == [][\A f \in Journals : \E g \in Journals' : Continues(f, g)]_allVars
=============================================================================
