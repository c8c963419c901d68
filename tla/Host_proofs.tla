----------------------------- MODULE Host_proofs -----------------------------
(***************************************************************************)
(* Theorems about the two places where processes of the host share files.  *)
(*                                                                         *)
(* The state directory (module StateDir), for any number of commands, keys *)
(* and secrets and any length of the journal: one hub, one key, a journal  *)
(* that is what was returned, and none that is destroyed.                  *)
(*                                                                         *)
(* The slots of the fabric commands (module Slots), for any number of      *)
(* workers and of slots: no more children at once than the cap.            *)
(***************************************************************************)
EXTENDS StateDir, Slots, SequenceTheorems, FiniteSetTheorems, TLAPS

-----------------------------------------------------------------------------
(* Types *)

Steps == {"custody", "seal", "reseal", "lock", "stamp", "open", "serve", "read", "write", "config",
          "look", "act", "copying", "staged", "between", "ended"}
Secret == Keys \cup {Plain}
Copy == [file : Seq(Line), returned : Seq(Event), secrets : Seq(Secret)]
Proc == [cmd : Commands \cup {""}, key : Keys \cup {NoKey}, pc : Steps, seen : Nat, at : Nat \ {0},
         copy : Copy]

ProcsOK ==
  /\ procs \in Seq(Proc)
  /\ \A pid \in DOMAIN procs : procs[pid].pc \in {"seal", "reseal"} => procs[pid].key # NoKey
LockOK ==
  /\ lock = [by |-> lock.by, stamped |-> lock.stamped]
  /\ lock.by \in {0} \cup DOMAIN procs /\ lock.stamped \in BOOLEAN
  /\ lock.by = 0 => ~ lock.stamped
SecretsOK == secrets \in Seq(Secret) /\ \A p \in DOMAIN saved : saved[p] \in Copy
JournalsOK ==
  /\ file \in Seq(Line) /\ returned \in Seq(Event) /\ aside \in SUBSET Seq(Line)
  /\ \A h \in DOMAIN events : events[h] \in Seq(Event)

DirTypeOK == dir \in BOOLEAN /\ ProcsOK /\ LockOK /\ SecretsOK /\ JournalsOK

Ends(pid) == procs[pid].pc = "ended"

\* What a process does next.
PidNext(pid) ==
  \/ Custody(pid) \/ ReadSecret(pid) \/ ReadGrants(pid) \/ Seals(pid)
  \/ WriteGrants(pid) \/ WriteConfig(pid) \/ WritesNowhere(pid)
  \/ CreateLock(pid) \/ StampLock(pid) \/ StampFails(pid)
  \/ OpenJournal(pid) \/ Serve(pid) \/ StopHub(pid)
  \/ LooksRecover(pid) \/ Unlinks(pid)
  \/ LooksToArchive(pid) \/ LooksToBackup(pid) \/ LooksToRestore(pid)
  \/ Archives(pid) \/ Lists(pid) \/ CopiesSecret(pid) \/ CopiesJournal(pid)
  \/ Stages(pid) \/ MovesAside(pid) \/ MovesIn(pid)
  \/ Dies(pid)

\* No key is the mark of plain text or of no key.
LEMMA Constants == Secrets \in Nat \ {0} /\ Plain \notin Keys /\ NoKey \notin Keys /\ Plain # NoKey
BY SecretsAssumption DEF Plain, NoKey

\* A copy that has nothing in it yet.
LEMMA NoCopyLemma == NoCopy \in Copy
BY DEF NoCopy, Copy

\* A process that begins.
LEMMA ProcessLemma ==
  ASSUME NEW cmd \in Commands, NEW key \in Keys \cup {NoKey}, NEW pc \in Steps
  PROVE  /\ Process(cmd, key, pc) \in Proc
         /\ Process(cmd, key, pc).pc = pc /\ Process(cmd, key, pc).cmd = cmd
         /\ Process(cmd, key, pc).at = 1 /\ Process(cmd, key, pc).key = key
<1>1. 0 \in Nat /\ 1 \in Nat \ {0} /\ NoCopy \in Copy
  BY NoCopyLemma
<1> QED BY <1>1 DEF Proc, Process

\* One that has ended.
LEMMA ExitedLemma == Exited \in Proc /\ Exited.pc = "ended" /\ Exited.cmd = "" /\ Exited.at = 1
BY NoCopyLemma DEF Proc, Process, Exited, Steps

\* A process of the sequence goes on: the others are what they were.
LEMMA OneGoes ==
  ASSUME procs \in Seq(Proc), NEW pid \in DOMAIN procs, NEW p \in Proc,
         procs' = [procs EXCEPT ![pid] = p]
  PROVE  /\ procs' \in Seq(Proc) /\ DOMAIN procs' = DOMAIN procs
         /\ procs'[pid] = p /\ \A q \in DOMAIN procs \ {pid} : procs'[q] = procs[q]
OBVIOUS

\* What a process is.
LEMMA ProcLemma ==
  ASSUME ProcsOK, NEW pid \in DOMAIN procs
  PROVE  /\ procs[pid] \in Proc /\ procs[pid].key \in Keys \cup {NoKey}
         /\ procs[pid].pc \in {"seal", "reseal"} => procs[pid].key \in Keys
         /\ procs[pid].at \in Nat \ {0} /\ procs[pid].seen \in Nat /\ procs[pid].copy \in Copy
<1>1. procs[pid] \in Proc
  BY DEF ProcsOK
<1> QED BY <1>1 DEF ProcsOK, Proc

\* Goes, for what it makes of a process.
LEMMA GoesLemma ==
  ASSUME ProcsOK, NEW pid \in DOMAIN procs, NEW pc \in Steps, Goes(pid, pc)
  PROVE  \E p \in Proc :
           /\ procs' = [procs EXCEPT ![pid] = p] /\ p.pc = pc
           /\ pc # "ended" => /\ p.cmd = procs[pid].cmd /\ p.key = procs[pid].key
                              /\ p.at = procs[pid].at /\ p.seen = procs[pid].seen
                              /\ p.copy = procs[pid].copy
           /\ pc = "ended" => p.at = 1 /\ p.cmd = ""
<1>1. procs[pid] \in Proc
  BY DEF ProcsOK
<1>2. CASE pc = "ended"
  BY <1>2, ExitedLemma DEF Goes, Becomes
<1>3. CASE pc # "ended"
  <2> DEFINE p == [procs[pid] EXCEPT !.pc = pc]
  <2>1. p \in Proc /\ p.pc = pc /\ p.cmd = procs[pid].cmd /\ p.key = procs[pid].key
        /\ p.at = procs[pid].at /\ p.seen = procs[pid].seen /\ p.copy = procs[pid].copy
    BY <1>1 DEF Proc
  <2>2. procs' = [procs EXCEPT ![pid] = p]
    BY <1>3 DEF Goes, Becomes
  <2> HIDE DEF p
  <2> QED BY <1>3, <2>1, <2>2
<1> QED BY <1>2, <1>3

\* The same, said of the process as it is afterwards.
LEMMA GoesTo ==
  ASSUME ProcsOK, NEW pid \in DOMAIN procs, NEW pc \in Steps, Goes(pid, pc)
  PROVE  /\ procs'[pid] \in Proc /\ procs' = [procs EXCEPT ![pid] = procs'[pid]]
         /\ procs'[pid].pc = pc
         /\ pc # "ended" => procs'[pid].cmd = procs[pid].cmd /\ procs'[pid].key = procs[pid].key
                            /\ procs'[pid].at = procs[pid].at /\ procs'[pid].copy = procs[pid].copy
         /\ pc = "ended" => procs'[pid].at = 1 /\ procs'[pid].cmd = ""
<1>1. PICK p \in Proc :
           /\ procs' = [procs EXCEPT ![pid] = p] /\ p.pc = pc
           /\ pc # "ended" => /\ p.cmd = procs[pid].cmd /\ p.key = procs[pid].key
                              /\ p.at = procs[pid].at /\ p.seen = procs[pid].seen
                              /\ p.copy = procs[pid].copy
           /\ pc = "ended" => p.at = 1 /\ p.cmd = ""
  BY GoesLemma
<1>2. procs'[pid] = p
  BY <1>1, OneGoes DEF ProcsOK
<1> QED BY <1>1, <1>2

LEMMA StepNames == {"ended", "between", "write", "seal", "reseal", "config", "serve"} \subseteq Steps
BY DEF Steps

\* The same, of the process that goes there.
LEMMA GoesAway ==
  ASSUME ProcsOK, NEW pid \in DOMAIN procs, NEW pc \in Steps, Goes(pid, pc)
  PROVE  \E p \in Proc : procs' = [procs EXCEPT ![pid] = p] /\ p.pc = pc
BY GoesTo


\* The custody of the secrets goes on to the next, or to the lock.
LEMMA NextLemma ==
  ASSUME DirTypeOK, NEW pid \in DOMAIN procs, NextSecret(pid), procs[pid].cmd = "start"
  PROVE  \E p \in Proc :
           /\ procs' = [procs EXCEPT ![pid] = p] /\ p.pc \in {"custody", "lock"}
           /\ p.cmd = "start" /\ p.key = procs[pid].key /\ (p.pc = "lock" => p.at = 1)
<1>1. procs[pid] \in Proc /\ procs[pid].key \in Keys \cup {NoKey} /\ procs[pid].at \in Nat
      /\ procs[pid].seen \in Nat
  BY ProcLemma DEF DirTypeOK
<1>2. CASE procs' = [procs EXCEPT ![pid] = Process("start", procs[pid].key, "lock")]
  <2> DEFINE p == Process("start", procs[pid].key, "lock")
  <2>1. p \in Proc /\ p.pc = "lock" /\ p.cmd = "start" /\ p.key = procs[pid].key /\ p.at = 1
    <3>1. "lock" \in Steps /\ "start" \in Commands
      BY DEF Commands, Steps
    <3> QED BY <1>1, <3>1, ProcessLemma
  <2> HIDE DEF p
  <2>2. procs' = [procs EXCEPT ![pid] = p]
    BY <1>2 DEF p
  <2> QED BY <2>1, <2>2
<1>3. CASE procs' = [procs EXCEPT ![pid] =
                       [procs[pid] EXCEPT !.pc = "custody", !.seen = Listed(pid), !.at = procs[pid].at + 1]]
  <2> DEFINE n == Listed(pid)  a == procs[pid].at + 1
             p == [procs[pid] EXCEPT !.pc = "custody", !.seen = n, !.at = a]
  <2>1. n \in Nat /\ a \in Nat \ {0}
    BY <1>1 DEF Listed, DirTypeOK, SecretsOK
  <2>2. procs' = [procs EXCEPT ![pid] = p]
    BY <1>3
  <2> HIDE DEF n, a
  <2>3. p \in Proc /\ p.pc = "custody" /\ p.cmd = procs[pid].cmd /\ p.key = procs[pid].key
    BY <1>1, <2>1 DEF Proc, Steps
  <2> HIDE DEF p
  <2> QED BY <2>2, <2>3
<1> QED BY <1>2, <1>3 DEF NextSecret, Becomes

\* What any step makes of the process that takes it.
Succeeds(o, p) ==
  /\ o.pc # "ended"
  /\ p.pc # "ended" => p.cmd = o.cmd /\ p.key = o.key
  /\ p.pc \in {"seal", "reseal"} => p.key # NoKey

LEMMA StepsOn ==
  ASSUME DirTypeOK, NEW pid \in DOMAIN procs, PidNext(pid)
  PROVE  \E p \in Proc : procs' = [procs EXCEPT ![pid] = p] /\ Succeeds(procs[pid], p)
<1>1. /\ procs[pid] \in Proc /\ procs[pid].key \in Keys \cup {NoKey} /\ procs[pid].at \in Nat
      /\ procs[pid].pc \in {"seal", "reseal"} => procs[pid].key \in Keys
      /\ ProcsOK /\ procs \in Seq(Proc)
  BY ProcLemma DEF DirTypeOK, ProcsOK
<1>2. procs[pid].pc # "ended"
  BY DEF PidNext, Custody, ReadSecret, ReadGrants, Seals, WriteGrants, WriteConfig, WritesNowhere,
         CreateLock, StampLock, StampFails, OpenJournal, Serve, StopHub, LooksRecover, Unlinks,
         LooksToArchive, LooksToBackup, LooksToRestore, LooksFor, Archives, Lists, CopiesSecret,
         CopiesJournal, Stages, MovesAside, MovesIn, Dies, Alive, At
<1>3. CASE UNCHANGED procs
  <2>1. procs' = [procs EXCEPT ![pid] = procs[pid]]
    BY <1>1, <1>3
  <2> QED BY <1>1, <1>2, <2>1, Constants DEF Succeeds
<1>4. ASSUME NEW pc \in Steps, Goes(pid, pc), pc \in {"seal", "reseal"} => procs[pid].key # NoKey
      PROVE  \E p \in Proc : procs' = [procs EXCEPT ![pid] = p] /\ Succeeds(procs[pid], p)
  <2>1. PICK p \in Proc :
           /\ procs' = [procs EXCEPT ![pid] = p] /\ p.pc = pc
           /\ pc # "ended" => /\ p.cmd = procs[pid].cmd /\ p.key = procs[pid].key
                              /\ p.at = procs[pid].at /\ p.seen = procs[pid].seen
                              /\ p.copy = procs[pid].copy
           /\ pc = "ended" => p.at = 1 /\ p.cmd = ""
    BY <1>1, <1>4, GoesLemma
  <2> QED BY <1>2, <1>4, <2>1 DEF Succeeds
<1>5. CASE Custody(pid) \/ (Seals(pid) /\ NextSecret(pid) /\ procs[pid].cmd = "start")
  <2>1. CASE NextSecret(pid) /\ procs[pid].cmd = "start"
    <3>1. PICK p \in Proc :
           /\ procs' = [procs EXCEPT ![pid] = p] /\ p.pc \in {"custody", "lock"}
           /\ p.cmd = "start" /\ p.key = procs[pid].key
      BY <2>1, NextLemma
    <3> QED BY <1>2, <2>1, <3>1 DEF Succeeds
  <2>2. CASE Custody(pid) /\ Becomes(pid, [procs[pid] EXCEPT !.pc = "seal", !.seen = Listed(pid)]) /\ Unsealed(pid)
    <3> DEFINE n == Listed(pid)
               p == [procs[pid] EXCEPT !.pc = "seal", !.seen = n]
    <3>1. n \in Nat
      BY <1>1, ProcLemma DEF Listed, DirTypeOK, SecretsOK
    <3>2. procs' = [procs EXCEPT ![pid] = p]
      BY <2>2 DEF Becomes
    <3> HIDE DEF n
    <3>3. p \in Proc /\ p.pc = "seal" /\ p.cmd = procs[pid].cmd /\ p.key = procs[pid].key
      BY <1>1, <3>1 DEF Proc, Steps
    <3>4. procs[pid].key # NoKey
      BY <2>2 DEF Unsealed
    <3> HIDE DEF p
    <3> QED BY <1>2, <3>2, <3>3, <3>4 DEF Succeeds
  <2>3. CASE Custody(pid) /\ Goes(pid, "ended")
    BY <1>4, <2>3 DEF Steps
  <2> QED BY <1>5, <2>1, <2>2, <2>3 DEF Custody, At
<1>6. CASE LooksRecover(pid) /\ Remembers(pid)
  <2> DEFINE n == lock.by  p == [procs[pid] EXCEPT !.pc = "act", !.seen = n]
  <2>1. n \in Nat
    BY <1>1 DEF DirTypeOK, LockOK
  <2>2. procs' = [procs EXCEPT ![pid] = p]
    BY <1>6 DEF Remembers, Becomes
  <2> HIDE DEF n
  <2>3. p \in Proc /\ p.pc = "act" /\ p.cmd = procs[pid].cmd /\ p.key = procs[pid].key
    BY <1>1, <2>1 DEF Proc, Steps
  <2> HIDE DEF p
  <2> QED BY <1>2, <2>2, <2>3 DEF Succeeds
<1>7. CASE Lists(pid) /\ Becomes(pid, [procs[pid] EXCEPT !.pc = "copying", !.seen = Len(secrets)])
  <2> DEFINE n == Len(secrets)  p == [procs[pid] EXCEPT !.pc = "copying", !.seen = n]
  <2>1. n \in Nat
    BY DEF DirTypeOK, SecretsOK
  <2>2. procs' = [procs EXCEPT ![pid] = p]
    BY <1>7 DEF Becomes
  <2> HIDE DEF n
  <2>3. p \in Proc /\ p.pc = "copying" /\ p.cmd = procs[pid].cmd /\ p.key = procs[pid].key
    BY <1>1, <2>1 DEF Proc, Steps
  <2> HIDE DEF p
  <2> QED BY <1>2, <2>2, <2>3 DEF Succeeds
<1>8. CASE CopiesSecret(pid) /\ Becomes(pid, [procs[pid] EXCEPT !.at = procs[pid].at + 1])
  <2> DEFINE a == procs[pid].at + 1  p == [procs[pid] EXCEPT !.at = a]
  <2>1. a \in Nat \ {0} /\ procs[pid].pc = "copying"
    BY <1>1, <1>8 DEF CopiesSecret, At
  <2>2. procs' = [procs EXCEPT ![pid] = p]
    BY <1>8 DEF Becomes
  <2> HIDE DEF a
  <2>3. p \in Proc /\ p.pc = "copying" /\ p.cmd = procs[pid].cmd /\ p.key = procs[pid].key
    BY <1>1, <2>1 DEF Proc, Steps
  <2> HIDE DEF p
  <2> QED BY <1>2, <2>2, <2>3 DEF Succeeds
<1>9. CASE \E k \in DOMAIN saved : Becomes(pid, [procs[pid] EXCEPT !.pc = "staged", !.copy = saved[k]])
  <2>1. PICK k \in DOMAIN saved : Becomes(pid, [procs[pid] EXCEPT !.pc = "staged", !.copy = saved[k]])
    BY <1>9
  <2> DEFINE c == saved[k]  p == [procs[pid] EXCEPT !.pc = "staged", !.copy = c]
  <2>2. c \in Copy
    BY <2>1 DEF DirTypeOK, SecretsOK
  <2>3. procs' = [procs EXCEPT ![pid] = p]
    BY <2>1 DEF Becomes
  <2> HIDE DEF c
  <2>4. p \in Proc /\ p.pc = "staged" /\ p.cmd = procs[pid].cmd /\ p.key = procs[pid].key
    BY <1>1, <2>2 DEF Proc, Steps
  <2> HIDE DEF p
  <2> QED BY <1>2, <2>3, <2>4 DEF Succeeds
<1>10. CASE ReadSecret(pid) \/ ReadGrants(pid)
  <2>1. PICK pc \in {"ended", "seal", "reseal", "write"} :
          Goes(pid, pc) /\ (pc \in {"seal", "reseal"} => procs[pid].key # NoKey)
    BY <1>10 DEF ReadSecret, ReadGrants, Unsealed
  <2> QED BY <1>4, <2>1 DEF Steps
<1>11. CASE \E pc \in Steps \ {"seal", "reseal"} : Goes(pid, pc)
  BY <1>4, <1>11
<1>12. CASE PidNext(pid) /\ ~ (Custody(pid) \/ ReadSecret(pid) \/ ReadGrants(pid))
  <2>1. \/ UNCHANGED procs
        \/ \E pc \in Steps \ {"seal", "reseal"} : Goes(pid, pc)
        \/ Seals(pid) /\ NextSecret(pid) /\ procs[pid].cmd = "start"
        \/ LooksRecover(pid) /\ Remembers(pid)
        \/ Lists(pid) /\ Becomes(pid, [procs[pid] EXCEPT !.pc = "copying", !.seen = Len(secrets)])
        \/ CopiesSecret(pid) /\ Becomes(pid, [procs[pid] EXCEPT !.at = procs[pid].at + 1])
        \/ \E k \in DOMAIN saved : Becomes(pid, [procs[pid] EXCEPT !.pc = "staged", !.copy = saved[k]])
    <3>1. CASE \/ WriteGrants(pid) \/ WriteConfig(pid) \/ WritesNowhere(pid)
               \/ CreateLock(pid) \/ StampLock(pid) \/ StampFails(pid)
      BY <3>1 DEF WriteGrants, WriteConfig, WritesNowhere, CreateLock, StampLock, StampFails, Steps
    <3>2. CASE OpenJournal(pid) \/ Serve(pid) \/ StopHub(pid) \/ Unlinks(pid) \/ Archives(pid)
      BY <3>2 DEF OpenJournal, Serve, StopHub, Unlinks, Archives, Steps, stateVars
    <3>3. CASE \/ LooksToArchive(pid) \/ LooksToBackup(pid) \/ LooksToRestore(pid)
               \/ CopiesJournal(pid) \/ MovesAside(pid) \/ MovesIn(pid) \/ Dies(pid)
      BY <3>3 DEF LooksToArchive, LooksToBackup, LooksToRestore, LooksFor, CopiesJournal,
                  MovesAside, MovesIn, Dies, Steps
    <3>4. CASE LooksRecover(pid) \/ Lists(pid) \/ CopiesSecret(pid) \/ Stages(pid) \/ Seals(pid)
      BY <3>4 DEF LooksRecover, Lists, CopiesSecret, Stages, Seals, At, Steps
    <3> QED BY <1>12, <3>1, <3>2, <3>3, <3>4 DEF PidNext
  <2> QED BY <1>3, <1>5, <1>6, <1>7, <1>8, <1>9, <1>11, <2>1
<1> QED BY <1>5, <1>10, <1>12

-----------------------------------------------------------------------------
(* The journal's lines *)

\* What a file tells: one event for each line.
LEMMA ReplayType ==
  ASSUME NEW f \in Seq(Line)
  PROVE  Replay(f) \in Seq(Event) /\ Len(Replay(f)) = Len(f)
         /\ \A i \in 1..Len(f) : Replay(f)[i] = f[i].event
<1>1. Len(f) \in Nat /\ \A i \in 1..Len(f) : f[i] \in Line
  OBVIOUS
<1>2. \A l \in Line : l.event \in Event
  BY DEF Line
<1>3. \A i \in 1..Len(f) : f[i].event \in Event
  BY <1>1, <1>2
<1> QED BY <1>1, <1>3 DEF Replay

\* A journal continues itself.
LEMMA ContinuesSame == ASSUME NEW f \in Seq(Line) PROVE Continues(f, f)
BY DEF Continues

\* A line behind one without newline is not a line of its own.
LEMMA BehindTorn ==
  ASSUME NEW f \in Seq(Line), NEW line \in Line, f # <<>>, f[Len(f)].kind = "torn"
  PROVE  /\ Written(f, line) \in Seq(Line) /\ Continues(f, Written(f, line))
         /\ ~ Accepted(Written(f, line))
<1> DEFINE kind == IF line.kind = "torn" THEN "torn" ELSE "garbage"
           l == [f[Len(f)] EXCEPT !.kind = kind]
           g == [f EXCEPT ![Len(f)] = l]
<1>1. Len(f) \in Nat \ {0} /\ f[Len(f)] \in Line
  OBVIOUS
<1>2. l \in Line /\ l.kind # "whole" /\ l.event = f[Len(f)].event
  BY <1>1 DEF Line
<1>3. Written(f, line) = g
  BY DEF Written
<1> HIDE DEF l
<1>4. g \in Seq(Line) /\ Len(g) = Len(f) /\ g[Len(f)] = l
      /\ \A i \in 1..Len(f) : i # Len(f) => g[i] = f[i]
  BY <1>1, <1>2
<1> HIDE DEF g
<1>5. ~ Accepted(g)
  BY <1>1, <1>2, <1>4 DEF Accepted
<1>6. Continues(f, g)
  BY <1>1, <1>2, <1>4 DEF Continues
<1> QED BY <1>3, <1>4, <1>5, <1>6

\* Else it is; it is accepted only if the others were, and its writer knew of them all.
LEMMA BehindWhole ==
  ASSUME NEW f \in Seq(Line), NEW line \in Line, ~ (f # <<>> /\ f[Len(f)].kind = "torn")
  PROVE  /\ Written(f, line) \in Seq(Line) /\ Continues(f, Written(f, line))
         /\ Accepted(Written(f, line)) =>
              /\ Accepted(f) /\ Replay(f) = line.prev
              /\ Len(Written(f, line)) = Len(f) + 1
              /\ Replay(Written(f, line)) = Append(line.prev, line.event)
<1> DEFINE g == Append(f, line)  n == Len(f)
<1>1. Written(f, line) = g /\ n \in Nat
  BY DEF Written
<1>2. /\ g \in Seq(Line) /\ Len(g) = n + 1 /\ g[n + 1] = line
      /\ \A i \in 1..n : g[i] = f[i]
  BY <1>1
<1>3. Continues(f, g)
  BY <1>1, <1>2 DEF Continues
<1> HIDE DEF g
<1>4. ASSUME NEW m \in 0..n PROVE SubSeq(g, 1, m) = SubSeq(f, 1, m)
  <2>1. m \in Nat /\ m <= n /\ m <= n + 1 /\ m <= Len(f) /\ m <= Len(g)
    BY <1>1, <1>2
  <2>2. /\ SubSeq(g, 1, m) \in Seq(Line) /\ Len(SubSeq(g, 1, m)) = m
        /\ \A i \in 1..m : SubSeq(g, 1, m)[i] = g[i]
    BY <1>2, <2>1
  <2>3. /\ SubSeq(f, 1, m) \in Seq(Line) /\ Len(SubSeq(f, 1, m)) = m
        /\ \A i \in 1..m : SubSeq(f, 1, m)[i] = f[i]
    BY <2>1
  <2>4. \A i \in 1..m : i \in 1..n
    BY <1>1, <2>1
  <2>5. \A i \in 1..m : SubSeq(g, 1, m)[i] = SubSeq(f, 1, m)[i]
    BY <1>2, <2>2, <2>3, <2>4
  <2> QED BY <2>2, <2>3, <2>5, SeqEqual
<1>5. SubSeq(f, 1, n) = f
  OBVIOUS
<1>6. ASSUME Accepted(g) PROVE Replay(f) = line.prev
  <2>1. n + 1 \in 1..Len(g) /\ (n + 1) - 1 = n /\ n \in 0..n
    BY <1>1, <1>2
  <2>2. Chained(g, n + 1)
    BY <1>6, <2>1 DEF Accepted
  <2> QED BY <1>2, <1>4, <1>5, <2>1, <2>2 DEF Chained
<1>7. ASSUME Accepted(g), NEW i \in 1..n PROVE f[i].kind = "whole" /\ Chained(f, i)
  <2>1. i \in 1..Len(g) /\ i - 1 \in 0..n
    BY <1>1, <1>2
  <2>2. g[i].kind = "whole" /\ Chained(g, i)
    BY <1>7, <2>1 DEF Accepted
  <2>3. SubSeq(g, 1, i - 1) = SubSeq(f, 1, i - 1) /\ g[i] = f[i]
    BY <1>2, <1>4, <2>1
  <2> QED BY <2>2, <2>3 DEF Chained
<1>8. ASSUME Accepted(g) PROVE Replay(g) = Append(line.prev, line.event)
  <2> DEFINE h == Append(Replay(f), line.event)
  <2>1. line.event \in Event
    BY DEF Line
  <2>2. /\ Replay(g) \in Seq(Event) /\ Len(Replay(g)) = n + 1
        /\ \A i \in 1..(n + 1) : Replay(g)[i] = g[i].event
    BY <1>2, ReplayType
  <2>3. /\ Replay(f) \in Seq(Event) /\ Len(Replay(f)) = n
        /\ \A i \in 1..n : Replay(f)[i] = f[i].event
    BY ReplayType
  <2>4. /\ h \in Seq(Event) /\ Len(h) = n + 1 /\ h[n + 1] = line.event
        /\ \A i \in 1..n : h[i] = Replay(f)[i]
    BY <1>1, <2>1, <2>3
  <2> HIDE DEF h
  <2>5. ASSUME NEW i \in 1..(n + 1) PROVE Replay(g)[i] = h[i]
    <3>1. CASE i \in 1..n
      BY <1>2, <2>2, <2>3, <2>4, <3>1
    <3>2. CASE i = n + 1
      BY <1>2, <2>2, <2>4, <3>2
    <3>3. i \in 1..n \/ i = n + 1
      BY <1>1
    <3> QED BY <3>1, <3>2, <3>3
  <2>6. Replay(g) = h
    BY <2>2, <2>4, <2>5, SeqEqual
  <2> QED BY <1>6, <1>8, <2>6 DEF h
<1>9. Accepted(g) => Accepted(f)
  BY <1>7 DEF Accepted
<1> QED BY <1>1, <1>2, <1>3, <1>6, <1>8, <1>9

\* What hub h writes, whether the append returns or throws, or the hub dies in it.
LEMMA WrittenLemma ==
  ASSUME JournalsOK, NEW h \in DOMAIN events, NEW e \in Event, NEW kind \in {"whole", "torn"}
  PROVE  LET g == Written(file, NewLine(h, kind, e)) IN
         /\ g \in Seq(Line) /\ Continues(file, g)
         /\ Accepted(g) => /\ Accepted(file) /\ Replay(file) = events[h]
                           /\ Len(g) = Len(file) + 1
                           /\ Replay(g) = Append(events[h], e)
<1> DEFINE line == NewLine(h, kind, e)  g == Written(file, line)
<1>1. file \in Seq(Line) /\ events[h] \in Seq(Event)
  BY DEF JournalsOK
<1>2. line \in Line /\ line.prev = events[h] /\ line.event = e
  BY <1>1 DEF NewLine, Line
<1> HIDE DEF line
<1>3. /\ g \in Seq(Line) /\ Continues(file, g)
      /\ Accepted(g) => /\ Accepted(file) /\ Replay(file) = events[h]
                        /\ Len(g) = Len(file) + 1
                        /\ Replay(g) = Append(events[h], e)
  <2>1. CASE file # <<>> /\ file[Len(file)].kind = "torn"
    BY <1>1, <1>2, <2>1, BehindTorn
  <2>2. CASE ~ (file # <<>> /\ file[Len(file)].kind = "torn")
    BY <1>1, <1>2, <2>2, BehindWhole
  <2> QED BY <2>1, <2>2
<1> QED BY <1>3 DEF line

-----------------------------------------------------------------------------
(* Types are kept *)

\* The processes.
LEMMA ProcsNext ==
  ASSUME DirTypeOK, NEW pid \in DOMAIN procs, PidNext(pid)
  PROVE  ProcsOK' /\ DOMAIN procs' = DOMAIN procs
<1>1. PICK p \in Proc : procs' = [procs EXCEPT ![pid] = p] /\ Succeeds(procs[pid], p)
  BY StepsOn
<1>2. /\ procs' \in Seq(Proc) /\ DOMAIN procs' = DOMAIN procs
      /\ procs'[pid] = p /\ \A q \in DOMAIN procs \ {pid} : procs'[q] = procs[q]
  BY <1>1, OneGoes DEF DirTypeOK, ProcsOK
<1>3. \A q \in DOMAIN procs' : procs'[q].pc \in {"seal", "reseal"} => procs'[q].key # NoKey
  BY <1>1, <1>2 DEF Succeeds, DirTypeOK, ProcsOK
<1> QED BY <1>2, <1>3 DEF ProcsOK

\* The lock.
LEMMA LockNext ==
  ASSUME DirTypeOK, NEW pid \in DOMAIN procs, PidNext(pid)
  PROVE  LockOK'
<1>1. DOMAIN procs' = DOMAIN procs /\ LockOK /\ pid # 0
  BY ProcsNext DEF DirTypeOK, ProcsOK
<1>2. CASE lock' = lock
  BY <1>1, <1>2 DEF LockOK
<1>3. CASE lock' = NoLock
  BY <1>1, <1>3 DEF LockOK, NoLock
<1>4. CASE lock' = [by |-> pid, stamped |-> FALSE]
  BY <1>1, <1>4 DEF LockOK
<1>5. CASE lock.by = pid /\ lock' = [lock EXCEPT !.stamped = TRUE]
  <2>1. lock' = [by |-> pid, stamped |-> TRUE]
    BY <1>1, <1>5 DEF LockOK
  <2> QED BY <1>1, <2>1 DEF LockOK
<1>6. \/ lock' = lock \/ lock' = NoLock \/ lock' = [by |-> pid, stamped |-> FALSE]
      \/ lock.by = pid /\ lock' = [lock EXCEPT !.stamped = TRUE]
  BY DEF PidNext, Custody, ReadSecret, ReadGrants, Seals, WriteGrants, WriteConfig, WritesNowhere,
         CreateLock, StampLock, StampFails, OpenJournal, Serve, StopHub, LooksRecover, Unlinks,
         LooksToArchive, LooksToBackup, LooksToRestore, LooksFor, Archives, Lists, CopiesSecret,
         CopiesJournal, Stages, MovesAside, MovesIn, Dies, Released, stateVars
<1> QED BY <1>2, <1>3, <1>4, <1>5, <1>6

\* What is written with a key is marked with it.
LEMMA WrittenWithLemma ==
  ASSUME NEW key \in Keys \cup {NoKey}
  PROVE  WrittenWith(key) \in Secret
BY Constants DEF WrittenWith, Secret

\* What a backup has so far.
LEMMA SoFarLemma ==
  ASSUME SecretsOK, NEW pid
  PROVE  SoFar(pid) \in Copy
BY NoCopyLemma DEF SoFar, SecretsOK

\* A copy takes its place among the others.
LEMMA CopiedLemma ==
  ASSUME SecretsOK, NEW pid, NEW c \in Copy, Copied(pid, c)
  PROVE  /\ \A p \in DOMAIN saved' : saved'[p] \in Copy
         /\ \A p \in DOMAIN saved' : saved'[p] = c \/ (p \in DOMAIN saved /\ saved'[p] = saved[p])
BY DEF Copied, SecretsOK

\* The secrets and their copies.
LEMMA SecretsTyped ==
  ASSUME DirTypeOK, NEW pid \in DOMAIN procs, PidNext(pid)
  PROVE  SecretsOK'
<1>1. /\ SecretsOK /\ secrets \in Seq(Secret) /\ file \in Seq(Line) /\ returned \in Seq(Event)
      /\ procs[pid].key \in Keys \cup {NoKey} /\ procs[pid].at \in Nat \ {0} /\ procs[pid].copy \in Copy
      /\ (procs[pid].pc \in {"seal", "reseal"} => procs[pid].key \in Keys)
  BY ProcLemma DEF DirTypeOK, SecretsOK, JournalsOK
<1>2. SoFar(pid) \in Copy /\ WrittenWith(procs[pid].key) \in Secret
  BY <1>1, SoFarLemma, WrittenWithLemma
<1>3. CASE UNCHANGED <<secrets, saved>>
  BY <1>1, <1>3 DEF SecretsOK
<1>4. CASE UNCHANGED saved /\ \E i \in DOMAIN secrets, s \in Secret : Replaces(i, s)
  <2>1. PICK i \in DOMAIN secrets, s \in Secret : secrets' = [secrets EXCEPT ![i] = s]
    BY <1>4 DEF Replaces
  <2>2. secrets' \in Seq(Secret)
    BY <1>1, <2>1
  <2> QED BY <1>1, <1>4, <2>2 DEF SecretsOK
<1>5. CASE Seals(pid)
  <2>1. procs[pid].key \in Secret
    BY <1>1, <1>5 DEF Seals, Secret
  <2> QED BY <1>1, <1>4, <1>5, <2>1 DEF Seals, There
<1>6. CASE WriteGrants(pid)
  <2>1. 1 \in DOMAIN secrets
    BY <1>1, <1>6 DEF WriteGrants, There
  <2> QED BY <1>2, <1>4, <1>6, <2>1 DEF WriteGrants
<1>7. CASE WriteConfig(pid)
  <2>1. secrets' \in Seq(Secret) /\ UNCHANGED saved
    BY <1>1, <1>2, <1>7 DEF WriteConfig
  <2> QED BY <1>1, <2>1 DEF SecretsOK
<1>8. CASE CopiesSecret(pid) /\ UNCHANGED secrets /\ ~ UNCHANGED saved
  <2> DEFINE s == Append(SoFar(pid).secrets, secrets[procs[pid].at])
             c == [SoFar(pid) EXCEPT !.secrets = s]
  <2>1. procs[pid].at \in DOMAIN secrets /\ Copied(pid, c)
    BY <1>8 DEF CopiesSecret, There
  <2>2. s \in Seq(Secret)
    BY <1>1, <1>2, <2>1 DEF Copy
  <2> HIDE DEF s
  <2>3. c \in Copy
    BY <1>2, <2>2 DEF Copy
  <2> HIDE DEF c
  <2> QED BY <1>1, <1>8, <2>1, <2>3, CopiedLemma DEF SecretsOK
<1>9. CASE CopiesJournal(pid) /\ UNCHANGED secrets /\ ~ UNCHANGED saved
  <2> DEFINE c == [SoFar(pid) EXCEPT !.file = file, !.returned = returned]
  <2>1. Copied(pid, c)
    BY <1>9 DEF CopiesJournal
  <2>2. c \in Copy
    BY <1>1, <1>2 DEF Copy
  <2> HIDE DEF c
  <2> QED BY <1>1, <1>9, <2>1, <2>2, CopiedLemma DEF SecretsOK
<1>10. CASE MovesIn(pid)
  <2>1. UNCHANGED saved /\ (UNCHANGED secrets \/ secrets' = procs[pid].copy.secrets)
    BY <1>10 DEF MovesIn
  <2>2. procs[pid].copy.secrets \in Seq(Secret)
    BY <1>1 DEF Copy
  <2> QED BY <1>1, <2>1, <2>2 DEF SecretsOK
<1>11. \/ UNCHANGED <<secrets, saved>> \/ Seals(pid) \/ WriteGrants(pid) \/ WriteConfig(pid) \/ MovesIn(pid)
       \/ UNCHANGED secrets /\ (CopiesSecret(pid) \/ CopiesJournal(pid))
  BY DEF PidNext, Custody, ReadSecret, ReadGrants, WritesNowhere,
         CreateLock, StampLock, StampFails, OpenJournal, Serve, StopHub, LooksRecover, Unlinks,
         LooksToArchive, LooksToBackup, LooksToRestore, LooksFor, Archives, Lists, CopiesSecret,
         CopiesJournal, Stages, MovesAside, Dies, stateVars
<1> QED BY <1>3, <1>5, <1>6, <1>7, <1>8, <1>9, <1>10, <1>11

\* The journals: what a process writes, if it writes.
Writes(h) ==
  \E e \in Event, kind \in {"whole", "torn"} : file' = Written(file, NewLine(h, kind, e))

LEMMA JournalsTyped ==
  ASSUME DirTypeOK, NEW pid \in DOMAIN procs, PidNext(pid)
  PROVE  JournalsOK'
<1>1. JournalsOK /\ procs[pid].copy \in Copy
  BY ProcLemma DEF DirTypeOK
<1>2. CASE UNCHANGED <<journalVars, aside>>
  BY <1>1, <1>2 DEF JournalsOK, journalVars
<1>3. CASE Serve(pid)
  <2>1. PICK e \in Event : AppendReturns(pid, e) \/ AppendThrows(pid, e)
    BY <1>3 DEF Serve
  <2>2. pid \in DOMAIN events /\ UNCHANGED aside /\ events[pid] \in Seq(Event)
    BY <1>1, <1>3, <2>1 DEF Serve, stateVars, AppendReturns, AppendThrows, Running, JournalsOK
  <2>3. file' \in Seq(Line)
    BY <1>1, <2>1, <2>2, WrittenLemma DEF AppendReturns, AppendThrows
  <2>4. returned' \in Seq(Event) /\ \A h \in DOMAIN events' : events'[h] \in Seq(Event)
    <3>1. CASE AppendReturns(pid, e)
      <4>1. events' = [events EXCEPT ![pid] = Append(events[pid], e)] /\ returned' = Append(returned, e)
        BY <3>1 DEF AppendReturns
      <4>2. Append(events[pid], e) \in Seq(Event) /\ returned \in Seq(Event)
        BY <1>1, <2>2 DEF JournalsOK
      <4> QED BY <1>1, <2>2, <4>1, <4>2 DEF JournalsOK
    <3>2. CASE AppendThrows(pid, e)
      BY <1>1, <3>2 DEF AppendThrows, JournalsOK
    <3> QED BY <2>1, <3>1, <3>2
  <2> QED BY <1>1, <2>2, <2>3, <2>4 DEF JournalsOK
<1>4. CASE Open(pid) /\ UNCHANGED aside
  <2>1. Replay(file) \in Seq(Event)
    BY <1>1, ReplayType DEF JournalsOK
  <2> QED BY <1>1, <1>4, <2>1 DEF JournalsOK, Open
<1>5. CASE Forgets(pid) /\ UNCHANGED <<file, returned, aside>>
  BY <1>1, <1>5 DEF JournalsOK, Forgets
<1>6. CASE Crash(pid) /\ UNCHANGED aside
  <2>1. pid \in DOMAIN events /\ Forgets(pid) /\ UNCHANGED returned
    BY <1>6 DEF Crash, Running
  <2>2. file' \in Seq(Line)
    <3>1. CASE file' = file
      BY <1>1, <3>1 DEF JournalsOK
    <3>2. CASE \E e \in Event, kind \in {"torn", "whole"} : file' = Written(file, NewLine(pid, kind, e))
      BY <1>1, <2>1, <3>2, WrittenLemma
    <3> QED BY <1>6, <3>1, <3>2 DEF Crash
  <2> QED BY <1>1, <1>6, <2>1, <2>2 DEF JournalsOK, Forgets
<1>7. CASE Archives(pid) \/ MovesAside(pid)
  <2>1. \/ UNCHANGED <<journalVars, aside>>
        \/ file' = <<>> /\ returned' = <<>> /\ UNCHANGED events /\ aside' \in {aside, aside \cup {file}}
    BY <1>7 DEF Archives, MovesAside, Archive
  <2>2. <<>> \in Seq(Line) /\ <<>> \in Seq(Event)
    OBVIOUS
  <2>3. CASE file' = <<>> /\ returned' = <<>> /\ UNCHANGED events /\ aside' \in {aside, aside \cup {file}}
    BY ONLY <1>1, <2>2, <2>3 DEF JournalsOK
  <2> QED BY <1>2, <2>1, <2>3
<1>8. CASE MovesIn(pid)
  <2>1. /\ UNCHANGED <<events, aside>>
        /\ \/ UNCHANGED <<file, returned>>
           \/ file' = procs[pid].copy.file /\ returned' = procs[pid].copy.returned
    BY <1>8 DEF MovesIn
  <2> QED BY <1>1, <2>1 DEF JournalsOK, Copy
<1>9. \/ UNCHANGED <<journalVars, aside>> \/ Serve(pid) \/ (UNCHANGED aside /\ (Open(pid) \/ Crash(pid)))
      \/ Forgets(pid) /\ UNCHANGED <<file, returned, aside>>
      \/ Archives(pid) \/ MovesAside(pid) \/ MovesIn(pid)
  BY DEF PidNext, Custody, ReadSecret, ReadGrants, Seals, WriteGrants, WriteConfig, WritesNowhere,
         CreateLock, StampLock, StampFails, OpenJournal, StopHub, LooksRecover, Unlinks,
         LooksToArchive, LooksToBackup, LooksToRestore, LooksFor, Lists, CopiesSecret,
         CopiesJournal, Stages, Dies
<1> QED BY <1>2, <1>3, <1>4, <1>5, <1>6, <1>7, <1>8, <1>9

\* A command that is run joins the others.
LEMMA RunsOn ==
  ASSUME DirTypeOK, NEW cmd \in Commands, NEW key \in Keys \cup {NoKey}, Run(cmd, key)
  PROVE  \E p \in Proc :
           /\ procs' = Append(procs, p) /\ p.cmd = cmd /\ p.at = 1
           /\ p.pc \in {"custody", "read", "look"}
           /\ UNCHANGED <<dir, lock, secrets, aside, saved, remade, crossed, journalVars>>
<1> DEFINE pc == CASE cmd = "start" -> "custody"
                   [] cmd \in {"enroll", "revoke"} -> "read"
                   [] OTHER -> "look"
           p == Process(cmd, key, pc)
<1>1. pc \in Steps /\ pc \in {"custody", "read", "look"}
  BY DEF Commands, Steps
<1>2. procs' = Append(procs, p) /\ UNCHANGED <<dir, lock, secrets, aside, saved, remade, crossed, journalVars>>
  BY DEF Run
<1> HIDE DEF pc
<1>3. p \in Proc /\ p.pc = pc /\ p.cmd = cmd /\ p.at = 1
  BY <1>1, ProcessLemma
<1> HIDE DEF p
<1> QED BY <1>1, <1>2, <1>3

\* The others are what they were.
LEMMA OneMore ==
  ASSUME procs \in Seq(Proc), NEW p \in Proc, procs' = Append(procs, p)
  PROVE  /\ procs' \in Seq(Proc) /\ DOMAIN procs' = DOMAIN procs \cup {Len(procs) + 1}
         /\ Len(procs) + 1 \notin DOMAIN procs
         /\ procs'[Len(procs) + 1] = p /\ \A q \in DOMAIN procs : procs'[q] = procs[q]
OBVIOUS

\* Every step keeps the types.
LEMMA TypeNext ==
  ASSUME DirTypeOK, [StateNext]_allVars
  PROVE  DirTypeOK'
<1>1. CASE UNCHANGED allVars
  BY <1>1 DEF allVars, stateVars, journalVars, DirTypeOK, ProcsOK, LockOK, SecretsOK, JournalsOK
<1>2. CASE \E cmd \in Commands, key \in Keys \cup {NoKey} : Run(cmd, key)
  <2>1. PICK p \in Proc :
           /\ procs' = Append(procs, p) /\ p.pc \in {"custody", "read", "look"}
           /\ UNCHANGED <<dir, lock, secrets, aside, saved, remade, crossed, journalVars>>
    BY <1>2, RunsOn
  <2>2. /\ procs' \in Seq(Proc) /\ DOMAIN procs' = DOMAIN procs \cup {Len(procs) + 1}
        /\ procs'[Len(procs) + 1] = p /\ \A q \in DOMAIN procs : procs'[q] = procs[q]
    BY <2>1, OneMore DEF DirTypeOK, ProcsOK
  <2>3. ProcsOK'
    BY <2>1, <2>2 DEF DirTypeOK, ProcsOK
  <2>4. LockOK' /\ SecretsOK' /\ JournalsOK' /\ dir' \in BOOLEAN
    BY <2>1, <2>2 DEF journalVars, DirTypeOK, LockOK, SecretsOK, JournalsOK
  <2> QED BY <2>3, <2>4 DEF DirTypeOK
<1>3. CASE \E pid \in DOMAIN procs : PidNext(pid)
  <2>1. PICK pid \in DOMAIN procs : PidNext(pid)
    BY <1>3
  <2>2. dir' \in BOOLEAN
    BY <2>1 DEF DirTypeOK, PidNext, Custody, ReadSecret, ReadGrants, Seals, WriteGrants, WriteConfig,
         WritesNowhere, CreateLock, StampLock, StampFails, OpenJournal, Serve, StopHub, LooksRecover,
         Unlinks, LooksToArchive, LooksToBackup, LooksToRestore, LooksFor, Archives, Lists,
         CopiesSecret, CopiesJournal, Stages, MovesAside, MovesIn, Dies, stateVars
  <2> QED BY <2>1, <2>2, ProcsNext, LockNext, SecretsTyped, JournalsTyped DEF DirTypeOK
<1> QED BY <1>1, <1>2, <1>3 DEF StateNext, PidNext

\* The types hold at the start.
LEMMA TypeInit == StateInit => DirTypeOK
<1> SUFFICES ASSUME StateInit PROVE DirTypeOK
  OBVIOUS
<1>1. PICK key \in Keys \cup {NoKey} : secrets = [i \in 1..Secrets |-> WrittenWith(key)]
  BY DEF StateInit
<1>2. Secrets \in Nat /\ WrittenWith(key) \in Secret
  BY Constants, WrittenWithLemma
<1>3. secrets \in Seq(Secret)
  BY <1>1, <1>2
<1>4. procs = <<>> /\ saved = [p \in {} |-> NoCopy] /\ lock = NoLock /\ dir = TRUE /\ aside = {}
      /\ file = <<>> /\ returned = <<>> /\ events = [hub \in {} |-> <<>>]
  BY DEF StateInit, JournalInit
<1>5. ProcsOK
  BY <1>4 DEF ProcsOK
<1>6. LockOK
  BY <1>4 DEF LockOK, NoLock
<1>7. SecretsOK
  BY <1>3, <1>4 DEF SecretsOK
<1>8. JournalsOK
  BY <1>4 DEF JournalsOK
<1> QED BY <1>4, <1>5, <1>6, <1>7, <1>8 DEF DirTypeOK

-----------------------------------------------------------------------------
(* The lock *)

Holds(pc) == pc \in {"stamp", "open", "serve", "reseal"}

\* One process is past the lock, and the lock is its own.
OneHolds ==
  \A pid \in DOMAIN procs : Holding(pid) =>
    /\ procs[pid].cmd = "start"
    /\ \A q \in DOMAIN procs : Holding(q) => q = pid
    /\ lock = [by |-> pid, stamped |-> procs[pid].pc # "stamp"]

\* The owner that recover-lock remembers is dead, and stays so.
SeenDead ==
  \A pid \in DOMAIN procs :
    procs[pid].cmd = "recover-lock" /\ procs[pid].pc = "act" =>
      procs[pid].seen \in DOMAIN procs /\ Ends(procs[pid].seen)

LockInv == SeenDead /\ ("lock" \notin crossed => OneHolds)

\* What has been crossed stays crossed.
LEMMA CrossedGrows ==
  ASSUME [StateNext]_allVars
  PROVE  crossed \subseteq crossed'
<1>1. CASE UNCHANGED crossed
  BY <1>1
<1>2. CASE \E what, yes : Crosses(what, yes)
  BY <1>2 DEF Crosses
<1>3. ASSUME NEW pid \in DOMAIN procs, PidNext(pid)
      PROVE  UNCHANGED crossed \/ \E what, yes : Crosses(what, yes)
  BY <1>3 DEF PidNext, Custody, ReadSecret, ReadGrants, Seals, WriteGrants, WriteConfig, WritesNowhere,
         CreateLock, StampLock, StampFails, OpenJournal, Serve, StopHub, LooksRecover, Unlinks,
         LooksToArchive, LooksToBackup, LooksToRestore, LooksFor, Archives, Lists, CopiesSecret,
         CopiesJournal, Stages, MovesAside, MovesIn, Dies, stateVars
<1>4. \A cmd \in Commands, key \in Keys \cup {NoKey} : Run(cmd, key) => UNCHANGED crossed
  BY DEF Run
<1>5. UNCHANGED allVars => UNCHANGED crossed
  BY DEF allVars, stateVars
<1> QED BY <1>1, <1>2, <1>3, <1>4, <1>5 DEF StateNext, PidNext

\* A process that holds the lock goes on holding it, and no other one comes to it.
LEMMA HoldsStep ==
  ASSUME OneHolds, procs \in Seq(Proc), NEW pid \in DOMAIN procs, NEW p \in Proc,
         procs' = [procs EXCEPT ![pid] = p], UNCHANGED lock,
         Holds(p.pc) => /\ Holds(procs[pid].pc) /\ p.cmd = procs[pid].cmd
                        /\ (p.pc = "stamp" <=> procs[pid].pc = "stamp")
  PROVE  OneHolds'
<1>1. /\ DOMAIN procs' = DOMAIN procs
      /\ procs'[pid] = p /\ \A q \in DOMAIN procs \ {pid} : procs'[q] = procs[q]
  BY OneGoes
<1> QED BY <1>1 DEF OneHolds, Holding, Holds

\* Nobody holds the lock afterwards.
LEMMA FreeStep ==
  ASSUME procs \in Seq(Proc), NEW pid \in DOMAIN procs, NEW p \in Proc,
         procs' = [procs EXCEPT ![pid] = p], ~ Holds(p.pc),
         \A q \in DOMAIN procs \ {pid} : ~ Holding(q)
  PROVE  OneHolds'
<1>1. /\ DOMAIN procs' = DOMAIN procs
      /\ procs'[pid] = p /\ \A q \in DOMAIN procs \ {pid} : procs'[q] = procs[q]
  BY OneGoes
<1> QED BY <1>1 DEF OneHolds, Holding, Holds

\* One holds it afterwards.
LEMMA TakeStep ==
  ASSUME procs \in Seq(Proc), NEW pid \in DOMAIN procs, NEW p \in Proc,
         procs' = [procs EXCEPT ![pid] = p], p.cmd = "start",
         lock' = [by |-> pid, stamped |-> p.pc # "stamp"],
         \A q \in DOMAIN procs \ {pid} : ~ Holding(q)
  PROVE  OneHolds'
<1>1. /\ DOMAIN procs' = DOMAIN procs
      /\ procs'[pid] = p /\ \A q \in DOMAIN procs \ {pid} : procs'[q] = procs[q]
  BY OneGoes
<1> QED BY <1>1 DEF OneHolds, Holding

\* A hub with the lock: it makes it, stamps it, opens the journal, serves, and stops.
LEMMA HubStep ==
  ASSUME DirTypeOK, OneHolds, NEW pid \in DOMAIN procs,
         CreateLock(pid) \/ StampLock(pid) \/ OpenJournal(pid) \/ StopHub(pid)
  PROVE  OneHolds'
<1>1. ProcsOK /\ procs \in Seq(Proc) /\ pid # 0 /\ procs[pid].cmd = "start"
  BY DEF DirTypeOK, ProcsOK, CreateLock, StampLock, OpenJournal, StopHub, At
<1>2. CASE CreateLock(pid) /\ lock = NoLock
  <2>1. PICK p \in Proc : procs' = [procs EXCEPT ![pid] = p] /\ p.pc = "stamp" /\ p.cmd = "start"
    BY <1>1, <1>2, GoesTo DEF CreateLock, Steps
  <2>2. ASSUME NEW q \in DOMAIN procs, Holding(q) PROVE FALSE
    <3>1. lock.by = q /\ q # 0
      BY <1>1, <2>2 DEF OneHolds
    <3> QED BY <1>2, <3>1 DEF NoLock
  <2> QED BY <1>1, <1>2, <2>1, <2>2, TakeStep DEF CreateLock
<1>3. CASE CreateLock(pid) /\ lock # NoLock
  <2>1. PICK p \in Proc : procs' = [procs EXCEPT ![pid] = p] /\ p.pc = "ended"
    BY <1>1, <1>3, GoesTo DEF CreateLock, Steps
  <2> QED BY <1>1, <1>3, <2>1, HoldsStep DEF CreateLock, Holds
<1>4. ASSUME procs[pid].pc \in {"stamp", "open", "serve"}
      PROVE  /\ Holding(pid) /\ lock = [by |-> pid, stamped |-> procs[pid].pc # "stamp"]
             /\ \A q \in DOMAIN procs \ {pid} : ~ Holding(q)
  BY <1>4 DEF OneHolds, Holding
<1>5. CASE StampLock(pid)
  <2>1. PICK p \in Proc : procs' = [procs EXCEPT ![pid] = p] /\ p.pc = "open" /\ p.cmd = "start"
    BY <1>1, <1>5, GoesTo DEF StampLock, Steps
  <2>2. procs[pid].pc = "stamp" /\ lock' = [by |-> pid, stamped |-> TRUE]
    <3>1. procs[pid].pc = "stamp" /\ lock' = (IF lock.by = pid THEN [lock EXCEPT !.stamped = TRUE] ELSE lock)
      BY <1>5 DEF StampLock, At
    <3>2. lock = [by |-> pid, stamped |-> FALSE]
      BY <1>4, <3>1
    <3> QED BY <3>1, <3>2
  <2> QED BY <1>1, <1>4, <2>1, <2>2, TakeStep
<1>6. CASE OpenJournal(pid) /\ Goes(pid, "serve") /\ UNCHANGED lock
  <2>1. PICK p \in Proc : procs' = [procs EXCEPT ![pid] = p] /\ p.pc = "serve" /\ p.cmd = "start"
    <3>1. procs[pid].cmd = "start"
      BY <1>6 DEF OpenJournal, At
    <3>2. "serve" \in Steps /\ "serve" # "ended" /\ Goes(pid, "serve")
      BY <1>6, StepNames
    <3>3. /\ procs'[pid] \in Proc /\ procs' = [procs EXCEPT ![pid] = procs'[pid]]
          /\ procs'[pid].pc = "serve" /\ procs'[pid].cmd = procs[pid].cmd
      BY <1>1, <3>2, GoesTo
    <3> QED BY <3>1, <3>3
  <2>2. procs[pid].pc = "open"
    BY <1>6 DEF OpenJournal, At
  <2> QED BY <1>1, <1>6, <2>1, <2>2, HoldsStep DEF Holds
<1>7. CASE (OpenJournal(pid) \/ StopHub(pid)) /\ Goes(pid, "ended")
  <2>1. PICK p \in Proc : procs' = [procs EXCEPT ![pid] = p] /\ p.pc = "ended"
    BY <1>1, <1>7, GoesAway, StepNames
  <2>2. procs[pid].pc \in {"open", "serve"}
    BY <1>7 DEF OpenJournal, StopHub, At
  <2> QED BY <1>1, <1>4, <2>1, <2>2, FreeStep DEF Holds
<1> QED BY <1>2, <1>3, <1>5, <1>6, <1>7 DEF OpenJournal, StopHub

\* A lock is taken away, by one that had looked at it or while there is no hub.
LEMMA TakenStep ==
  ASSUME DirTypeOK, LockInv, OneHolds, NEW pid \in DOMAIN procs, "lock" \notin crossed',
         StampFails(pid) \/ Unlinks(pid) \/ MovesAside(pid) \/ MovesIn(pid)
  PROVE  OneHolds'
<1>1. ProcsOK /\ procs \in Seq(Proc) /\ pid # 0 /\ LockOK
  BY DEF DirTypeOK, ProcsOK
<1>2. PICK pc \in {"ended", "between"} : Goes(pid, pc)
  BY DEF StampFails, Unlinks, MovesAside, MovesIn
<1>3. PICK p \in Proc : procs' = [procs EXCEPT ![pid] = p] /\ p.pc = pc
  BY <1>1, <1>2, GoesAway, StepNames
<1>4. \A q \in DOMAIN procs \ {pid} : ~ Holding(q)
  <2>1. CASE StampFails(pid)
    BY <2>1 DEF StampFails, At, OneHolds, Holding
  <2>2. CASE Unlinks(pid)
    <3>1. lock.by \in {0, procs[pid].seen}
      BY <2>2 DEF Unlinks, Crosses
    <3>2. procs[pid].seen \in DOMAIN procs /\ procs[procs[pid].seen].pc = "ended"
      BY <2>2 DEF Unlinks, At, LockInv, SeenDead, Ends
    <3>3. ASSUME NEW q \in DOMAIN procs, Holding(q) PROVE FALSE
      <4>1. lock.by = q /\ q # 0
        BY <1>1, <3>3 DEF OneHolds
      <4>2. procs[q].pc = "ended"
        BY <3>1, <3>2, <4>1
      <4> QED BY <3>3, <4>2 DEF Holding
    <3> QED BY <3>3
  <2>3. CASE MovesAside(pid) \/ MovesIn(pid)
    <3>1. ~ Starting
      BY <2>3 DEF MovesAside, MovesIn, Crosses
    <3> QED BY <3>1 DEF Starting, OneHolds
  <2> QED BY <2>1, <2>2, <2>3
<1>5. ~ Holds(p.pc)
  BY <1>2, <1>3 DEF Holds
<1> QED BY ONLY <1>1, <1>3, <1>4, <1>5, FreeStep, pid \in DOMAIN procs

\* Everything else leaves the lock alone.
LEMMA OtherStep ==
  ASSUME DirTypeOK, OneHolds, NEW pid \in DOMAIN procs, PidNext(pid),
         ~ (CreateLock(pid) \/ StampLock(pid) \/ OpenJournal(pid) \/ StopHub(pid)),
         ~ (StampFails(pid) \/ Unlinks(pid) \/ MovesAside(pid) \/ MovesIn(pid))
  PROVE  OneHolds'
<1>1. ProcsOK /\ procs \in Seq(Proc)
  BY DEF DirTypeOK, ProcsOK
<1>2. UNCHANGED lock
  BY DEF PidNext, Custody, ReadSecret, ReadGrants, Seals, WriteGrants, WriteConfig, WritesNowhere,
         Serve, LooksRecover, LooksToArchive, LooksToBackup, LooksToRestore, LooksFor, Archives,
         Lists, CopiesSecret, CopiesJournal, Stages, Dies, stateVars
<1>3. PICK p \in Proc : procs' = [procs EXCEPT ![pid] = p] /\ Succeeds(procs[pid], p)
  BY StepsOn
<1>4. p = procs'[pid]
  BY <1>1, <1>3, OneGoes
<1>5. \/ UNCHANGED procs
      \/ ~ Holds(p.pc)
      \/ procs[pid].pc = "serve" /\ p.pc = "reseal"
      \/ procs[pid].pc = "reseal" /\ p.pc = "serve"
  <2>1. CASE UNCHANGED procs
    BY <2>1
  <2>2. ASSUME NEW pc \in Steps, Goes(pid, pc) PROVE p.pc = pc
    <3>1. PICK o \in Proc : procs' = [procs EXCEPT ![pid] = o] /\ o.pc = pc
      BY <1>1, <2>2, GoesTo
    <3> QED BY <1>1, <1>4, <3>1, OneGoes
  <2>3. CASE \E pc \in {"seal", "write", "config", "act", "copying", "between", "ended"} : Goes(pid, pc)
    BY <2>2, <2>3 DEF Steps, Holds
  <2>4. CASE NextSecret(pid) /\ procs[pid].cmd = "start"
    <3>1. PICK o \in Proc : procs' = [procs EXCEPT ![pid] = o] /\ o.pc \in {"custody", "lock"}
      BY <2>4, NextLemma
    <3>2. p = o
      BY <1>1, <1>4, <3>1, OneGoes
    <3> QED BY <3>1, <3>2 DEF Holds
  <2>5. CASE \E o : Becomes(pid, o) /\ ~ Holds(o.pc)
    <3>1. PICK o : procs' = [procs EXCEPT ![pid] = o] /\ ~ Holds(o.pc)
      BY <2>5 DEF Becomes
    <3>2. procs'[pid] = o
      BY <1>1, <3>1
    <3> QED BY <1>4, <3>1, <3>2
  <2>6. CASE Custody(pid)
    <3>1. [procs[pid] EXCEPT !.pc = "seal", !.seen = Listed(pid)].pc = "seal"
      BY ProcLemma, <1>1 DEF Proc
    <3> QED BY <2>3, <2>4, <2>5, <2>6, <3>1 DEF Custody, Holds, At
  <2>7. CASE LooksRecover(pid) \/ Lists(pid) \/ CopiesSecret(pid) \/ Stages(pid)
    <3>1. /\ [procs[pid] EXCEPT !.pc = "act", !.seen = lock.by].pc = "act"
          /\ [procs[pid] EXCEPT !.pc = "copying", !.seen = Len(secrets)].pc = "copying"
          /\ [procs[pid] EXCEPT !.at = procs[pid].at + 1].pc = procs[pid].pc
          /\ \A c : [procs[pid] EXCEPT !.pc = "staged", !.copy = c].pc = "staged"
      BY ProcLemma, <1>1 DEF Proc
    <3>2. CopiesSecret(pid) => procs[pid].pc = "copying"
      BY DEF CopiesSecret, At
    <3> QED BY <2>3, <2>5, <2>7, <3>1, <3>2 DEF LooksRecover, Remembers, Lists, CopiesSecret, Stages, Holds
  <2>8. CASE ReadGrants(pid)
    BY <2>2, <2>8 DEF ReadGrants, At, Steps
  <2>9. CASE Seals(pid) /\ procs[pid].pc = "reseal"
    BY <2>2, <2>9 DEF Seals, Steps
  <2>10. CASE Seals(pid) /\ procs[pid].pc = "seal"
    BY <2>3, <2>4, <2>10 DEF Seals
  <2>11. CASE \/ ReadSecret(pid) \/ WriteGrants(pid) \/ WriteConfig(pid) \/ WritesNowhere(pid)
              \/ Serve(pid) \/ LooksToArchive(pid) \/ LooksToBackup(pid) \/ LooksToRestore(pid)
              \/ Archives(pid) \/ CopiesJournal(pid) \/ Dies(pid)
    BY <2>1, <2>3, <2>11 DEF ReadSecret, WriteGrants, WriteConfig, WritesNowhere,
         Serve, LooksToArchive, LooksToBackup, LooksToRestore, LooksFor, Archives,
         CopiesJournal, Dies, stateVars
  <2>12. Seals(pid) => procs[pid].pc \in {"seal", "reseal"}
    BY DEF Seals
  <2> QED BY <2>6, <2>7, <2>8, <2>9, <2>10, <2>11, <2>12 DEF PidNext
<1>6. CASE UNCHANGED procs
  BY <1>2, <1>6 DEF OneHolds, Holding
<1>7. Holds(p.pc) => p.cmd = procs[pid].cmd
  BY <1>3 DEF Succeeds, Holds
<1> QED BY <1>1, <1>2, <1>3, <1>5, <1>6, <1>7, HoldsStep DEF Holds

\* The owner that is remembered was dead, and the dead do nothing.
LEMMA SeenStep ==
  ASSUME DirTypeOK, SeenDead, NEW pid \in DOMAIN procs, PidNext(pid)
  PROVE  SeenDead'
<1>1. ProcsOK /\ procs \in Seq(Proc) /\ LockOK
  BY DEF DirTypeOK, ProcsOK
<1>2. PICK p \in Proc : procs' = [procs EXCEPT ![pid] = p] /\ Succeeds(procs[pid], p)
  BY StepsOn
<1>3. /\ DOMAIN procs' = DOMAIN procs
      /\ procs'[pid] = p /\ \A q \in DOMAIN procs \ {pid} : procs'[q] = procs[q]
  BY <1>1, <1>2, OneGoes
<1>4. procs[pid].pc # "ended"
  BY <1>2 DEF Succeeds
<1>5. CASE p.cmd = "recover-lock" /\ p.pc = "act" /\ p # procs[pid]
  <2>1. procs[pid].cmd = "recover-lock"
    BY <1>2, <1>5 DEF Succeeds
  <2>2. LooksRecover(pid)
    <3>1. ~ UNCHANGED procs
      BY <1>1, <1>3, <1>5
    <3>2. ~ Goes(pid, "ended") /\ ~ Goes(pid, "write") /\ ~ Goes(pid, "seal") /\ ~ Goes(pid, "config")
          /\ ~ Goes(pid, "serve")
      <4>1. ASSUME NEW pc \in {"ended", "write", "seal", "config", "serve"}, Goes(pid, pc) PROVE FALSE
        <5>1. PICK o \in Proc : procs' = [procs EXCEPT ![pid] = o] /\ o.pc = pc
          BY <1>1, <4>1, GoesAway, StepNames
        <5> QED BY <1>1, <1>3, <1>5, <4>1, <5>1, OneGoes
      <4> QED BY <4>1
    <3> QED BY <2>1, <3>1, <3>2
      DEF PidNext, Custody, ReadSecret, ReadGrants, Seals, WriteGrants, WriteConfig, WritesNowhere,
         CreateLock, StampLock, StampFails, OpenJournal, Serve, StopHub, Unlinks,
         LooksToArchive, LooksToBackup, LooksToRestore, LooksFor, Archives, Lists, CopiesSecret,
         CopiesJournal, Stages, MovesAside, MovesIn, Dies, At, stateVars
  <2>3. CASE Goes(pid, "ended")
    <3>1. PICK o \in Proc : procs' = [procs EXCEPT ![pid] = o] /\ o.pc = "ended"
      BY <1>1, <2>3, GoesAway, StepNames
    <3> QED BY <1>1, <1>3, <1>5, <3>1, OneGoes
  <2>4. CASE lock.stamped /\ ~ Alive(lock.by) /\ Remembers(pid)
    <3>1. procs' = [procs EXCEPT ![pid] = [procs[pid] EXCEPT !.pc = "act", !.seen = lock.by]]
      BY <2>4 DEF Remembers, Becomes
    <3>2. p = [procs[pid] EXCEPT !.pc = "act", !.seen = lock.by] /\ procs[pid] \in Proc
      BY <1>1, <1>3, <3>1
    <3>3. p.seen = lock.by
      BY <3>2 DEF Proc
    <3>4. lock.by \in DOMAIN procs /\ procs[lock.by].pc = "ended" /\ lock.by # pid
      BY <1>1, <1>4, <2>4 DEF LockOK, Alive
    <3>5. procs'[lock.by].pc = "ended" /\ lock.by \in DOMAIN procs'
      BY <1>3, <3>4
    <3> QED BY <1>3, <1>4, <3>3, <3>5 DEF SeenDead, Ends
  <2> QED BY <2>2, <2>3, <2>4 DEF LooksRecover
<1>6. CASE ~ (p.cmd = "recover-lock" /\ p.pc = "act" /\ p # procs[pid])
  BY <1>3, <1>4, <1>6 DEF SeenDead, Ends
<1> QED BY <1>5, <1>6

\* Every step keeps the lock invariant.
LEMMA LockStep ==
  ASSUME DirTypeOK, LockInv, [StateNext]_allVars
  PROVE  LockInv'
<1>1. CASE UNCHANGED allVars
  BY <1>1 DEF allVars, stateVars, LockInv, OneHolds, SeenDead, Holding, Ends
<1>2. CASE \E cmd \in Commands, key \in Keys \cup {NoKey} : Run(cmd, key)
  <2>1. PICK p \in Proc :
           /\ procs' = Append(procs, p) /\ p.pc \in {"custody", "read", "look"}
           /\ UNCHANGED <<dir, lock, secrets, aside, saved, remade, crossed, journalVars>>
    BY <1>2, RunsOn
  <2>2. /\ procs' \in Seq(Proc) /\ DOMAIN procs' = DOMAIN procs \cup {Len(procs) + 1}
        /\ procs'[Len(procs) + 1] = p /\ \A q \in DOMAIN procs : procs'[q] = procs[q]
        /\ Len(procs) + 1 \notin DOMAIN procs
    BY <2>1, OneMore DEF DirTypeOK, ProcsOK
  <2>3. SeenDead'
    BY <2>1, <2>2 DEF LockInv, SeenDead, Ends
  <2>4. OneHolds => OneHolds'
    BY <2>1, <2>2 DEF OneHolds, Holding
  <2> QED BY <2>1, <2>3, <2>4 DEF LockInv
<1>3. ASSUME NEW pid \in DOMAIN procs, PidNext(pid) PROVE LockInv'
  <2>1. SeenDead'
    BY <1>3, SeenStep DEF LockInv
  <2>2. ASSUME "lock" \notin crossed' PROVE OneHolds'
    <3>1. OneHolds
      BY <2>2, CrossedGrows DEF LockInv
    <3> QED BY <1>3, <2>2, <3>1, HubStep, TakenStep, OtherStep
  <2> QED BY <2>1, <2>2 DEF LockInv
<1> QED BY <1>1, <1>2, <1>3 DEF StateNext, PidNext

\* The lock invariant holds at the start.
LEMMA LockInit == StateInit => LockInv
<1> SUFFICES ASSUME StateInit PROVE LockInv
  OBVIOUS
<1>1. DOMAIN procs = {}
  BY DEF StateInit
<1> QED BY <1>1 DEF LockInv, OneHolds, SeenDead

\* One hub at a time has the directory, and the lock is its own, whatever dies where and
\* however often recover-lock is given, until a command takes a lock away that it had
\* not looked at.
THEOREM HubAlone == StateSpec => []HubIsAlone
<1>1. DirTypeOK /\ LockInv /\ [StateNext]_allVars => (DirTypeOK /\ LockInv)'
  BY TypeNext, LockStep
<1>2. LockInv => HubIsAlone
  BY DEF LockInv, OneHolds, HubIsAlone
<1> QED BY <1>1, <1>2, TypeInit, LockInit, PTL DEF StateSpec

-----------------------------------------------------------------------------
(* The secrets *)

\* What is sealed is sealed as the first file is, the one that is migrated first.
Good(s) == \A i \in DOMAIN s : s[i] = Plain \/ s[i] = s[1]

\* A migration that has passed the first file has sealed it, or found it so.
Migrates(p, first) ==
  p.cmd = "start" /\ p.pc \in {"custody", "seal"} /\ p.at > 1 /\ p.key # NoKey => first = p.key

\* What restore has staged is one of the copies.
Staged(p) == p.pc \in {"staged", "between"} => Good(p.copy.secrets)

\* Only a migration and a backup come to the second file.
AtFirst(p) == p.pc \notin {"custody", "copying"} /\ ~ (p.cmd = "start" /\ p.pc = "seal") => p.at = 1

SealedInv ==
  /\ Good(secrets) /\ \A p \in DOMAIN saved : Good(saved[p].secrets)
  /\ \A pid \in DOMAIN procs : Migrates(procs[pid], secrets[1]) /\ Staged(procs[pid])

SecretsInv ==
  /\ \A pid \in DOMAIN procs : AtFirst(procs[pid])
  /\ "secret" \notin crossed => SealedInv

\* The step of a process leaves the others alone.
LEMMA OneSteps ==
  ASSUME DirTypeOK, NEW pid \in DOMAIN procs, PidNext(pid)
  PROVE  /\ DOMAIN procs' = DOMAIN procs /\ procs'[pid] \in Proc
         /\ procs' = [procs EXCEPT ![pid] = procs'[pid]]
         /\ \A q \in DOMAIN procs \ {pid} : procs'[q] = procs[q]
         /\ Succeeds(procs[pid], procs'[pid])
<1>1. PICK p \in Proc : procs' = [procs EXCEPT ![pid] = p] /\ Succeeds(procs[pid], p)
  BY StepsOn
<1>2. /\ procs' \in Seq(Proc) /\ DOMAIN procs' = DOMAIN procs
      /\ procs'[pid] = p /\ \A q \in DOMAIN procs \ {pid} : procs'[q] = procs[q]
  BY <1>1, OneGoes DEF DirTypeOK, ProcsOK
<1> QED BY <1>1, <1>2

\* Becomes, for the process as it is afterwards.
LEMMA BecomesLemma ==
  ASSUME DirTypeOK, NEW pid \in DOMAIN procs, NEW p, Becomes(pid, p)
  PROVE  procs'[pid] = p
BY DEF Becomes, DirTypeOK, ProcsOK

\* The same for each kind of note that a process makes.
LEMMA NotesSeen ==
  ASSUME DirTypeOK, NEW pid \in DOMAIN procs, NEW pc, NEW n,
         Becomes(pid, [procs[pid] EXCEPT !.pc = pc, !.seen = n])
  PROVE  /\ procs'[pid].pc = pc /\ procs'[pid].cmd = procs[pid].cmd
         /\ procs'[pid].key = procs[pid].key /\ procs'[pid].at = procs[pid].at
<1>1. procs'[pid] = [procs[pid] EXCEPT !.pc = pc, !.seen = n]
  BY BecomesLemma
<1>2. procs[pid] \in Proc
  BY ProcLemma DEF DirTypeOK
<1> QED BY <1>1, <1>2 DEF Proc

LEMMA NotesCopy ==
  ASSUME DirTypeOK, NEW pid \in DOMAIN procs, NEW pc, NEW c,
         Becomes(pid, [procs[pid] EXCEPT !.pc = pc, !.copy = c])
  PROVE  procs'[pid].pc = pc /\ procs'[pid].at = procs[pid].at /\ procs'[pid].copy = c
<1>1. procs'[pid] = [procs[pid] EXCEPT !.pc = pc, !.copy = c]
  BY BecomesLemma
<1>2. procs[pid] \in Proc
  BY ProcLemma DEF DirTypeOK
<1> QED BY <1>1, <1>2 DEF Proc

LEMMA NotesAt ==
  ASSUME DirTypeOK, NEW pid \in DOMAIN procs, NEW a,
         Becomes(pid, [procs[pid] EXCEPT !.at = a])
  PROVE  procs'[pid].pc = procs[pid].pc
<1>1. procs'[pid] = [procs[pid] EXCEPT !.at = a]
  BY BecomesLemma
<1>2. procs[pid] \in Proc
  BY ProcLemma DEF DirTypeOK
<1> QED BY <1>1, <1>2 DEF Proc

LEMMA NotesNext ==
  ASSUME DirTypeOK, NEW pid \in DOMAIN procs, NEW pc, NEW n, NEW a,
         Becomes(pid, [procs[pid] EXCEPT !.pc = pc, !.seen = n, !.at = a])
  PROVE  /\ procs'[pid].pc = pc /\ procs'[pid].cmd = procs[pid].cmd
         /\ procs'[pid].key = procs[pid].key
<1>1. procs'[pid] = [procs[pid] EXCEPT !.pc = pc, !.seen = n, !.at = a]
  BY BecomesLemma
<1>2. procs[pid] \in Proc
  BY ProcLemma DEF DirTypeOK
<1> QED BY <1>1, <1>2 DEF Proc

\* Where a process is afterwards.
LEMMA AtFirstStep ==
  ASSUME DirTypeOK, NEW pid \in DOMAIN procs, PidNext(pid), AtFirst(procs[pid])
  PROVE  AtFirst(procs'[pid])
<1> DEFINE o == procs[pid]  p == procs'[pid]
<1>1. ProcsOK
  BY DEF DirTypeOK
<1>2. ASSUME NEW pc \in Steps, Goes(pid, pc), pc = "ended" \/ o.at = 1
      PROVE  AtFirst(p)
  BY <1>1, <1>2, GoesTo DEF AtFirst
<1>3. CASE UNCHANGED procs
  BY <1>3
<1>4. CASE \E pc \in {"ended"} : Goes(pid, pc)
  BY <1>2, <1>4 DEF Steps
<1>5. CASE NextSecret(pid) /\ o.cmd = "start"
  <2>1. CASE Becomes(pid, Process("start", o.key, "lock"))
    <3>1. Process("start", o.key, "lock").at = 1
      BY DEF Process
    <3> QED BY <2>1, <3>1, BecomesLemma DEF AtFirst
  <2>2. CASE Becomes(pid, [o EXCEPT !.pc = "custody", !.seen = Listed(pid), !.at = o.at + 1])
    BY <2>2, NotesNext DEF AtFirst
  <2> QED BY <1>5, <2>1, <2>2 DEF NextSecret
<1>6. CASE Custody(pid)
  <2>1. o.cmd = "start"
    BY <1>6 DEF Custody, At
  <2>2. CASE Becomes(pid, [o EXCEPT !.pc = "seal", !.seen = Listed(pid)])
    BY <2>1, <2>2, NotesSeen DEF AtFirst
  <2> QED BY <1>4, <1>5, <1>6, <2>1, <2>2 DEF Custody
<1>7. CASE Seals(pid)
  <2>1. CASE o.cmd = "start" /\ o.pc = "seal"
    BY <1>5, <1>7, <2>1 DEF Seals
  <2>2. CASE ~ (o.cmd = "start" /\ o.pc = "seal")
    <3>1. o.at = 1
      BY <1>7, <2>2 DEF Seals, AtFirst
    <3>2. \E pc \in {"serve", "write"} : Goes(pid, pc)
      BY <1>7, <2>2 DEF Seals
    <3> QED BY <1>2, <3>1, <3>2 DEF Steps
  <2> QED BY <2>1, <2>2
<1>8. CASE LooksRecover(pid) /\ Remembers(pid)
  <2>1. o.at = 1
    BY <1>8 DEF LooksRecover, At, AtFirst
  <2> QED BY <1>8, <2>1, NotesSeen DEF Remembers, AtFirst
<1>9. CASE Lists(pid) /\ ~ Goes(pid, "ended")
  BY <1>9, NotesSeen DEF Lists, AtFirst
<1>10. CASE CopiesSecret(pid) /\ ~ Goes(pid, "ended")
  BY <1>10, NotesAt DEF CopiesSecret, At, AtFirst
<1>11. CASE Stages(pid) /\ ~ Goes(pid, "ended")
  <2>1. PICK k \in DOMAIN saved : Becomes(pid, [o EXCEPT !.pc = "staged", !.copy = saved[k]])
    BY <1>11 DEF Stages
  <2>2. o.at = 1
    BY <1>11 DEF Stages, At, AtFirst
  <2> QED BY <2>1, <2>2, NotesCopy DEF AtFirst
<1>12. CASE /\ o.pc \notin {"custody", "copying", "seal"}
            /\ \E pc \in {"seal", "write", "reseal", "config", "stamp", "open", "serve", "act", "between"} : Goes(pid, pc)
  <2>1. o.at = 1
    BY <1>12 DEF AtFirst
  <2> QED BY <1>2, <1>12, <2>1 DEF Steps
<1>13. CASE /\ PidNext(pid)
            /\ ~ (Custody(pid) \/ Seals(pid) \/ Lists(pid) \/ CopiesSecret(pid) \/ Stages(pid))
  <2>1. \/ UNCHANGED procs \/ Goes(pid, "ended") \/ (LooksRecover(pid) /\ Remembers(pid))
        \/ /\ o.pc \notin {"custody", "copying", "seal"}
           /\ \E pc \in {"seal", "write", "reseal", "config", "stamp", "open", "serve", "act", "between"} : Goes(pid, pc)
    BY <1>13 DEF PidNext, ReadSecret, ReadGrants, WriteGrants, WriteConfig, WritesNowhere,
         CreateLock, StampLock, StampFails, OpenJournal, Serve, StopHub, LooksRecover, Unlinks,
         LooksToArchive, LooksToBackup, LooksToRestore, LooksFor, Archives,
         CopiesJournal, MovesAside, MovesIn, Dies, At, stateVars
  <2> QED BY <1>3, <1>4, <1>8, <1>12, <2>1
<1>14. CASE Goes(pid, "ended")
  BY <1>4, <1>14
<1> QED BY <1>6, <1>7, <1>9, <1>10, <1>11, <1>13, <1>14

\* A step of one process: what it makes of the files, and of itself.
LEMMA SealedStep ==
  ASSUME DirTypeOK, SealedInv, NEW pid \in DOMAIN procs, PidNext(pid),
         Good(secrets'), \A k \in DOMAIN saved' : Good(saved'[k].secrets),
         \/ secrets'[1] = secrets[1] \/ secrets[1] = Plain
         \/ \A q \in DOMAIN procs : procs[q].cmd # "start",
         Migrates(procs'[pid], secrets'[1]), Staged(procs'[pid])
  PROVE  SealedInv'
<1>1. /\ DOMAIN procs' = DOMAIN procs
      /\ \A q \in DOMAIN procs \ {pid} : procs'[q] = procs[q]
  BY OneSteps
<1>2. ASSUME NEW q \in DOMAIN procs \ {pid} PROVE Migrates(procs'[q], secrets'[1]) /\ Staged(procs'[q])
  <2>1. procs'[q] = procs[q] /\ Migrates(procs[q], secrets[1]) /\ Staged(procs[q])
    BY <1>1, <1>2 DEF SealedInv
  <2>2. procs[q].key # Plain
    BY ProcLemma, Constants DEF DirTypeOK
  <2> QED BY <2>1, <2>2 DEF Migrates
<1>3. \A q \in DOMAIN procs' : Migrates(procs'[q], secrets'[1]) /\ Staged(procs'[q])
  BY <1>1, <1>2
<1> QED BY <1>3 DEF SealedInv

\* The same when no secret and no copy changes.
LEMMA QuietSecrets ==
  ASSUME DirTypeOK, SealedInv, NEW pid \in DOMAIN procs, PidNext(pid), UNCHANGED <<secrets, saved>>,
         Migrates(procs'[pid], secrets[1]), Staged(procs'[pid])
  PROVE  SealedInv'
<1>1. Good(secrets') /\ \A k \in DOMAIN saved' : Good(saved'[k].secrets)
  BY DEF SealedInv
<1> QED BY <1>1, SealedStep

\* Goes, for the process that goes.
LEMMA GoesSealed ==
  ASSUME DirTypeOK, SealedInv, NEW pid \in DOMAIN procs, NEW pc \in Steps, Goes(pid, pc),
         AtFirst(procs[pid]), pc # "custody",
         pc = "seal" => procs[pid].at = 1,
         pc \in {"staged", "between"} => procs[pid].pc \in {"staged", "between"}
  PROVE  Migrates(procs'[pid], secrets'[1]) /\ Staged(procs'[pid])
<1>1. ProcsOK /\ Staged(procs[pid])
  BY DEF DirTypeOK, SealedInv
<1>2. /\ procs'[pid].pc = pc
      /\ pc # "ended" => procs'[pid].at = procs[pid].at /\ procs'[pid].copy = procs[pid].copy
  BY <1>1, GoesTo
<1>3. ~ (1 > 1)
  OBVIOUS
<1> QED BY <1>1, <1>2, <1>3 DEF Migrates, Staged

\* The migration goes on when the first file has its key.
LEMMA NextSealed ==
  ASSUME DirTypeOK, NEW pid \in DOMAIN procs, NextSecret(pid), procs[pid].cmd = "start",
         NEW first, procs[pid].key # NoKey => first = procs[pid].key
  PROVE  Migrates(procs'[pid], first) /\ Staged(procs'[pid])
<1>1. CASE Becomes(pid, Process("start", procs[pid].key, "lock"))
  <2>1. Process("start", procs[pid].key, "lock").pc = "lock"
    BY DEF Process
  <2> QED BY <1>1, <2>1, BecomesLemma DEF Migrates, Staged
<1>2. CASE Becomes(pid, [procs[pid] EXCEPT !.pc = "custody", !.seen = Listed(pid), !.at = procs[pid].at + 1])
  <2>1. procs'[pid].pc = "custody" /\ procs'[pid].key = procs[pid].key
    BY <1>2, NotesNext
  <2> QED BY <2>1 DEF Migrates, Staged
<1> QED BY <1>1, <1>2 DEF NextSecret

\* The migration passes what opens with its key, and stops at what is to be sealed.
LEMMA CustodySealed ==
  ASSUME DirTypeOK, SealedInv, NEW pid \in DOMAIN procs, Custody(pid)
  PROVE  SealedInv'
<1> DEFINE o == procs[pid]
<1>1. /\ PidNext(pid) /\ UNCHANGED <<secrets, saved>> /\ o.cmd = "start" /\ o.pc = "custody"
      /\ o.at \in Nat \ {0} /\ Migrates(o, secrets[1]) /\ ProcsOK
  BY ProcLemma DEF PidNext, Custody, At, DirTypeOK, SealedInv
<1>2. o.at = 1 \/ o.at > 1
  BY <1>1
<1>3. CASE Goes(pid, "ended")
  <2>1. procs'[pid].pc = "ended"
    BY <1>1, <1>3, GoesTo, StepNames
  <2> QED BY <1>1, <2>1, QuietSecrets DEF Migrates, Staged
<1>4. CASE Becomes(pid, [o EXCEPT !.pc = "seal", !.seen = Listed(pid)])
  <2>1. /\ procs'[pid].pc = "seal" /\ procs'[pid].cmd = o.cmd /\ procs'[pid].key = o.key
        /\ procs'[pid].at = o.at
    BY <1>4, NotesSeen
  <2> QED BY <1>1, <2>1, QuietSecrets DEF Migrates, Staged
<1>5. CASE NextSecret(pid) /\ Opens(secrets[o.at], o.key) /\ ~ Unsealed(pid)
  <2>1. o.key # NoKey => secrets[1] = o.key
    BY <1>1, <1>2, <1>5 DEF Opens, Unsealed, Migrates
  <2> QED BY <1>1, <1>5, <2>1, NextSealed, QuietSecrets
<1> QED BY <1>3, <1>4, <1>5 DEF Custody

\* What is still plain is sealed, with the key that the first file has.
LEMMA SealsSealed ==
  ASSUME DirTypeOK, SealedInv, NEW pid \in DOMAIN procs, AtFirst(procs[pid]), Seals(pid),
         "secret" \notin crossed'
  PROVE  SealedInv'
<1> DEFINE o == procs[pid]  at == o.at  key == o.key
<1>1. /\ PidNext(pid) /\ UNCHANGED saved /\ at \in DOMAIN secrets /\ o.pc \in {"seal", "reseal"}
      /\ secrets' = [secrets EXCEPT ![at] = key]
  BY DEF PidNext, Seals, There, Replaces
<1>2. /\ key \in Keys /\ key # NoKey /\ key # Plain /\ secrets \in Seq(Secret) /\ at \in Nat \ {0}
      /\ 1 \in DOMAIN secrets /\ ProcsOK
  BY <1>1, ProcLemma, Constants DEF DirTypeOK, SecretsOK
<1>3. secrets[at] = Plain
  BY DEF Seals, Crosses
<1>4. /\ DOMAIN secrets' = DOMAIN secrets /\ secrets'[at] = key
      /\ \A i \in DOMAIN secrets \ {at} : secrets'[i] = secrets[i]
  BY <1>1, <1>2
<1>5. Good(secrets) /\ Migrates(o, secrets[1])
  BY DEF SealedInv
<1>6. at = 1 \/ (at > 1 /\ secrets[1] = key /\ o.cmd = "start" /\ o.pc = "seal")
  BY <1>1, <1>2, <1>5 DEF AtFirst, Migrates
<1>7. secrets'[1] = key /\ Good(secrets')
  BY <1>2, <1>3, <1>4, <1>5, <1>6 DEF Good
<1>8. secrets'[1] = secrets[1] \/ secrets[1] = Plain
  BY <1>3, <1>6, <1>7
<1>9. Migrates(procs'[pid], secrets'[1]) /\ Staged(procs'[pid])
  <2>1. CASE NextSecret(pid) /\ o.cmd = "start"
    BY <1>7, <2>1, NextSealed
  <2>2. CASE \E pc \in {"serve", "write"} : Goes(pid, pc)
    BY <2>2, GoesSealed DEF Steps
  <2> QED BY <2>1, <2>2 DEF Seals
<1>10. \A k \in DOMAIN saved' : Good(saved'[k].secrets)
  BY <1>1 DEF SealedInv
<1> QED BY <1>1, <1>7, <1>8, <1>9, <1>10, SealedStep

\* enroll and revoke write the file as they have read it, and a new one like it.
LEMMA GrantSealed ==
  ASSUME DirTypeOK, SealedInv, NEW pid \in DOMAIN procs, AtFirst(procs[pid]),
         WriteGrants(pid) \/ WriteConfig(pid), "secret" \notin crossed'
  PROVE  SealedInv'
<1>1. PidNext(pid) /\ UNCHANGED saved /\ secrets \in Seq(Secret) /\ Good(secrets)
  BY DEF PidNext, WriteGrants, WriteConfig, DirTypeOK, SecretsOK, SealedInv
<1>2. secrets[1] = WrittenWith(procs[pid].key) /\ WrittenWith(procs[pid].key) \in Secret
  BY ProcLemma, WrittenWithLemma DEF WriteGrants, WriteConfig, Changed, Crosses, DirTypeOK
<1>3. Good(secrets') /\ (secrets'[1] = secrets[1])
  <2>1. CASE WriteGrants(pid)
    <3>1. secrets' = [secrets EXCEPT ![1] = secrets[1]]
      BY <1>2, <2>1 DEF WriteGrants, Replaces
    <3>2. secrets' = secrets
      BY <1>1, <3>1
    <3> QED BY <1>1, <3>2
  <2>2. CASE WriteConfig(pid)
    <3> DEFINE s == WrittenWith(procs[pid].key)
    <3>1. secrets' = Append(secrets, s)
      BY <2>2 DEF WriteConfig
    <3>2. s = secrets[1] /\ s \in Secret
      BY <1>2
    <3> HIDE DEF s
    <3>3. /\ DOMAIN secrets' = DOMAIN secrets \cup {Len(secrets) + 1} /\ Len(secrets) \in Nat
          /\ secrets'[Len(secrets) + 1] = s
          /\ \A i \in DOMAIN secrets : secrets'[i] = secrets[i]
          /\ Len(secrets) # 0 => 1 \in DOMAIN secrets
      BY <1>1, <3>1, <3>2
    <3>4. secrets'[1] = secrets[1]
      BY <3>2, <3>3
    <3> QED BY <1>1, <3>2, <3>3, <3>4 DEF Good
  <2> QED BY <2>1, <2>2
<1>4. Migrates(procs'[pid], secrets'[1]) /\ Staged(procs'[pid])
  <2>1. PICK pc \in {"config", "ended"} : Goes(pid, pc)
    BY DEF WriteGrants, WriteConfig
  <2> QED BY <2>1, GoesSealed DEF Steps
<1>5. \A k \in DOMAIN saved' : Good(saved'[k].secrets)
  BY <1>1 DEF SealedInv
<1> QED BY <1>1, <1>3, <1>4, <1>5, SealedStep

\* A copy of one moment is as good as what it is of.
LEMMA CopySealed ==
  ASSUME DirTypeOK, SealedInv, NEW pid \in DOMAIN procs, AtFirst(procs[pid]),
         CopiesSecret(pid) \/ CopiesJournal(pid), "secret" \notin crossed'
  PROVE  SealedInv'
<1> DEFINE o == procs[pid]  at == o.at  sofar == SoFar(pid)
<1>1. /\ PidNext(pid) /\ UNCHANGED secrets /\ secrets \in Seq(Secret) /\ Good(secrets) /\ ProcsOK
      /\ at \in Nat \ {0} /\ sofar \in Copy /\ SecretsOK /\ o.pc = "copying"
  BY ProcLemma, SoFarLemma DEF PidNext, CopiesSecret, CopiesJournal, At, DirTypeOK, SecretsOK, SealedInv
<1>2. Good(sofar.secrets)
  <2>1. Good(NoCopy.secrets)
    BY DEF NoCopy, Good
  <2> QED BY <2>1 DEF SoFar, SealedInv
<1>3. ASSUME NEW c, Good(c.secrets), Copied(pid, c) PROVE \A k \in DOMAIN saved' : Good(saved'[k].secrets)
  BY <1>3 DEF Copied, SealedInv
<1>4. CASE UNCHANGED saved /\ Goes(pid, "ended")
  <2>1. Migrates(procs'[pid], secrets'[1]) /\ Staged(procs'[pid])
    BY <1>4, GoesSealed DEF Steps
  <2> QED BY <1>1, <1>4, <2>1, QuietSecrets
<1>5. CASE CopiesSecret(pid) /\ There(pid)
  <2> DEFINE s == Append(sofar.secrets, secrets[at])
             c == [sofar EXCEPT !.secrets = s]
  <2>1. at \in DOMAIN secrets /\ Copied(pid, c) /\ SubSeq(secrets, 1, at - 1) = sofar.secrets
    BY <1>5 DEF CopiesSecret, There, Crosses
  <2>2. c.secrets = s
    BY <1>1 DEF Copy
  <2>3. Good(s)
    <3> DEFINE t == sofar.secrets
    <3>1. /\ t \in Seq(Secret) /\ Len(t) = at - 1 /\ at - 1 \in Nat
          /\ \A i \in 1..(at - 1) : t[i] = secrets[i]
      <4> DEFINE m == at - 1
      <4>1. at \in 1..Len(secrets) /\ Len(secrets) \in Nat
        BY <1>1, <2>1
      <4>2. m \in Nat /\ m <= Len(secrets)
        BY <4>1
      <4>3. t = SubSeq(secrets, 1, m) /\ secrets \in Seq(Secret)
        BY <1>1, <2>1
      <4> HIDE DEF m, t
      <4>4. t \in Seq(Secret) /\ Len(t) = m /\ \A i \in 1..m : t[i] = secrets[i]
        BY ONLY <4>2, <4>3
      <4> QED BY <4>2, <4>4 DEF m
    <3>2. secrets[at] \in Secret
      BY <1>1, <2>1
    <3> HIDE DEF t
    <3>3. s = Append(t, secrets[at])
      BY DEF t
    <3> HIDE DEF s
    <3>4. DOMAIN s = 1..at /\ s[at] = secrets[at] /\ \A i \in 1..(at - 1) : s[i] = t[i]
      BY <1>1, <3>1, <3>2, <3>3
    <3>5. \A i \in 1..at : s[i] = secrets[i]
      <4>1. \A i \in 1..at : i = at \/ i \in 1..(at - 1)
        BY <1>1
      <4> QED BY <3>1, <3>4, <4>1
    <3>6. 1 \in 1..at /\ \A i \in 1..at : i \in DOMAIN secrets
      BY <1>1, <2>1
    <3> QED BY <1>1, <3>4, <3>5, <3>6 DEF Good
  <2> HIDE DEF c
  <2>4. \A k \in DOMAIN saved' : Good(saved'[k].secrets)
    BY <1>3, <2>1, <2>2, <2>3
  <2>5. procs'[pid].pc = "copying"
    <3>1. Becomes(pid, [o EXCEPT !.at = at + 1])
      BY <1>5 DEF CopiesSecret
    <3> QED BY <1>1, <3>1, NotesAt
  <2> QED BY <1>1, <2>4, <2>5, SealedStep DEF Migrates, Staged
<1>6. CASE CopiesJournal(pid) /\ dir
  <2> DEFINE c == [sofar EXCEPT !.file = file, !.returned = returned]
  <2>1. Copied(pid, c) /\ Goes(pid, "ended")
    BY <1>6 DEF CopiesJournal
  <2>2. c.secrets = sofar.secrets
    BY <1>1 DEF Copy
  <2> HIDE DEF c
  <2>3. \A k \in DOMAIN saved' : Good(saved'[k].secrets)
    BY <1>2, <1>3, <2>1, <2>2
  <2>4. Migrates(procs'[pid], secrets'[1]) /\ Staged(procs'[pid])
    BY <2>1, GoesSealed DEF Steps
  <2> QED BY <1>1, <2>3, <2>4, SealedStep
<1> QED BY <1>4, <1>5, <1>6 DEF CopiesSecret, CopiesJournal

\* restore picks a copy, and brings it back when no start is in its migration.
LEMMA RestoreSealed ==
  ASSUME DirTypeOK, SealedInv, NEW pid \in DOMAIN procs, AtFirst(procs[pid]),
         Stages(pid) \/ MovesAside(pid) \/ MovesIn(pid), "secret" \notin crossed'
  PROVE  SealedInv'
<1>1. PidNext(pid) /\ UNCHANGED saved /\ Good(secrets) /\ \A k \in DOMAIN saved : Good(saved[k].secrets)
  BY DEF PidNext, Stages, MovesAside, MovesIn, SealedInv
<1>2. CASE Stages(pid) /\ ~ Goes(pid, "ended")
  <2>1. PICK k \in DOMAIN saved : Becomes(pid, [procs[pid] EXCEPT !.pc = "staged", !.copy = saved[k]])
    BY <1>2 DEF Stages
  <2>2. procs'[pid].pc = "staged" /\ procs'[pid].copy = saved[k]
    BY <2>1, NotesCopy
  <2> QED BY <1>1, <1>2, <2>2, QuietSecrets DEF Stages, Migrates, Staged
<1>3. CASE Goes(pid, "ended") /\ UNCHANGED secrets
  <2>1. Migrates(procs'[pid], secrets'[1]) /\ Staged(procs'[pid])
    BY <1>3, GoesSealed DEF Steps
  <2> QED BY <1>1, <1>3, <2>1, QuietSecrets
<1>4. CASE MovesAside(pid)
  <2>1. Goes(pid, "between") /\ procs[pid].pc = "staged" /\ UNCHANGED secrets
    BY <1>4 DEF MovesAside, At
  <2>2. Migrates(procs'[pid], secrets'[1]) /\ Staged(procs'[pid])
    BY <2>1, GoesSealed DEF Steps
  <2> QED BY <1>1, <2>1, <2>2, QuietSecrets
<1>5. CASE MovesIn(pid) /\ ~ dir
  <2>1. /\ Goes(pid, "ended") /\ procs[pid].pc = "between" /\ ~ Starting
        /\ secrets' = procs[pid].copy.secrets
    BY <1>5 DEF MovesIn, At, Crosses
  <2>2. Good(secrets')
    BY <2>1 DEF SealedInv, Staged
  <2>3. Migrates(procs'[pid], secrets'[1]) /\ Staged(procs'[pid])
    BY <2>1, GoesSealed DEF Steps
  <2>4. \A q \in DOMAIN procs : procs[q].cmd # "start"
    BY <2>1 DEF Starting
  <2> QED BY <1>1, <2>2, <2>3, <2>4, SealedStep
<1> QED BY <1>2, <1>3, <1>4, <1>5 DEF Stages, MovesIn

\* Everything else leaves the secrets and the copies alone.
LEMMA OtherSealed ==
  ASSUME DirTypeOK, SealedInv, NEW pid \in DOMAIN procs, AtFirst(procs[pid]), PidNext(pid),
         ~ (Custody(pid) \/ Seals(pid) \/ WriteGrants(pid) \/ WriteConfig(pid)),
         ~ (CopiesSecret(pid) \/ CopiesJournal(pid) \/ Stages(pid) \/ MovesAside(pid) \/ MovesIn(pid))
  PROVE  SealedInv'
<1>1. UNCHANGED <<secrets, saved>>
  BY DEF PidNext, ReadSecret, ReadGrants, WritesNowhere,
         CreateLock, StampLock, StampFails, OpenJournal, Serve, StopHub, LooksRecover, Unlinks,
         LooksToArchive, LooksToBackup, LooksToRestore, LooksFor, Archives, Lists, Dies, stateVars
<1>2. CASE UNCHANGED procs
  BY <1>1, <1>2, QuietSecrets DEF SealedInv
<1>3. CASE \E pc \in Steps \ {"custody", "staged", "between"} :
             Goes(pid, pc) /\ (pc = "seal" => procs[pid].at = 1)
  <2>1. Migrates(procs'[pid], secrets'[1]) /\ Staged(procs'[pid])
    BY <1>3, GoesSealed
  <2> QED BY <1>1, <2>1, QuietSecrets
<1>4. CASE Remembers(pid) \/ (Lists(pid) /\ ~ Goes(pid, "ended"))
  <2>1. procs'[pid].pc \in {"act", "copying"}
    BY <1>4, NotesSeen DEF Remembers, Lists
  <2> QED BY <1>1, <2>1, QuietSecrets DEF Migrates, Staged
<1>5. CASE ReadSecret(pid)
  <2>1. procs[pid].at = 1
    BY <1>5 DEF ReadSecret, AtFirst
  <2> QED BY <1>3, <1>5, <2>1 DEF ReadSecret, Steps
<1>6. CASE ReadGrants(pid)
  BY <1>3, <1>6 DEF ReadGrants, Steps
<1> QED BY <1>1, <1>2, <1>3, <1>4, <1>5, <1>6
    DEF PidNext, ReadSecret, ReadGrants, WritesNowhere,
         CreateLock, StampLock, StampFails, OpenJournal, Serve, StopHub, LooksRecover, Unlinks,
         LooksToArchive, LooksToBackup, LooksToRestore, LooksFor, Archives, Lists, Dies, Steps, stateVars

\* Every step keeps the secrets invariant.
LEMMA SecretsStep ==
  ASSUME DirTypeOK, SecretsInv, [StateNext]_allVars
  PROVE  SecretsInv'
<1>1. CASE UNCHANGED allVars
  BY <1>1 DEF allVars, stateVars, SecretsInv, SealedInv
<1>2. CASE \E cmd \in Commands, key \in Keys \cup {NoKey} : Run(cmd, key)
  <2>1. PICK p \in Proc :
           /\ procs' = Append(procs, p) /\ p.at = 1 /\ p.pc \in {"custody", "read", "look"}
           /\ UNCHANGED <<dir, lock, secrets, aside, saved, remade, crossed, journalVars>>
    BY <1>2, RunsOn
  <2>2. /\ DOMAIN procs' = DOMAIN procs \cup {Len(procs) + 1}
        /\ procs'[Len(procs) + 1] = p /\ \A q \in DOMAIN procs : procs'[q] = procs[q]
    BY <2>1, OneMore DEF DirTypeOK, ProcsOK
  <2>3. AtFirst(p) /\ Migrates(p, secrets[1]) /\ Staged(p)
    BY <2>1 DEF AtFirst, Migrates, Staged
  <2>4. \A q \in DOMAIN procs' : AtFirst(procs'[q])
    BY <2>2, <2>3 DEF SecretsInv
  <2>5. SealedInv => SealedInv'
    BY <2>1, <2>2, <2>3 DEF SealedInv
  <2> QED BY <2>1, <2>4, <2>5 DEF SecretsInv
<1>3. ASSUME NEW pid \in DOMAIN procs, PidNext(pid) PROVE SecretsInv'
  <2>1. AtFirst(procs[pid])
    BY DEF SecretsInv
  <2>2. \A q \in DOMAIN procs' : AtFirst(procs'[q])
    BY <1>3, <2>1, AtFirstStep, OneSteps DEF SecretsInv
  <2>3. ASSUME "secret" \notin crossed' PROVE SealedInv'
    <3>1. SealedInv
      BY <2>3, CrossedGrows DEF SecretsInv
    <3>2. CASE Custody(pid)
      BY <3>1, <3>2, CustodySealed
    <3>3. CASE Seals(pid)
      BY <2>1, <2>3, <3>1, <3>3, SealsSealed
    <3>4. CASE WriteGrants(pid) \/ WriteConfig(pid)
      BY <2>1, <2>3, <3>1, <3>4, GrantSealed
    <3>5. CASE CopiesSecret(pid) \/ CopiesJournal(pid)
      BY <2>1, <2>3, <3>1, <3>5, CopySealed
    <3>6. CASE Stages(pid) \/ MovesAside(pid) \/ MovesIn(pid)
      BY <2>1, <2>3, <3>1, <3>6, RestoreSealed
    <3> QED BY <1>3, <2>1, <3>1, <3>2, <3>3, <3>4, <3>5, <3>6, OtherSealed
  <2> QED BY <2>2, <2>3 DEF SecretsInv
<1> QED BY <1>1, <1>2, <1>3 DEF StateNext, PidNext

\* The secrets invariant holds at the start.
LEMMA SecretsInit == StateInit => SecretsInv
<1> SUFFICES ASSUME StateInit PROVE SecretsInv
  OBVIOUS
<1>1. PICK key \in Keys \cup {NoKey} : secrets = [i \in 1..Secrets |-> WrittenWith(key)]
  BY DEF StateInit
<1>2. 1 \in 1..Secrets
  BY Constants
<1>3. Good(secrets)
  BY <1>1, <1>2 DEF Good
<1>4. DOMAIN procs = {} /\ DOMAIN saved = {}
  BY DEF StateInit
<1> QED BY <1>3, <1>4 DEF SecretsInv, SealedInv

\* One key opens all secrets, in the directory and in each of its copies, whatever keys
\* the commands were given and wherever a migration stopped, until a command replaces a
\* secret that had been replaced since it was read, or copies secrets of two moments.
THEOREM SecretsHaveOneKey == StateSpec => []SecretsOpen
<1>1. DirTypeOK /\ SecretsInv /\ [StateNext]_allVars => (DirTypeOK /\ SecretsInv)'
  BY TypeNext, SecretsStep
<1>2. SecretsInv => SecretsOpen
  BY DEF SecretsInv, SealedInv, Good, SecretsOpen, OneKey
<1> QED BY <1>1, <1>2, TypeInit, SecretsInit, PTL DEF StateSpec

-----------------------------------------------------------------------------
(* The journal *)

\* What is accepted of a journal is what its callers were told, and at most one more.
Story(f, told) ==
  Accepted(f) => Replay(f) = told \/ \E e \in Event : Replay(f) = Append(told, e)

\* No hub has more in memory than the file has lines, and one that has just as much has
\* what was returned.
Knows ==
  Accepted(file) => \A h \in DOMAIN events :
    Len(events[h]) <= Len(file) /\ (Replay(file) = events[h] => returned = events[h])

StoryInv ==
  /\ Story(file, returned) /\ Knows
  /\ \A k \in DOMAIN saved : Story(saved[k].file, saved[k].returned)
  /\ \A pid \in DOMAIN procs : procs[pid].pc \in {"staged", "between"} =>
       Story(procs[pid].copy.file, procs[pid].copy.returned)

\* Only hubs have a journal open.
Serving ==
  \A h \in DOMAIN events :
    h \in DOMAIN procs /\ procs[h].cmd = "start" /\ procs[h].pc \in {"serve", "reseal"}

HistoryInv ==
  /\ ~ dir => file = <<>>
  /\ Serving
  /\ "journal" \notin crossed => StoryInv

\* No journal is lost by the step.
Survive == \A f \in Journals : \E g \in Journals' : Continues(f, g)

\* An empty file tells no event.
LEMMA EmptyStory == Story(<<>>, <<>>)
<1>1. Replay(<<>>) = <<>>
  BY DEF Replay
<1> QED BY <1>1 DEF Story

\* No journal is lost when none is touched.
LEMMA SurviveSame == JournalsOK /\ UNCHANGED <<file, aside>> => Survive
BY ContinuesSame DEF JournalsOK, Survive, Journals

\* Nor when the live one is written to, or was none, or is set aside.
LEMMA SurviveStep ==
  ASSUME JournalsOK, JournalsOK',
         \/ Continues(file, file') /\ UNCHANGED aside
         \/ file = <<>> /\ UNCHANGED aside
         \/ aside' = aside \cup {file}
  PROVE  Survive
<1>1. file \in Seq(Line) /\ file' \in Seq(Line) /\ aside \in SUBSET Seq(Line)
  BY DEF JournalsOK
<1>2. file = <<>> => Continues(file, file')
  BY <1>1 DEF Continues
<1> QED BY <1>1, <1>2, ContinuesSame DEF Survive, Journals

\* What the step of one process does to the journals.
LEMMA FileSteps ==
  ASSUME DirTypeOK, NEW pid \in DOMAIN procs, PidNext(pid)
  PROVE  \/ UNCHANGED <<file, returned, events, aside, dir>>
         \/ Serve(pid) \/ OpenJournal(pid) \/ StopHub(pid) \/ Dies(pid)
         \/ Archives(pid) \/ MovesAside(pid) \/ MovesIn(pid)
BY DEF PidNext, Custody, ReadSecret, ReadGrants, Seals, WriteGrants, WriteConfig, WritesNowhere,
         CreateLock, StampLock, StampFails, LooksRecover, Unlinks,
         LooksToArchive, LooksToBackup, LooksToRestore, LooksFor, Lists, CopiesSecret,
         CopiesJournal, Stages, journalVars

\* A hub writes while it serves, and while the directory is there.
LEMMA WritesLemma ==
  ASSUME DirTypeOK, NEW pid \in DOMAIN procs, Serve(pid) \/ StopHub(pid) \/ Dies(pid)
  PROVE  /\ UNCHANGED <<dir, aside>>
         /\ \/ UNCHANGED <<file, returned, events>>
            \/ Forgets(pid) /\ UNCHANGED <<file, returned>>
            \/ /\ pid \in DOMAIN events /\ dir /\ UNCHANGED returned
               /\ Forgets(pid) \/ UNCHANGED events
               /\ \E e \in Event, kind \in {"whole", "torn"} : file' = Written(file, NewLine(pid, kind, e))
            \/ /\ pid \in DOMAIN events /\ dir
               /\ \E e \in Event : AppendReturns(pid, e)
<1>1. CASE Serve(pid)
  BY <1>1 DEF Serve, AppendThrows, AppendReturns, Running, stateVars
<1>2. CASE StopHub(pid)
  BY <1>2 DEF StopHub
<1>3. CASE Dies(pid)
  <2>1. CASE Running(pid)
    <3>1. UNCHANGED <<dir, aside, returned>> /\ Forgets(pid) /\ (file' # file => dir)
          /\ pid \in DOMAIN events
      BY <1>3, <2>1 DEF Dies, Crash, Running
    <3>2. file' = file \/ \E e \in Event, kind \in {"torn", "whole"} : file' = Written(file, NewLine(pid, kind, e))
      BY <1>3, <2>1 DEF Dies, Crash
    <3>3. CASE file' = file
      BY <3>1, <3>3
    <3>4. CASE file' # file
      BY <3>1, <3>2, <3>4
    <3> QED BY <3>3, <3>4
  <2>2. CASE ~ Running(pid)
    BY <1>3, <2>2 DEF Dies, journalVars
  <2> QED BY <2>1, <2>2
<1> QED BY <1>1, <1>2, <1>3

\* No step loses a journal.
LEMMA SurviveNext ==
  ASSUME DirTypeOK, ~ dir => file = <<>>, NEW pid \in DOMAIN procs, PidNext(pid)
  PROVE  Survive
<1>1. JournalsOK /\ JournalsOK' /\ file \in Seq(Line)
  BY JournalsTyped DEF DirTypeOK, JournalsOK
<1>2. CASE UNCHANGED <<file, aside>>
  BY <1>1, <1>2, SurviveSame
<1>3. CASE Serve(pid) \/ StopHub(pid) \/ Dies(pid)
  <2>1. CASE pid \in DOMAIN events /\ \E e \in Event, kind \in {"whole", "torn"} :
                file' = Written(file, NewLine(pid, kind, e))
    <3>1. Continues(file, file')
      BY <1>1, <2>1, WrittenLemma
    <3>2. UNCHANGED aside
      BY <1>3, WritesLemma
    <3> QED BY <1>1, <3>1, <3>2, SurviveStep
  <2>2. (\E e \in Event : AppendReturns(pid, e))
        => \E e \in Event, kind \in {"whole", "torn"} : file' = Written(file, NewLine(pid, kind, e))
    BY DEF AppendReturns
  <2> QED BY <1>2, <1>3, <2>1, <2>2, WritesLemma
<1>4. CASE OpenJournal(pid)
  BY <1>2, <1>4 DEF OpenJournal, Open, journalVars
<1>5. CASE Archives(pid) \/ MovesAside(pid)
  <2>1. UNCHANGED <<file, aside>> \/ aside' = aside \cup {file} \/ (file = <<>> /\ UNCHANGED aside)
    BY <1>5 DEF Archives, MovesAside, Archive, journalVars
  <2> QED BY <1>1, <1>2, <2>1, SurviveStep
<1>6. CASE MovesIn(pid)
  <2>1. UNCHANGED aside /\ (UNCHANGED file \/ ~ dir)
    BY <1>6 DEF MovesIn
  <2> QED BY <1>1, <1>2, <2>1, SurviveStep
<1> QED BY <1>2, <1>3, <1>4, <1>5, <1>6, FileSteps

\* Without the directory there is no journal.
LEMMA EmptiedNext ==
  ASSUME DirTypeOK, ~ dir => file = <<>>, NEW pid \in DOMAIN procs, PidNext(pid)
  PROVE  ~ dir' => file' = <<>>
<1>1. CASE Serve(pid) \/ StopHub(pid) \/ Dies(pid)
  BY <1>1, WritesLemma DEF AppendReturns
<1>2. CASE OpenJournal(pid) \/ Archives(pid) \/ MovesAside(pid) \/ MovesIn(pid)
  BY <1>2 DEF OpenJournal, Open, Archives, Archive, MovesAside, MovesIn, journalVars
<1>3. CASE UNCHANGED <<file, dir>>
  BY <1>3
<1> QED BY <1>1, <1>2, <1>3, FileSteps

\* A hub that goes on serving keeps its journal, one that does not has given it up.
LEMMA ServingNext ==
  ASSUME DirTypeOK, Serving, NEW pid \in DOMAIN procs, PidNext(pid)
  PROVE  Serving'
<1>1. /\ DOMAIN procs' = DOMAIN procs /\ Succeeds(procs[pid], procs'[pid])
      /\ \A q \in DOMAIN procs \ {pid} : procs'[q] = procs[q]
  BY OneSteps
<1>2. ProcsOK
  BY DEF DirTypeOK
<1>3. DOMAIN events' \subseteq DOMAIN events \cup {pid}
  <2>1. CASE Serve(pid) \/ StopHub(pid) \/ Dies(pid)
    BY <2>1, WritesLemma DEF AppendReturns, Forgets
  <2>2. CASE OpenJournal(pid) \/ Archives(pid) \/ MovesAside(pid) \/ MovesIn(pid)
    BY <2>2 DEF OpenJournal, Open, Archives, Archive, MovesAside, MovesIn, journalVars
  <2> QED BY <2>1, <2>2, FileSteps
<1>4. ASSUME pid \in DOMAIN events' PROVE procs'[pid].cmd = "start" /\ procs'[pid].pc \in {"serve", "reseal"}
  <2>1. CASE OpenJournal(pid)
    <3>1. procs[pid].cmd = "start"
      BY <2>1 DEF OpenJournal, At
    <3>2. CASE Goes(pid, "serve")
      <4>1. procs'[pid].pc = "serve"
        BY <1>2, <3>2, GoesTo, StepNames
      <4> QED BY <1>1, <3>1, <4>1 DEF Succeeds
    <3>3. CASE UNCHANGED journalVars
      BY <1>4, <2>1, <3>3 DEF journalVars, Serving, OpenJournal, At
    <3> QED BY <2>1, <3>2, <3>3 DEF OpenJournal
  <2>2. CASE ~ OpenJournal(pid)
    <3>1. pid \in DOMAIN events
      <4>1. CASE Serve(pid) \/ StopHub(pid) \/ Dies(pid)
        BY <1>4, <4>1, WritesLemma DEF AppendReturns, Forgets
      <4>2. CASE Archives(pid) \/ MovesAside(pid) \/ MovesIn(pid)
        BY <1>4, <4>2 DEF Archives, Archive, MovesAside, MovesIn, journalVars
      <4> QED BY <1>4, <2>2, <4>1, <4>2, FileSteps
    <3>2. procs[pid].cmd = "start" /\ procs[pid].pc \in {"serve", "reseal"}
      BY <3>1 DEF Serving
    <3>3. ~ (StopHub(pid) \/ Dies(pid))
      <4>1. StopHub(pid) \/ Dies(pid) => Forgets(pid)
        BY <3>1 DEF StopHub, Dies, Crash, Running
      <4> QED BY <1>4, <4>1 DEF Forgets
    <3>4. \/ UNCHANGED procs
          \/ Goes(pid, "reseal") \/ Goes(pid, "serve")
      BY <3>2, <3>3, <2>2 DEF PidNext, Custody, ReadSecret, ReadGrants, Seals, WriteGrants, WriteConfig,
         WritesNowhere, CreateLock, StampLock, StampFails, Serve, LooksRecover, Unlinks,
         LooksToArchive, LooksToBackup, LooksToRestore, LooksFor, Archives, Lists, CopiesSecret,
         CopiesJournal, Stages, MovesAside, MovesIn, At, stateVars
    <3>5. ASSUME NEW pc \in {"reseal", "serve"}, Goes(pid, pc) PROVE procs'[pid].pc = pc
      BY <1>2, <3>5, GoesTo, StepNames
    <3>6. procs'[pid].pc \in {"serve", "reseal"}
      BY <3>2, <3>4, <3>5
    <3> QED BY <1>1, <3>2, <3>6 DEF Succeeds
  <2> QED BY <2>1, <2>2
<1>5. ASSUME NEW h \in DOMAIN events', h # pid
      PROVE  h \in DOMAIN procs' /\ procs'[h].cmd = "start" /\ procs'[h].pc \in {"serve", "reseal"}
  BY <1>1, <1>3, <1>5 DEF Serving
<1> QED BY <1>1, <1>4, <1>5 DEF Serving

\* An append that throws, or a death: no hub knows as much as the file has now.
LEMMA ThrowsStory ==
  ASSUME DirTypeOK, JournalsOK', Story(file, returned), Knows, NEW h \in DOMAIN events,
         NEW e \in Event, NEW kind \in {"whole", "torn"},
         file' = Written(file, NewLine(h, kind, e)), UNCHANGED returned,
         Forgets(h) \/ UNCHANGED events
  PROVE  Story(file', returned') /\ Knows'
<1>1. /\ JournalsOK /\ file \in Seq(Line) /\ file' \in Seq(Line) /\ Len(file) \in Nat
      /\ \A g \in DOMAIN events : Len(events[g]) \in Nat
  BY DEF DirTypeOK, JournalsOK
<1>2. Accepted(file') => /\ Accepted(file) /\ Replay(file) = events[h]
                         /\ Len(file') = Len(file) + 1
                         /\ Replay(file') = Append(events[h], e)
  BY <1>1, WrittenLemma
<1>3. Accepted(file') => returned = events[h] /\ \A g \in DOMAIN events : Len(events[g]) <= Len(file)
  BY <1>2 DEF Knows
<1>4. Story(file', returned')
  BY <1>2, <1>3 DEF Story
<1>5. ASSUME Accepted(file'), NEW g \in DOMAIN events'
      PROVE  Len(events'[g]) <= Len(file') /\ (Replay(file') = events'[g] => returned' = events'[g])
  <2>1. g \in DOMAIN events /\ events'[g] = events[g]
    BY <1>5 DEF Forgets
  <2>2. Len(events[g]) <= Len(file) /\ Len(file') = Len(file) + 1 /\ Len(events[g]) \in Nat
    BY <1>1, <1>2, <1>3, <1>5, <2>1
  <2>3. Len(Replay(file')) = Len(file')
    BY <1>1, ReplayType
  <2> QED BY <1>1, <2>1, <2>2, <2>3
<1>6. Knows'
  BY <1>5 DEF Knows
<1> QED BY <1>4, <1>6

\* An append that returns.
LEMMA ReturnsStory ==
  ASSUME DirTypeOK, JournalsOK', Story(file, returned), Knows, NEW h \in DOMAIN events,
         NEW e \in Event, AppendReturns(h, e)
  PROVE  Story(file', returned') /\ Knows'
<1>1. /\ JournalsOK /\ file \in Seq(Line) /\ file' \in Seq(Line) /\ Len(file) \in Nat
      /\ \A g \in DOMAIN events : Len(events[g]) \in Nat /\ events[g] \in Seq(Event)
  BY DEF DirTypeOK, JournalsOK
<1>2. /\ file' = Written(file, NewLine(h, "whole", e)) /\ returned' = Append(returned, e)
      /\ events' = [events EXCEPT ![h] = Append(events[h], e)]
  BY DEF AppendReturns
<1>3. Accepted(file') => /\ Accepted(file) /\ Replay(file) = events[h]
                         /\ Len(file') = Len(file) + 1
                         /\ Replay(file') = Append(events[h], e)
  BY <1>1, <1>2, WrittenLemma
<1>4. Accepted(file') => returned = events[h] /\ \A g \in DOMAIN events : Len(events[g]) <= Len(file)
  BY <1>3 DEF Knows
<1>5. Story(file', returned')
  BY <1>2, <1>3, <1>4 DEF Story
<1>6. ASSUME Accepted(file'), NEW g \in DOMAIN events'
      PROVE  Len(events'[g]) <= Len(file') /\ (Replay(file') = events'[g] => returned' = events'[g])
  <2>1. Len(Replay(file')) = Len(file')
    BY <1>1, ReplayType
  <2>2. CASE g = h
    <3>1. events'[h] = Append(events[h], e)
      BY <1>2
    <3>2. events'[h] = returned' /\ events'[h] = Replay(file')
      BY <1>2, <1>3, <1>4, <1>6, <3>1
    <3> QED BY <1>1, <2>1, <2>2, <3>2
  <2>3. CASE g # h
    <3>1. g \in DOMAIN events /\ events'[g] = events[g]
      BY <1>2, <2>3
    <3>2. Len(events[g]) <= Len(file) /\ Len(file') = Len(file) + 1 /\ Len(events[g]) \in Nat
      BY <1>1, <1>3, <1>4, <1>6, <3>1
    <3> QED BY <1>1, <2>1, <3>1, <3>2
  <2> QED BY <2>2, <2>3
<1>7. Knows'
  BY <1>6 DEF Knows
<1> QED BY <1>5, <1>7

\* A start knows all that is in the file.
LEMMA OpenStory ==
  ASSUME DirTypeOK, Knows, NEW h, Open(h)
  PROVE  Story(file', returned') /\ Knows'
<1>1. JournalsOK /\ file \in Seq(Line) /\ Len(Replay(file)) = Len(file) /\ Len(file) \in Nat
  BY ReplayType DEF DirTypeOK, JournalsOK
<1>2. /\ UNCHANGED file /\ returned' = Replay(file) /\ Accepted(file)
      /\ events' = [g \in DOMAIN events \cup {h} |-> IF g = h THEN Replay(file) ELSE events[g]]
  BY DEF Open
<1>3. ASSUME NEW g \in DOMAIN events'
      PROVE  Len(events'[g]) <= Len(file) /\ (Replay(file) = events'[g] => returned' = events'[g])
  <2>1. CASE g = h
    BY <1>1, <1>2, <2>1
  <2>2. CASE g # h
    <3>1. g \in DOMAIN events /\ events'[g] = events[g]
      BY <1>2, <1>3, <2>2
    <3> QED BY <1>2, <3>1 DEF Knows
  <2> QED BY <2>1, <2>2
<1>4. Knows'
  BY <1>2, <1>3 DEF Knows
<1> QED BY <1>2, <1>4 DEF Story

\* Every step of a process keeps what the live journal tells.
LEMMA LiveStory ==
  ASSUME DirTypeOK, DirTypeOK', HistoryInv, StoryInv, NEW pid \in DOMAIN procs, PidNext(pid),
         "journal" \notin crossed'
  PROVE  Story(file', returned') /\ Knows'
<1>1. JournalsOK' /\ Story(file, returned) /\ Knows /\ Serving
  BY DEF DirTypeOK, StoryInv, HistoryInv
<1>2. CASE UNCHANGED <<file, returned, events>>
  BY <1>1, <1>2 DEF Knows
<1>3. CASE Serve(pid) \/ StopHub(pid) \/ Dies(pid)
  <2>1. CASE Forgets(pid) /\ UNCHANGED <<file, returned>>
    BY <1>1, <2>1 DEF Knows, Forgets
  <2>2. CASE /\ pid \in DOMAIN events /\ UNCHANGED returned
             /\ Forgets(pid) \/ UNCHANGED events
             /\ \E e \in Event, kind \in {"whole", "torn"} : file' = Written(file, NewLine(pid, kind, e))
    BY <1>1, <2>2, ThrowsStory
  <2>3. CASE pid \in DOMAIN events /\ \E e \in Event : AppendReturns(pid, e)
    BY <1>1, <2>3, ReturnsStory
  <2> QED BY <1>2, <1>3, <2>1, <2>2, <2>3, WritesLemma
<1>4. CASE OpenJournal(pid)
  BY <1>1, <1>2, <1>4, OpenStory DEF OpenJournal, journalVars
<1>5. CASE Archives(pid) \/ MovesAside(pid) \/ MovesIn(pid)
  <2>1. CASE ~ Starting
    <3>1. DOMAIN events = {}
      BY <1>1, <2>1 DEF Serving, Starting
    <3>2. DOMAIN events' = {}
      BY <1>5, <3>1 DEF Archives, Archive, MovesAside, MovesIn, journalVars
    <3>3. Knows'
      BY <3>2 DEF Knows
    <3>4. Story(file', returned')
      <4>1. \/ UNCHANGED <<file, returned>> \/ (file' = <<>> /\ returned' = <<>>)
            \/ /\ MovesIn(pid) /\ procs[pid].pc = "between"
               /\ file' = procs[pid].copy.file /\ returned' = procs[pid].copy.returned
        BY <1>5 DEF Archives, Archive, MovesAside, MovesIn, At, journalVars
      <4> QED BY <1>1, <4>1, EmptyStory DEF StoryInv
    <3> QED BY <3>3, <3>4
  <2>2. CASE Starting
    <3>1. Archives(pid) /\ UNCHANGED journalVars
      BY <1>5, <2>2 DEF Archives, MovesAside, MovesIn, Crosses
    <3> QED BY <1>2, <3>1 DEF journalVars
  <2> QED BY <2>1, <2>2
<1> QED BY <1>2, <1>3, <1>4, <1>5, FileSteps

\* And what the copies tell.
LEMMA CopiesStory ==
  ASSUME DirTypeOK, StoryInv, NEW pid \in DOMAIN procs, PidNext(pid)
  PROVE  /\ \A k \in DOMAIN saved' : Story(saved'[k].file, saved'[k].returned)
         /\ \A q \in DOMAIN procs' : procs'[q].pc \in {"staged", "between"} =>
              Story(procs'[q].copy.file, procs'[q].copy.returned)
<1>1. /\ ProcsOK /\ SecretsOK /\ SoFar(pid) \in Copy
      /\ Story(file, returned) /\ \A k \in DOMAIN saved : Story(saved[k].file, saved[k].returned)
  BY SoFarLemma DEF DirTypeOK, StoryInv
<1>2. Story(SoFar(pid).file, SoFar(pid).returned)
  <2>1. NoCopy.file = <<>> /\ NoCopy.returned = <<>>
    BY DEF NoCopy
  <2>2. CASE pid \in DOMAIN saved
    BY <1>1, <2>2 DEF SoFar
  <2>3. CASE pid \notin DOMAIN saved
    BY <2>1, <2>3, EmptyStory DEF SoFar
  <2> QED BY <2>2, <2>3
<1>3. \A k \in DOMAIN saved' : Story(saved'[k].file, saved'[k].returned)
  <2>1. ASSUME NEW c, Story(c.file, c.returned), Copied(pid, c)
        PROVE  \A k \in DOMAIN saved' : Story(saved'[k].file, saved'[k].returned)
    BY <1>1, <2>1 DEF Copied
  <2>2. CASE UNCHANGED saved
    BY <1>1, <2>2
  <2>3. CASE CopiesSecret(pid) /\ ~ UNCHANGED saved
    <3> DEFINE s == Append(SoFar(pid).secrets, secrets[procs[pid].at])
               c == [SoFar(pid) EXCEPT !.secrets = s]
    <3>1. Copied(pid, c)
      BY <2>3 DEF CopiesSecret
    <3> HIDE DEF s
    <3>2. c.file = SoFar(pid).file /\ c.returned = SoFar(pid).returned
      BY <1>1 DEF Copy
    <3> HIDE DEF c
    <3> QED BY <1>2, <2>1, <3>1, <3>2
  <2>4. CASE CopiesJournal(pid) /\ ~ UNCHANGED saved
    <3> DEFINE c == [SoFar(pid) EXCEPT !.file = file, !.returned = returned]
    <3>1. Copied(pid, c)
      BY <2>4 DEF CopiesJournal
    <3>2. c.file = file /\ c.returned = returned
      BY <1>1 DEF Copy
    <3> HIDE DEF c
    <3> QED BY <1>1, <2>1, <3>1, <3>2
  <2>5. UNCHANGED saved \/ CopiesSecret(pid) \/ CopiesJournal(pid)
    BY DEF PidNext, Custody, ReadSecret, ReadGrants, Seals, WriteGrants, WriteConfig, WritesNowhere,
         CreateLock, StampLock, StampFails, OpenJournal, Serve, StopHub, LooksRecover, Unlinks,
         LooksToArchive, LooksToBackup, LooksToRestore, LooksFor, Archives, Lists,
         Stages, MovesAside, MovesIn, Dies, stateVars
  <2> QED BY <2>2, <2>3, <2>4, <2>5
<1>4. /\ DOMAIN procs' = DOMAIN procs /\ Succeeds(procs[pid], procs'[pid])
      /\ \A q \in DOMAIN procs \ {pid} : procs'[q] = procs[q]
  BY OneSteps
<1>5. ASSUME procs'[pid].pc \in {"staged", "between"}
      PROVE  Story(procs'[pid].copy.file, procs'[pid].copy.returned)
  <2>1. ASSUME NEW pc \in Steps, Goes(pid, pc) PROVE procs'[pid].pc = pc
    BY <1>1, <2>1, GoesTo
  <2>2. CASE MovesAside(pid)
    <3>1. procs'[pid].copy = procs[pid].copy /\ procs[pid].pc = "staged"
      BY <1>1, <2>2, GoesTo DEF MovesAside, At, Steps
    <3> QED BY <3>1 DEF StoryInv
  <2>3. CASE Stages(pid) /\ ~ Goes(pid, "ended")
    <3>1. PICK k \in DOMAIN saved : Becomes(pid, [procs[pid] EXCEPT !.pc = "staged", !.copy = saved[k]])
      BY <2>3 DEF Stages
    <3>2. procs'[pid].copy = saved[k]
      BY <3>1, NotesCopy
    <3> QED BY <1>1, <3>2
  <2>4. CASE UNCHANGED procs
    BY <1>5, <2>4 DEF StoryInv
  <2>5. CASE \E pc \in Steps \ {"staged", "between"} : Goes(pid, pc)
    BY <1>5, <2>1, <2>5
  <2>6. CASE Custody(pid) \/ (NextSecret(pid) /\ procs[pid].cmd = "start")
    <3>1. CASE NextSecret(pid) /\ procs[pid].cmd = "start"
      <4>1. procs'[pid].pc \in {"custody", "lock"}
        <5>1. PICK p \in Proc :
                /\ procs' = [procs EXCEPT ![pid] = p] /\ p.pc \in {"custody", "lock"}
                /\ p.cmd = "start" /\ p.key = procs[pid].key /\ (p.pc = "lock" => p.at = 1)
          BY <3>1, NextLemma
        <5> QED BY <1>1, <5>1, OneGoes DEF ProcsOK
      <4> QED BY <1>5, <4>1
    <3>2. CASE Becomes(pid, [procs[pid] EXCEPT !.pc = "seal", !.seen = Listed(pid)])
      <4>1. procs'[pid].pc = "seal"
        BY <3>2, NotesSeen
      <4> QED BY <1>5, <4>1
    <3> QED BY <2>5, <2>6, <3>1, <3>2 DEF Custody, At, Steps
  <2>7. CASE Remembers(pid) \/ (Lists(pid) /\ ~ Goes(pid, "ended"))
    <3>1. procs'[pid].pc \in {"act", "copying"}
      BY <2>7, NotesSeen DEF Remembers, Lists
    <3> QED BY <1>5, <3>1
  <2>8. CASE CopiesSecret(pid) /\ ~ Goes(pid, "ended")
    <3>1. procs'[pid].pc = "copying"
      BY <2>8, NotesAt DEF CopiesSecret, At
    <3> QED BY <1>5, <3>1
  <2>9. CASE ReadSecret(pid) \/ ReadGrants(pid) \/ Seals(pid)
    BY <2>5, <2>6, <2>9 DEF ReadSecret, ReadGrants, Seals, Steps
  <2>10. CASE PidNext(pid) /\ ~ (Custody(pid) \/ ReadSecret(pid) \/ ReadGrants(pid) \/ Seals(pid)
                                 \/ Stages(pid) \/ MovesAside(pid) \/ CopiesSecret(pid) \/ Lists(pid))
    <3>1. \/ UNCHANGED procs \/ Remembers(pid)
          \/ \E pc \in Steps \ {"staged", "between"} : Goes(pid, pc)
      BY <2>10 DEF PidNext, WriteGrants, WriteConfig, WritesNowhere,
         CreateLock, StampLock, StampFails, OpenJournal, Serve, StopHub, LooksRecover, Unlinks,
         LooksToArchive, LooksToBackup, LooksToRestore, LooksFor, Archives,
         CopiesJournal, MovesIn, Dies, Steps, stateVars
    <3> QED BY <2>4, <2>5, <2>7, <3>1
  <2>11. Goes(pid, "ended") => \E pc \in Steps \ {"staged", "between"} : Goes(pid, pc)
    BY DEF Steps
  <2> QED BY <2>2, <2>3, <2>5, <2>6, <2>7, <2>8, <2>9, <2>10, <2>11
<1> QED BY <1>3, <1>4, <1>5 DEF StoryInv

\* Every step keeps the history invariant, and loses no journal.
LEMMA HistoryStep ==
  ASSUME DirTypeOK, HistoryInv, [StateNext]_allVars
  PROVE  HistoryInv' /\ Survive
<1>1. CASE UNCHANGED allVars
  <2>1. UNCHANGED <<file, returned, events, dir, aside, saved, procs, crossed>>
    BY <1>1 DEF allVars, stateVars, journalVars
  <2>2. HistoryInv'
    BY <2>1 DEF HistoryInv, Serving, StoryInv, Knows
  <2> QED BY <2>1, <2>2, SurviveSame DEF DirTypeOK
<1>2. CASE \E cmd \in Commands, key \in Keys \cup {NoKey} : Run(cmd, key)
  <2>1. PICK p \in Proc :
           /\ procs' = Append(procs, p) /\ p.pc \in {"custody", "read", "look"}
           /\ UNCHANGED <<dir, lock, secrets, aside, saved, remade, crossed, journalVars>>
    BY <1>2, RunsOn
  <2>2. /\ DOMAIN procs' = DOMAIN procs \cup {Len(procs) + 1}
        /\ procs'[Len(procs) + 1] = p /\ \A q \in DOMAIN procs : procs'[q] = procs[q]
    BY <2>1, OneMore DEF DirTypeOK, ProcsOK
  <2>3. UNCHANGED <<file, returned, events, dir, aside, saved, crossed>>
    BY <2>1 DEF journalVars
  <2>4. Serving'
    BY <2>2, <2>3 DEF HistoryInv, Serving
  <2>5. StoryInv => StoryInv'
    BY <2>1, <2>2, <2>3 DEF StoryInv, Knows
  <2>6. HistoryInv'
    BY <2>3, <2>4, <2>5 DEF HistoryInv
  <2> QED BY <2>3, <2>6, SurviveSame DEF DirTypeOK
<1>3. ASSUME NEW pid \in DOMAIN procs, PidNext(pid) PROVE HistoryInv' /\ Survive
  <2>1. DirTypeOK'
    BY <1>3, TypeNext DEF StateNext, PidNext
  <2>2. ASSUME "journal" \notin crossed' PROVE StoryInv'
    <3>1. StoryInv
      BY <1>3, <2>2, CrossedGrows DEF HistoryInv, StateNext, PidNext
    <3> QED BY <1>3, <2>1, <2>2, <3>1, LiveStory, CopiesStory DEF StoryInv
  <2>3. (~ dir' => file' = <<>>) /\ Serving' /\ Survive
    BY <1>3, EmptiedNext, ServingNext, SurviveNext DEF HistoryInv
  <2> QED BY <2>2, <2>3 DEF HistoryInv
<1> QED BY <1>1, <1>2, <1>3 DEF StateNext, PidNext

\* The history invariant holds at the start.
LEMMA HistoryInit == StateInit => HistoryInv
<1> SUFFICES ASSUME StateInit PROVE HistoryInv
  OBVIOUS
<1>1. /\ DOMAIN procs = {} /\ DOMAIN saved = {} /\ DOMAIN events = {} /\ dir = TRUE
      /\ file = <<>> /\ returned = <<>>
  BY DEF StateInit, JournalInit
<1>2. StoryInv
  BY <1>1, EmptyStory DEF StoryInv, Knows
<1> QED BY <1>1, <1>2 DEF HistoryInv, Serving

\* What a start accepts is what was returned and at most the last append, in the live
\* directory and after any archive-journal, backup, restore and death, and even when two
\* hubs write to it, until a journal is exchanged under a hub.
THEOREM HistoryKept == StateSpec => []HistoryIsKept
<1>1. DirTypeOK /\ HistoryInv /\ [StateNext]_allVars => (DirTypeOK /\ HistoryInv)'
  BY TypeNext, HistoryStep
<1>2. HistoryInv => HistoryIsKept
  BY DEF HistoryInv, StoryInv, Story, HistoryIsKept, ReplayIsHistory
<1> QED BY <1>1, <1>2, TypeInit, HistoryInit, PTL DEF StateSpec

\* No command and no death destroys a journal, whatever else runs: the live one and those
\* set aside stay, each with at least the lines it had.
THEOREM JournalsNotLost == StateSpec => JournalsSurvive
<1>1. DirTypeOK /\ HistoryInv /\ [StateNext]_allVars => (DirTypeOK /\ HistoryInv)'
  BY TypeNext, HistoryStep
<1>2. DirTypeOK /\ HistoryInv /\ [StateNext]_allVars
      => [\A f \in Journals : \E g \in Journals' : Continues(f, g)]_allVars
  BY HistoryStep DEF Survive
<1> QED BY <1>1, <1>2, TypeInit, HistoryInit, PTL DEF StateSpec, JournalsSurvive

-----------------------------------------------------------------------------
(***************************************************************************)
(* The slots.  The inductive invariant says whose a slot is: what a living *)
(* worker holds, or is about to stamp, is its own, and nothing else is     *)
(* unless it has failed to take a slot.  Children run in workers that hold *)
(* as many slots as they need, and no two hold the same one.               *)
(***************************************************************************)

Pc == {"idle", "scans", "stamps", "clears", "waits", "yields", "runs", "gives", "dead"}
Job == [pc : Pc, kind : Kind, at : Nat, held : SUBSET Slot, aborted : BOOLEAN,
        killed : BOOLEAN, status : {0, 1, 75, 124, 127, 130}]

SlotsTypeOK ==
  /\ slot \in [Slot -> [by : Worker \cup {"nobody"}, stamped : BOOLEAN]]
  /\ job \in [Worker -> Job]
  /\ snatched \in BOOLEAN
  /\ failed \in SUBSET Worker

\* The slots a worker has made and not given back.
Has(w) == job[w].held \cup (IF job[w].pc = "stamps" THEN {job[w].at} ELSE {})

Owner(w) ==
  /\ \A i \in job[w].held : slot[i] = [by |-> w, stamped |-> TRUE]
  /\ job[w].pc = "stamps" => slot[job[w].at] = [by |-> w, stamped |-> FALSE]
  /\ w \notin failed => \A i \in Slot : slot[i].by = w => i \in Has(w)

Owned == ~ snatched => \A w \in Worker : LivingWorker(w) => Owner(w)

\* What the command of a worker has at the places where it matters.
Fitting(w) ==
  /\ job[w].pc \in {"stamps", "clears"} => job[w].at \in Slot
  /\ job[w].pc \in {"idle", "waits", "dead"} => job[w].held = {}
  /\ job[w].pc = "runs" => Cardinality(job[w].held) >= Need(w)

Nobody == \A i \in Slot : slot[i].by = "nobody" => slot[i] = FreeSlot

SlotsInv == SlotsTypeOK /\ Owned /\ Nobody /\ \A w \in Worker : Fitting(w)

-----------------------------------------------------------------------------
\* The slots invariant holds at the start.
LEMMA InitLemma == SlotsInit => SlotsInv
<1> SUFFICES ASSUME SlotsInit PROVE SlotsInv
  OBVIOUS
<1>1. NoJob \in Job /\ NoJob.pc = "idle" /\ NoJob.held = {}
  BY DEF NoJob, Job, Pc, Kind
<1>2. FreeSlot \in [by : Worker \cup {"nobody"}, stamped : BOOLEAN] /\ FreeSlot.by \notin Worker
  BY SlotsAssumption DEF FreeSlot
<1>3. SlotsTypeOK
  BY <1>1, <1>2 DEF SlotsInit, SlotsTypeOK
<1>4. \A w \in Worker : job[w].pc = "idle" /\ job[w].held = {}
  BY <1>1 DEF SlotsInit
<1>5. Owned
  BY <1>2, <1>4 DEF SlotsInit, Owned, Owner, Has
<1>6. Nobody
  BY DEF SlotsInit, Nobody
<1>7. \A w \in Worker : Fitting(w)
  BY <1>4 DEF Fitting
<1> QED BY <1>3, <1>5, <1>6, <1>7 DEF SlotsInv

\* r takes the place of the command of w, and the slots of w stay its own, unless
\* it fails.
Keeping(w, r) ==
  r.pc # "dead" =>
    \/ LivingWorker(w) /\ r.pc = "idle" /\ r.held = {} /\ w \in failed'
    \/ LivingWorker(w) /\ r.pc # "stamps" /\ job[w].pc # "stamps" /\ r.held = job[w].held
    \/ r.pc = job[w].pc /\ r.at = job[w].at /\ r.held = job[w].held

\* A step of the command of w that makes or removes no slot.
LEMMA QuietStep ==
  ASSUME SlotsInv, NEW w \in Worker, NEW r \in Job,
         job' = [job EXCEPT ![w] = r], slot' = slot, snatched' = snatched,
         failed' \in {failed, failed \cup {w}}, Keeping(w, r), Fitting(w)'
  PROVE  SlotsInv'
<1>1. SlotsTypeOK'
  BY DEF SlotsInv, SlotsTypeOK
<1>2. job'[w] = r /\ \A v \in Worker \ {w} : job'[v] = job[v]
  BY DEF SlotsInv, SlotsTypeOK
<1>3. Owned'
  <2> SUFFICES ASSUME ~ snatched, NEW v \in Worker, job'[v].pc # "dead" PROVE Owner(v)'
    BY DEF Owned, LivingWorker
  <2>1. CASE v # w
    <3>1. Owner(v) /\ job'[v] = job[v] /\ (v \in failed' <=> v \in failed)
      BY <1>2, <2>1 DEF SlotsInv, Owned, LivingWorker
    <3> QED BY <3>1 DEF Owner, Has
  <2>2. CASE v = w /\ LivingWorker(w)
    <3>1. Owner(w)
      BY <2>2 DEF SlotsInv, Owned
    <3> QED BY <1>2, <2>2, <3>1 DEF Owner, Has, Keeping
  <2>3. LivingWorker(w) \/ v # w
    BY <1>2 DEF Keeping, LivingWorker
  <2> QED BY <2>1, <2>2, <2>3
<1>4. Nobody'
  BY DEF SlotsInv, Nobody
<1>5. \A v \in Worker : Fitting(v)'
  BY <1>2 DEF SlotsInv, Fitting, Need
<1> QED BY <1>1, <1>3, <1>4, <1>5 DEF SlotsInv

\* The steps that leave the slots as they are.
Quiet(w) ==
  \/ \E kind \in Kind : BeginJob(w, kind)
  \/ AbortJob(w) \/ PassSlot(w) \/ WaitForSlots(w) \/ TryAgain(w) \/ GiveUp(w)
  \/ StartChild(w) \/ ChildLate(w) \/ ChildEnds(w) \/ WorkerDies(w) \/ MakeFails(w) \/ OwnerFails(w)

\* A step that takes and gives no slot keeps it.
LEMMA QuietLemma ==
  ASSUME SlotsInv, NEW w \in Worker, Quiet(w)
  PROVE  SlotsInv'
<1> USE DEF SlotsInv, SlotsTypeOK
<1>1. job[w] \in Job /\ slot' = slot /\ snatched' = snatched
      /\ failed' \in {failed, failed \cup {w}}
  BY DEF Quiet, MakeFails, OwnerFails, Fails, BeginJob, AbortJob, PassSlot, WaitForSlots, TryAgain, GiveUp, StartChild, ChildLate,
         ChildEnds, WorkerDies
<1>2. NoJob \in Job /\ NoJob.held = {} /\ NoJob.pc = "idle"
  BY DEF NoJob, Job, Pc, Kind
<1>3. CASE \E kind \in Kind : BeginJob(w, kind)
  <2>1. PICK kind \in Kind : BeginJob(w, kind)
    BY <1>3
  <2> DEFINE r == [NoJob EXCEPT !.pc = "scans", !.kind = kind]
  <2>2. r \in Job /\ r.pc = "scans" /\ r.held = {}
    BY <1>2 DEF Job, Pc
  <2>3. job' = [job EXCEPT ![w] = r] /\ job[w].pc = "idle" /\ job[w].held = {}
    BY <2>1 DEF BeginJob, JobAt, Fitting
  <2> HIDE DEF r
  <2>4. Fitting(w)'
    BY <2>2, <2>3 DEF Fitting
  <2>5. Keeping(w, r)
    BY <2>2, <2>3 DEF Keeping, LivingWorker
  <2> HIDE DEF SlotsInv, SlotsTypeOK
  <2> QED BY <1>1, <2>2, <2>3, <2>4, <2>5, QuietStep
<1>4. CASE AbortJob(w)
  <2> DEFINE r == [job[w] EXCEPT !.aborted = TRUE]
  <2>1. r \in Job /\ r.pc = job[w].pc /\ r.held = job[w].held /\ r.at = job[w].at /\ r.kind = job[w].kind
    BY <1>1 DEF Job
  <2>2. job' = [job EXCEPT ![w] = r]
    BY <1>4 DEF AbortJob
  <2> HIDE DEF r
  <2>3. Fitting(w)'
    BY <2>1, <2>2 DEF Fitting, Need
  <2>4. Keeping(w, r)
    BY <2>1 DEF Keeping
  <2> HIDE DEF SlotsInv, SlotsTypeOK
  <2> QED BY <1>1, <2>1, <2>2, <2>3, <2>4, QuietStep
<1>5. CASE ChildLate(w)
  <2> DEFINE r == [job[w] EXCEPT !.killed = TRUE]
  <2>1. r \in Job /\ r.pc = job[w].pc /\ r.held = job[w].held /\ r.at = job[w].at /\ r.kind = job[w].kind
    BY <1>1 DEF Job
  <2>2. job' = [job EXCEPT ![w] = r]
    BY <1>5 DEF ChildLate
  <2> HIDE DEF r
  <2>3. Fitting(w)'
    BY <2>1, <2>2 DEF Fitting, Need
  <2>4. Keeping(w, r)
    BY <2>1 DEF Keeping
  <2> HIDE DEF SlotsInv, SlotsTypeOK
  <2> QED BY <1>1, <2>1, <2>2, <2>3, <2>4, QuietStep
<1>6. CASE GiveUp(w) \/ ChildEnds(w)
  <2>1. PICK status \in {0, 1, 75, 124, 127, 130} :
          job' = [job EXCEPT ![w] = [job[w] EXCEPT !.pc = "gives", !.status = status]]
    BY <1>6 DEF GiveUp, ChildEnds
  <2> DEFINE r == [job[w] EXCEPT !.pc = "gives", !.status = status]
  <2>2. r \in Job /\ r.pc = "gives" /\ r.held = job[w].held
    BY <1>1 DEF Job, Pc
  <2>3. job[w].pc \in {"waits", "runs"}
    BY <1>6 DEF GiveUp, ChildEnds, JobAt
  <2>4. job' = [job EXCEPT ![w] = r]
    BY <2>1
  <2> HIDE DEF r
  <2>5. Fitting(w)'
    BY <2>2, <2>4 DEF Fitting
  <2>6. Keeping(w, r)
    BY <2>2, <2>3 DEF Keeping, LivingWorker
  <2> HIDE DEF SlotsInv, SlotsTypeOK
  <2> QED BY <1>1, <2>2, <2>4, <2>5, <2>6, QuietStep
<1>7. CASE WorkerDies(w)
  <2> DEFINE r == [NoJob EXCEPT !.pc = "dead"]
  <2>1. r \in Job /\ r.pc = "dead" /\ r.held = {}
    BY <1>2 DEF Job, Pc
  <2>2. job' = [job EXCEPT ![w] = r]
    BY <1>7 DEF WorkerDies
  <2> HIDE DEF r
  <2>3. Fitting(w)'
    BY <2>1, <2>2 DEF Fitting
  <2>4. Keeping(w, r)
    BY <2>1 DEF Keeping
  <2> HIDE DEF SlotsInv, SlotsTypeOK
  <2> QED BY <1>1, <2>1, <2>2, <2>3, <2>4, QuietStep
<1>13. CASE MakeFails(w) \/ OwnerFails(w)
  <2>1. job' = [job EXCEPT ![w] = NoJob] /\ w \in failed' /\ LivingWorker(w)
    BY <1>13 DEF MakeFails, OwnerFails, Fails, Scans, JobAt, LivingWorker
  <2>2. Fitting(w)'
    BY <1>2, <2>1 DEF Fitting
  <2>3. Keeping(w, NoJob)
    BY <1>2, <2>1 DEF Keeping
  <2> HIDE DEF SlotsInv, SlotsTypeOK
  <2> QED BY <1>1, <1>2, <2>1, <2>2, <2>3, QuietStep
\* What is left goes on to another place with what it holds.
<1>8. ASSUME NEW pc \in {"scans", "clears", "waits", "yields", "runs"}, NEW at \in Nat,
             Sets(w, pc, at, job[w].held), job[w].pc \in {"scans", "waits"},
             pc = "clears" => at \in Slot, pc = "waits" => job[w].held = {},
             pc = "runs" => Cardinality(job[w].held) >= Need(w)
      PROVE  SlotsInv'
  <2> DEFINE r == [job[w] EXCEPT !.pc = pc, !.at = at, !.held = job[w].held]
  <2>1. r \in Job /\ r.pc = pc /\ r.at = at /\ r.held = job[w].held /\ r.kind = job[w].kind
    BY <1>1 DEF Job, Pc
  <2>2. job' = [job EXCEPT ![w] = r]
    BY <1>8 DEF Sets
  <2> HIDE DEF r
  <2>3. Fitting(w)'
    BY <1>8, <2>1, <2>2 DEF Fitting, Need
  <2>4. Keeping(w, r)
    BY <1>8, <2>1 DEF Keeping, LivingWorker
  <2> HIDE DEF SlotsInv, SlotsTypeOK
  <2> QED BY <1>1, <2>1, <2>2, <2>3, <2>4, QuietStep
<1>9. CASE PassSlot(w)
  <2>1. job[w].pc = "scans" /\ job[w].at \in Slot /\ job[w].at \in Nat /\ job[w].at + 1 \in Nat
    BY <1>1, <1>9 DEF PassSlot, Scans, JobAt, Job
  <2>2. Sets(w, "scans", job[w].at + 1, job[w].held) \/ Sets(w, "clears", job[w].at, job[w].held)
    BY <1>9 DEF PassSlot
  <2> QED BY <1>8, <2>1, <2>2
<1>10. CASE WaitForSlots(w)
  <2>1. job[w].pc = "scans" /\ (\/ Sets(w, "waits", 1, job[w].held) /\ job[w].held = {}
                               \/ Sets(w, "yields", 1, job[w].held))
    BY <1>10 DEF WaitForSlots, JobAt
  <2> QED BY <1>8, <2>1
<1>11. CASE TryAgain(w)
  BY <1>8, <1>11 DEF TryAgain, JobAt
<1>12. CASE StartChild(w)
  BY <1>8, <1>12 DEF StartChild, JobAt
<1> QED BY <1>3, <1>4, <1>5, <1>6, <1>7, <1>9, <1>10, <1>11, <1>12, <1>13 DEF Quiet

-----------------------------------------------------------------------------
\* What a worker has is not free and not stale, and is nobody else's.
LEMMA OwnedLemma ==
  ASSUME SlotsInv, ~ snatched, NEW w \in Worker, LivingWorker(w), NEW i \in Has(w)
  PROVE  slot[i].by = w /\ i \in Slot /\ ~ Stale(i)
<1>1. Owner(w) /\ job[w] \in Job /\ Fitting(w)
  BY DEF SlotsInv, SlotsTypeOK, Owned
<1>2. i \in Slot
  BY <1>1 DEF Has, Fitting, Job
<1>3. CASE i \in job[w].held
  BY <1>1, <1>2, <1>3 DEF Owner, Stale
<1>4. CASE job[w].pc = "stamps" /\ i = job[w].at
  <2>1. slot[i] = [by |-> w, stamped |-> FALSE] /\ Stamping(i)
    BY <1>1, <1>4 DEF Owner, Stamping
  <2> QED BY <1>2, <2>1 DEF Stale
<1> QED BY <1>3, <1>4 DEF Has

\* A step of w that leaves alone what the other living workers have.
LEMMA OwnStep ==
  ASSUME SlotsInv, NEW w \in Worker, ~ snatched, SlotsTypeOK', Nobody', Fitting(w)', failed' = failed,
         \A v \in Worker \ {w} : job'[v] = job[v],
         \A i \in Slot : slot'[i] = slot[i]
                         \/ \A v \in Worker \ {w} : LivingWorker(v) => i \notin Has(v) /\ slot'[i].by # v,
         Owner(w)'
  PROVE  SlotsInv'
<1>1. ASSUME NEW v \in Worker \ {w}, LivingWorker(v)
      PROVE  Owner(v)'
  <2>1. Owner(v) /\ job'[v] = job[v] /\ Has(v)' = Has(v)
    BY <1>1 DEF SlotsInv, Owned, Has
  <2>2. \A i \in Has(v) : i \in Slot /\ slot'[i] = slot[i]
    BY <1>1, OwnedLemma
  <2>3. \A i \in Slot : slot'[i].by = v => slot[i].by = v
    BY <1>1
  <2> QED BY <2>1, <2>2, <2>3 DEF Owner, Has
<1>2. Owned'
  BY <1>1 DEF Owned, LivingWorker
<1>3. \A v \in Worker : Fitting(v)'
  BY DEF SlotsInv, Fitting, Need
<1> QED BY <1>2, <1>3 DEF SlotsInv

\* The making of a slot keeps the invariant: it fails where the slot is there.
LEMMA MakeLemma ==
  ASSUME SlotsInv, NEW w \in Worker, MakeSlot(w)
  PROVE  SlotsInv'
<1> DEFINE i == job[w].at
           r == [job[w] EXCEPT !.pc = "stamps", !.at = i, !.held = job[w].held]
<1>1. /\ ~ snatched /\ snatched' = snatched /\ failed' = failed /\ i \in Slot /\ slot[i] = FreeSlot
      /\ job[w].pc = "scans"
      /\ job' = [job EXCEPT ![w] = r] /\ slot' = [slot EXCEPT ![i] = [by |-> w, stamped |-> FALSE]]
  BY DEF MakeSlot, Scans, JobAt, Sets
<1>2. r \in Job /\ r.pc = "stamps" /\ r.at = i /\ r.held = job[w].held
  <2>1. job[w] \in Job
    BY DEF SlotsInv, SlotsTypeOK
  <2> QED BY <2>1 DEF Job, Pc
<1>3. FreeSlot.by \notin Worker /\ w # "nobody"
  BY SlotsAssumption DEF FreeSlot
<1>4. job'[w] = r /\ (\A v \in Worker \ {w} : job'[v] = job[v])
      /\ slot'[i] = [by |-> w, stamped |-> FALSE] /\ \A j \in Slot \ {i} : slot'[j] = slot[j]
  BY <1>1 DEF SlotsInv, SlotsTypeOK
<1>5. LivingWorker(w) /\ Owner(w)
  BY <1>1 DEF LivingWorker, SlotsInv, Owned
<1> HIDE DEF r, i
<1>6. SlotsTypeOK'
  BY <1>1, <1>2 DEF SlotsInv, SlotsTypeOK
<1>7. Nobody'
  BY <1>3, <1>4 DEF SlotsInv, Nobody
<1>8. Fitting(w)'
  BY <1>1, <1>2, <1>4 DEF Fitting
<1>9. \A v \in Worker : LivingWorker(v) => i \notin Has(v)
  BY <1>1, <1>3, OwnedLemma
<1>10. Owner(w)'
  <2>1. \A j \in job[w].held : j \in Slot /\ j # i
    BY <1>1, <1>5, <1>9, OwnedLemma DEF Has
  <2>2. \A j \in Slot : slot[j].by = w /\ w \notin failed => j \in job[w].held
    BY <1>1, <1>5 DEF Owner, Has
  <2>3. \A j \in job[w].held : slot'[j] = [by |-> w, stamped |-> TRUE]
    BY <1>4, <1>5, <2>1 DEF Owner
  <2>4. w \notin failed => \A j \in Slot : slot'[j].by = w => j \in job[w].held \/ j = i
    BY <1>4, <2>2
  <2> QED BY <1>1, <1>2, <1>4, <2>3, <2>4 DEF Owner, Has
<1> QED BY <1>1, <1>4, <1>6, <1>7, <1>8, <1>9, <1>10, OwnStep

\* So does the stamp, after which the slot is held.
LEMMA StampLemma ==
  ASSUME SlotsInv, NEW w \in Worker, StampSlot(w)
  PROVE  SlotsInv'
<1> DEFINE i == job[w].at
           r == [job[w] EXCEPT !.pc = "scans", !.at = i + 1, !.held = job[w].held \cup {i}]
<1>1. /\ ~ snatched /\ snatched' = snatched /\ failed' = failed /\ job[w].pc = "stamps"
      /\ job' = [job EXCEPT ![w] = r] /\ slot' = [slot EXCEPT ![i] = [by |-> w, stamped |-> TRUE]]
  BY DEF StampSlot, JobAt, Sets
<1>2. i \in Slot /\ i \in Nat
  BY <1>1 DEF SlotsInv, Fitting, Slot
<1>3. r \in Job /\ r.pc = "scans" /\ r.held = job[w].held \cup {i}
  <2>1. job[w] \in Job /\ i + 1 \in Nat
    BY <1>2 DEF SlotsInv, SlotsTypeOK
  <2> HIDE DEF i
  <2>2. job[w].held \cup {i} \in SUBSET Slot
    BY <1>2, <2>1 DEF Job
  <2>3. \A h \in SUBSET Slot, n \in Nat :
           LET q == [job[w] EXCEPT !.pc = "scans", !.at = n, !.held = h]
           IN  q \in Job /\ q.pc = "scans" /\ q.held = h
    BY <2>1 DEF Job, Pc
  <2> QED BY <2>1, <2>2, <2>3
<1>4. job'[w] = r /\ (\A v \in Worker \ {w} : job'[v] = job[v]) /\ w # "nobody"
      /\ slot'[i] = [by |-> w, stamped |-> TRUE] /\ \A j \in Slot \ {i} : slot'[j] = slot[j]
  BY <1>1, <1>2, SlotsAssumption DEF SlotsInv, SlotsTypeOK
<1>5. LivingWorker(w) /\ Owner(w) /\ i \in Has(w)
  BY <1>1 DEF LivingWorker, SlotsInv, Owned, Has
<1>6. slot[i].by = w
  BY <1>1, <1>5, OwnedLemma
<1> HIDE DEF r, i
<1>7. SlotsTypeOK'
  BY <1>1, <1>3 DEF SlotsInv, SlotsTypeOK
<1>8. Nobody'
  BY <1>4 DEF SlotsInv, Nobody
<1>9. Fitting(w)'
  BY <1>3, <1>4 DEF Fitting
<1>10. \A v \in Worker \ {w} : LivingWorker(v) => i \notin Has(v)
  BY <1>1, <1>6, OwnedLemma
<1>11. Owner(w)'
  <2>1. \A j \in job[w].held : j \in Slot
    BY <1>1, <1>5, OwnedLemma DEF Has
  <2>2. Has(w) = job[w].held \cup {i}
    BY <1>1 DEF Has, i
  <2>3. \A j \in job[w].held \cup {i} : slot'[j] = [by |-> w, stamped |-> TRUE]
    BY <1>4, <1>5, <2>1 DEF Owner
  <2>4. w \notin failed => \A j \in Slot : slot'[j].by = w => j \in job[w].held \cup {i}
    BY <1>4, <1>5, <2>2 DEF Owner
  <2> QED BY <1>1, <1>3, <1>4, <2>3, <2>4 DEF Owner, Has
<1> QED BY <1>1, <1>2, <1>4, <1>7, <1>8, <1>9, <1>10, <1>11, OwnStep

\* Where the slot was taken by a living worker meanwhile, nothing is left to prove.
LEMMA ClearLemma ==
  ASSUME SlotsInv, NEW w \in Worker, ClearSlot(w)
  PROVE  SlotsInv'
<1> DEFINE i == job[w].at
           r == [job[w] EXCEPT !.pc = "scans", !.at = i + 1, !.held = job[w].held]
<1>1. /\ ~ snatched /\ snatched' = (slot[i] # FreeSlot /\ ~ Stale(i)) /\ failed' = failed
      /\ job[w].pc = "clears"
      /\ job' = [job EXCEPT ![w] = r] /\ slot' = [slot EXCEPT ![i] = FreeSlot]
  BY DEF ClearSlot, JobAt, Sets
<1>2. i \in Slot /\ i \in Nat
  BY <1>1 DEF SlotsInv, Fitting, Slot
<1>3. r \in Job /\ r.pc = "scans" /\ r.held = job[w].held
  <2>1. job[w] \in Job /\ i + 1 \in Nat
    BY <1>2 DEF SlotsInv, SlotsTypeOK
  <2> HIDE DEF i
  <2> QED BY <1>2, <2>1 DEF Job, Pc
<1>4. FreeSlot \in [by : Worker \cup {"nobody"}, stamped : BOOLEAN] /\ FreeSlot.by \notin Worker
  BY SlotsAssumption DEF FreeSlot
<1>5. job'[w] = r /\ (\A v \in Worker \ {w} : job'[v] = job[v])
      /\ slot'[i] = FreeSlot /\ \A j \in Slot \ {i} : slot'[j] = slot[j]
  BY <1>1, <1>2 DEF SlotsInv, SlotsTypeOK
<1>6. LivingWorker(w) /\ Owner(w)
  BY <1>1 DEF LivingWorker, SlotsInv, Owned
<1> HIDE DEF r, i
<1>7. SlotsTypeOK'
  BY <1>1, <1>3, <1>4 DEF SlotsInv, SlotsTypeOK
<1>8. Nobody'
  BY <1>5 DEF SlotsInv, Nobody
<1>9. Fitting(w)'
  BY <1>3, <1>5 DEF Fitting
<1>10. CASE ~ snatched'
  <2>1. slot[i] = FreeSlot \/ Stale(i)
    BY <1>1, <1>10
  <2>2. \A v \in Worker : LivingWorker(v) => i \notin Has(v)
    BY <1>1, <1>4, <2>1, OwnedLemma
  <2>3. Owner(w)'
    <3>1. \A j \in Has(w) : j \in Slot /\ j # i
      BY <1>1, <1>6, <2>2, OwnedLemma
    <3>2. \A j \in job[w].held : slot'[j] = [by |-> w, stamped |-> TRUE]
      BY <1>5, <1>6, <3>1 DEF Owner, Has
    <3>3. w \notin failed => \A j \in Slot : slot'[j].by = w => j \in job[w].held
      BY <1>1, <1>4, <1>5, <1>6 DEF Owner, Has
    <3> QED BY <1>1, <1>3, <1>5, <3>2, <3>3 DEF Owner, Has
  <2> QED BY <1>1, <1>4, <1>5, <1>7, <1>8, <1>9, <2>2, <2>3, OwnStep
<1>11. CASE snatched'
  <2>1. Owned'
    BY <1>11 DEF Owned
  <2>2. \A v \in Worker : Fitting(v)'
    BY <1>5, <1>9 DEF SlotsInv, Fitting, Need
  <2> QED BY <1>7, <1>8, <2>1, <2>2 DEF SlotsInv
<1> QED BY <1>10, <1>11

\* So does giving a slot back.
LEMMA GiveLemma ==
  ASSUME SlotsInv, NEW w \in Worker, GiveBack(w)
  PROVE  SlotsInv'
<1> DEFINE held == job[w].held
           left == {i \in held : \E j \in held : j > i}
<1>1. /\ ~ snatched /\ snatched' = snatched /\ failed' = failed /\ job[w].pc \in {"gives", "yields"}
      /\ slot' = [i \in Slot |-> IF i \in held \ left THEN FreeSlot ELSE slot[i]]
  BY DEF GiveBack
<1>2. /\ job' \in [Worker -> Job] /\ \A v \in Worker \ {w} : job'[v] = job[v]
      /\ job'[w].held = left /\ job'[w].pc \in {"gives", "yields", "waits", "idle"}
      /\ job'[w].pc \in {"waits", "idle"} => left = {}
  <2>1. job[w] \in Job /\ left \in SUBSET Slot /\ job \in [Worker -> Job]
    BY DEF SlotsInv, SlotsTypeOK, Job
  <2> HIDE DEF left
  <2>2. CASE left # {}
    <3> DEFINE r == [job[w] EXCEPT !.pc = job[w].pc, !.at = 1, !.held = left]
    <3>1. r \in Job /\ r.held = left /\ r.pc = job[w].pc
      BY <2>1 DEF Job
    <3>2. job' = [job EXCEPT ![w] = r]
      BY <2>2 DEF GiveBack, Sets, left
    <3> HIDE DEF r
    <3> QED BY <1>1, <2>2, <2>1, <3>1, <3>2
  <2>3. CASE left = {} /\ job[w].pc = "yields"
    <3> DEFINE r == [job[w] EXCEPT !.pc = "waits", !.at = 1, !.held = left]
    <3>1. r \in Job /\ r.held = left /\ r.pc = "waits"
      BY <2>1 DEF Job, Pc
    <3>2. job' = [job EXCEPT ![w] = r]
      BY <2>3 DEF GiveBack, Sets, left
    <3> HIDE DEF r
    <3> QED BY <2>3, <2>1, <3>1, <3>2
  <2>4. CASE left = {} /\ job[w].pc = "gives"
    <3>1. NoJob \in Job /\ NoJob.held = {} /\ NoJob.pc = "idle"
      BY DEF NoJob, Job, Pc, Kind
    <3>2. job' = [job EXCEPT ![w] = NoJob]
      BY <2>4 DEF GiveBack, left
    <3> QED BY <2>4, <2>1, <3>1, <3>2
  <2> QED BY <1>1, <2>2, <2>3, <2>4
<1>3. left \subseteq held /\ held \subseteq Slot
  BY DEF SlotsInv, SlotsTypeOK, Job
<1> HIDE DEF left
<1>4. Has(w) = held /\ Has(w)' = left /\ LivingWorker(w) /\ Owner(w)
  BY <1>1, <1>2 DEF Has, LivingWorker, SlotsInv, Owned
<1>5. FreeSlot \in [by : Worker \cup {"nobody"}, stamped : BOOLEAN] /\ FreeSlot.by \notin Worker
  BY SlotsAssumption DEF FreeSlot
<1>6. SlotsTypeOK'
  BY <1>1, <1>2, <1>5 DEF SlotsInv, SlotsTypeOK
<1>7. Nobody'
  BY <1>1 DEF SlotsInv, Nobody
<1>8. Fitting(w)'
  BY <1>2 DEF Fitting
<1>9. \A i \in held : slot[i].by = w
  BY <1>1, <1>4, OwnedLemma
<1>10. \A i \in Slot : slot'[i] = IF i \in held \ left THEN FreeSlot ELSE slot[i]
  BY <1>1
<1>11. Owner(w)'
  <2>1. job'[w].held = left /\ job'[w].pc # "stamps"
    BY <1>2
  <2>2. \A i \in left : slot'[i] = [by |-> w, stamped |-> TRUE]
    BY <1>3, <1>4, <1>10 DEF Owner, held
  <2>3. w \notin failed => \A i \in Slot : slot'[i].by = w => i \in left
    <3> SUFFICES ASSUME w \notin failed, NEW i \in Slot, slot'[i].by = w PROVE i \in left
      OBVIOUS
    <3>1. slot'[i] = slot[i] /\ (i \in left \/ i \notin held)
      BY <1>5, <1>10
    <3>2. i \in held
      BY <1>4, <3>1 DEF Owner
    <3> QED BY <3>1, <3>2
  <2> QED BY <1>1, <1>4, <2>1, <2>2, <2>3 DEF Owner
<1>12. ASSUME NEW i \in Slot, slot'[i] # slot[i], NEW v \in Worker \ {w}, LivingWorker(v)
       PROVE  i \notin Has(v) /\ slot'[i].by # v
  <2>1. i \in held /\ slot'[i] = FreeSlot
    BY <1>10, <1>12
  <2>2. i \in Has(v) => slot[i].by = v
    BY <1>1, <1>12, OwnedLemma
  <2> QED BY <1>5, <1>9, <1>12, <2>1, <2>2
<1> QED BY <1>1, <1>2, <1>6, <1>7, <1>8, <1>11, <1>12, OwnStep

\* Every step keeps the slots invariant.
LEMMA StepLemma == SlotsInv /\ [SlotsNext]_slotVars => SlotsInv'
<1> SUFFICES ASSUME SlotsInv, [SlotsNext]_slotVars PROVE SlotsInv'
  OBVIOUS
<1>1. CASE UNCHANGED slotVars
  BY <1>1 DEF SlotsInv, SlotsTypeOK, Owned, Owner, Nobody, Fitting, Has, LivingWorker, Need, slotVars
<1>2. CASE SlotsNext
  <2>1. PICK w \in Worker : Quiet(w) \/ MakeSlot(w) \/ StampSlot(w) \/ ClearSlot(w) \/ GiveBack(w)
    BY <1>2 DEF SlotsNext, Quiet
  <2> QED BY <2>1, QuietLemma, MakeLemma, StampLemma, ClearLemma, GiveLemma
<1> QED BY <1>1, <1>2

-----------------------------------------------------------------------------
\* Running workers hold different slots, so they are no more than the slots; and
\* one that holds them all leaves none to another.
LEMMA CapLemma == SlotsInv => CapIsKept
<1> SUFFICES ASSUME SlotsInv, ~ snatched PROVE CapIsKept
  BY DEF CapIsKept
<1> DEFINE working == {w \in Worker : job[w].pc = "runs"}
<1> USE DEF SlotsInv, SlotsTypeOK
<1>1. IsFiniteSet(Slot) /\ Cardinality(Slot) = SlotCount /\ SlotCount \in Nat /\ SlotCount >= 1
  BY SlotsAssumption, FS_Interval DEF Slot
<1>2. \A w \in Worker : job[w].held \in SUBSET Slot
  BY DEF Job
<1>3. \A w \in working : LivingWorker(w) /\ \A i \in job[w].held : slot[i].by = w
  <2> SUFFICES ASSUME NEW w \in Worker, job[w].pc = "runs"
               PROVE  LivingWorker(w) /\ \A i \in job[w].held : slot[i].by = w
    OBVIOUS
  <2>1. LivingWorker(w) /\ Owned
    BY DEF LivingWorker
  <2>2. Owner(w)
    BY <2>1 DEF Owned
  <2> QED BY <2>1, <2>2 DEF Owner
<1>4. \A w \in working : Cardinality(job[w].held) >= Need(w) /\ Need(w) >= 1 /\ Need(w) \in Nat
  BY <1>1 DEF Fitting, Need
<1>5. \A w \in working : job[w].held # {}
  <2> SUFFICES ASSUME NEW w \in working, job[w].held = {} PROVE FALSE
    OBVIOUS
  <2>1. Cardinality(job[w].held) = 0
    BY FS_EmptySet
  <2> DEFINE need == Need(w)
             card == Cardinality(job[w].held)
  <2>2. card >= need /\ need >= 1 /\ need \in Nat
    BY <1>4
  <2>3. card = 0
    BY <2>1
  <2> HIDE DEF need, card
  <2> QED BY <2>2, <2>3
<1>6. Cardinality(working) <= SlotCount
  <2> DEFINE f == [w \in working |-> CHOOSE i \in Slot : i \in job[w].held]
  <2>1. \A w \in working : f[w] \in Slot /\ f[w] \in job[w].held
    BY <1>2, <1>5
  <2>2. f \in [working -> Slot]
    BY <2>1
  <2>3. \A v, w \in working : f[v] = f[w] => v = w
    <3> HIDE DEF f
    <3> SUFFICES ASSUME NEW v \in working, NEW w \in working, f[v] = f[w] PROVE v = w
      OBVIOUS
    <3>1. slot[f[v]].by = v /\ slot[f[w]].by = w
      BY <1>3, <2>1
    <3> QED BY <3>1
  <2>4. f \in Injection(working, Slot)
    <3> HIDE DEF f
    <3> QED BY <2>2, <2>3 DEF Injection, IsInjective
  <2> HIDE DEF f, working
  <2> QED BY <1>1, <2>4, FS_Injection
<1>7. ASSUME NEW w \in working, job[w].kind = "build" PROVE working = {w}
  <2>1. Cardinality(job[w].held) >= SlotCount
    BY <1>4, <1>7 DEF Need
  <2>2. job[w].held = Slot
    <3>1. job[w].held \in SUBSET Slot
      BY <1>2
    <3>2. Cardinality(job[w].held) <= Cardinality(Slot) /\ IsFiniteSet(job[w].held)
      BY <1>1, <3>1, FS_Subset
    <3>3. Cardinality(job[w].held) = Cardinality(Slot)
      BY <1>1, <2>1, <3>2, FS_CardinalityType
    <3> QED BY <1>1, <3>1, <3>3, FS_Subset
  <2>3. ASSUME NEW v \in working PROVE v = w
    <3>1. PICK i \in Slot : i \in job[v].held
      BY <1>2, <1>5
    <3> QED BY <1>3, <2>2, <3>1
  <2> QED BY <2>3
<1>8. ASSUME NEW w \in Worker, LivingWorker(w)
      PROVE  /\ Has(w) \subseteq {i \in Slot : slot[i].by = w}
             /\ w \notin failed => {i \in Slot : slot[i].by = w} = Has(w)
  <2>1. \A i \in Has(w) : i \in Slot /\ slot[i].by = w
    BY <1>8, OwnedLemma
  <2>2. w \notin failed => \A i \in Slot : slot[i].by = w => i \in Has(w)
    BY <1>8 DEF Owned, Owner
  <2> QED BY <2>1, <2>2
<1>9. \A w \in Worker : job[w].pc \in {"idle", "waits"} => job[w].held = {}
  BY DEF Fitting
<1> HIDE DEF SlotsInv, SlotsTypeOK
<1> QED BY <1>6, <1>7, <1>8, <1>9 DEF CapIsKept, Has

(* In every behaviour of the slots their types are right, and the workers  *)
(* own what they hold (createLease).                                       *)
THEOREM SlotsInvariance == SlotsSpec => []SlotsInv
<1>1. SlotsInit => SlotsInv
  BY InitLemma
<1>2. SlotsInv /\ [SlotsNext]_slotVars => SlotsInv'
  BY StepLemma
<1> QED BY <1>1, <1>2, PTL DEF SlotsSpec

(* For any number of workers and slots: no more children run than there    *)
(* are slots, a build runs alone, and no command leaves a slot behind      *)
(* where slots can be made (acquire and releaseAll of fabric-lease.js).    *)
THEOREM Capped == SlotsSpec => []CapIsKept
<1>1. SlotsInv => CapIsKept
  BY CapLemma
<1> QED BY <1>1, SlotsInvariance, PTL

==============================================================================
