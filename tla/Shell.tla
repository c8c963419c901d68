-------------------------------- MODULE Shell --------------------------------
(***************************************************************************)
(* The way of a session's input: the client numbers its messages, the      *)
(* gateway accepts them in that order, and the shell of the worker feeds   *)
(* the keys to the reader that waits, to the command that runs (only an    *)
(* interrupt) or to the type-ahead. A line of several pipelines runs, its  *)
(* completion is acknowledged, and the session exits once.                 *)
(*                                                                         *)
(* Sources: main/spiral/kernel.js, main/spiral/line-reader.js (what ends a *)
(* line), worker/core.js, the input half of gateway/connection.js and of   *)
(* client/ws-adapter.js.                                                   *)
(*                                                                         *)
(* Between two records of a thread's port the shell's continuations        *)
(* (microtasks) all run; the records of one chunk of a process's pipe are  *)
(* handled without them. What a pipeline does is chosen when it starts.    *)
(***************************************************************************)
EXTENDS Integers, Sequences, SequencesExt, FiniteSetsExt

CONSTANTS WorkerKinds,   \* cfg.workerBackend: "thread", "process"
          LineChars,  \* limits.lineChars; the type-ahead holds twice as many
          Plans,      \* the lines there are: sequences of join operators
          ExitCode,   \* of the command `exit`
          Bursts,     \* the inputs there are: sequences of keys
          MaxKeys,    \* bound: keys typed
          MaxUnread, MaxSignals  \* bounds: inputs refused, terminal.signal messages

\* A data message without payload is none (codec.js, decodeData).
ASSUME ShellAssumption ==
    /\ LineChars \in Nat
    /\ \A b \in Bursts : b # <<>> /\ b \in Seq({"char", "enter", "int", "eof"})

VARIABLES user, gw, pipe, up, sh

shellVars == <<user, gw, pipe, up, sh>>

\* A key is printable ("char"), Enter, Ctrl-C ("int") or Ctrl-D ("eof").
Ids(keys) == {keys[i].id : i \in DOMAIN keys}
HasInt(keys) == \E i \in DOMAIN keys : keys[i].kind = "int"

-----------------------------------------------------------------------------
(* The line reader. A run of printable characters is inserted as a whole,  *)
(* or dropped with a bell; the keys after the end belong to the next one.  *)

RunAt(keys, i) ==
    CHOOSE n \in 1..(Len(keys) - i + 1) :
        /\ \A j \in i..(i + n - 1) : keys[j].kind = "char"
        /\ i + n <= Len(keys) => keys[i + n].kind # "char"

\* The reader [buf, value], done once it has a value, after one more key.
Key(r, keys, i) ==
    CASE keys[i].kind = "char" ->
            IF i > 1 /\ keys[i - 1].kind = "char" THEN r
            ELSE IF r.buf + RunAt(keys, i) > LineChars THEN r
                 ELSE [r EXCEPT !.buf = r.buf + RunAt(keys, i)]
      [] keys[i].kind = "enter" -> [r EXCEPT !.value = "line"]
      [] keys[i].kind = "int"   -> [buf |-> 0, value |-> "aborted"]
      [] keys[i].kind = "eof"   -> IF r.buf = 0 THEN [r EXCEPT !.value = "null"] ELSE r

Step(s, keys, i) ==
    IF s.r.value # "none" THEN s ELSE [r |-> Key(s.r, keys, i), n |-> i]
Fed(r, keys) ==
    FoldLeft(LAMBDA s, i : Step(s, keys, i), [r |-> r, n |-> 0], [i \in 1..Len(keys) |-> i])

-----------------------------------------------------------------------------
(* The kernel. A reader is pending from its start until its value has been *)
(* taken; a pipeline is running from its start to its end.                 *)

Pending(s) == s.alive /\ s.pc \in {"prompt", "reads"}
Busy(s) == s.pc \in {"runs", "reads", "ends"}

\* _typeahead: what does not fit is dropped with a bell.
Ahead(s, keys) ==
    LET room == 2 * LineChars - Len(s.typeahead)
        fits == IF room < Len(keys) THEN room ELSE Len(keys)
    IN  [s EXCEPT !.typeahead = s.typeahead \o SubSeq(keys, 1, fits),
                  !.told = s.told \cup Ids(SubSeq(keys, fits + 1, Len(keys)))]

Feed(s, keys) ==
    LET f == Fed(s.reader, keys)
        fed == [s EXCEPT !.reader = f.r, !.fed = s.fed \cup Ids(SubSeq(keys, 1, f.n))]
    IN  IF f.n = Len(keys) THEN fed ELSE Ahead(fed, SubSeq(keys, f.n + 1, Len(keys)))

\* Mutant: the reader is not given what was typed ahead.
OpenReaderUnfed(s, pc) == [s EXCEPT !.pc = pc, !.reader = [buf |-> 0, value |-> "none"]]

\* _readLine: a new reader is given the type-ahead before any other record.
OpenReader(s, pc) ==
    Feed([s EXCEPT !.pc = pc, !.reader = [buf |-> 0, value |-> "none"], !.typeahead = <<>>],
         s.typeahead)

\* What abort() does to the pipeline: a command that computes stops, one that
\* waits for a line goes on waiting.
Aborted(s) == [s EXCEPT !.aborted = TRUE, !.pc = IF s.pc = "runs" THEN "ends" ELSE s.pc]

\* write()
Written(s, keys) ==
    IF ~s.alive THEN s
    ELSE IF Pending(s) THEN Feed(s, keys)
    ELSE IF Busy(s) /\ HasInt(keys)
         THEN Aborted([s EXCEPT !.told = s.told \cup Ids(s.typeahead) \cup Ids(keys), !.typeahead = <<>>])
         ELSE Ahead(s, keys)

\* signal(): the interrupt has no number, it is not a key.
Signalled(s) ==
    LET c == [s EXCEPT !.told = s.told \cup Ids(s.typeahead), !.typeahead = <<>>]
    IN  IF s.exited THEN s
        ELSE IF Busy(s) THEN Aborted(c)
        ELSE IF Pending(s) /\ s.reader.value = "none"
             THEN [c EXCEPT !.reader = [buf |-> 0, value |-> "aborted"]]
             ELSE c

\* Mutant: a session that has exited exits again.
FinishedAgain(s, code, reason) ==
    [s EXCEPT !.exited = TRUE, !.alive = FALSE,
              !.reader.value = IF Pending(s) /\ s.reader.value = "none" THEN "null" ELSE s.reader.value,
              !.exit = Append(s.exit, [t |-> "exit", code |-> code, reason |-> reason])]

\* _finishSession, and finish() of core.js on its event: the exit record is sent
\* by a timer, whatever the shell still does.
Finished(s, code, reason) ==
    IF s.exited THEN s
    ELSE LET c == IF Busy(s) THEN Aborted(s) ELSE s
         IN  [c EXCEPT !.exited = TRUE, !.alive = FALSE,
                       !.reader.value = IF Pending(s) /\ s.reader.value = "none" THEN "null" ELSE s.reader.value,
                       !.exit = <<[t |-> "exit", code |-> code, reason |-> reason]>>]

-----------------------------------------------------------------------------
(* The interpreter: _repl, _executeLine, _runPipeline.                     *)

\* The top of the loop of _repl.
Loop(s) == IF s.alive THEN OpenReader(s, "prompt")
           ELSE [Finished(s, s.exitCode, "logout") EXCEPT !.pc = "over"]

Completed(s) == IF s.exited THEN <<>> ELSE <<[t |-> "executed", upto |-> s.inputSeq]>>

\* A segment is skipped on the code of the one before it; with none left the
\* line is complete.
Skipped(op, code) == (op = "&&" /\ code # 0) \/ (op = "||" /\ code = 0)
Rest(plan, code) ==
    LET runs == {i \in DOMAIN plan : ~Skipped(plan[i], code)}
    IN  IF runs = {} THEN <<>> ELSE SubSeq(plan, Min(runs), Len(plan))

NextSegment(s, plan, code) ==
    IF Rest(plan, code) = <<>>
    THEN sh' = Loop(s) /\ up' = up \o Completed(s)
    ELSE /\ sh' = [s EXCEPT !.pc = "boundary", !.plan = Rest(plan, code)]
         /\ UNCHANGED up

LineRead ==
    /\ sh.pc = "prompt" /\ sh.reader.value # "none"
    /\ \/ /\ sh.reader.value = "null"
          /\ sh' = [Finished(sh, sh.exitCode, "logout") EXCEPT !.pc = "over"] /\ UNCHANGED up
       \/ /\ sh.reader.value = "aborted" \/ (sh.reader.value = "line" /\ sh.reader.buf = 0)
          /\ sh' = Loop(sh) /\ UNCHANGED up
       \/ /\ sh.reader.value = "line" /\ sh.reader.buf > 0
          /\ \/ \E plan \in Plans : NextSegment(sh, plan, 0)
             \/ sh' = Loop(sh) /\ up' = up \o Completed(sh)  \* the line does not parse
    /\ UNCHANGED <<user, gw, pipe>>

Worker(s) == sh' = s /\ UNCHANGED <<user, gw, pipe, up>>

\* Past the macrotask, and the wait for the output gate to drain, between two
\* pipelines. An interrupt that comes before it is a key like any other.
Boundary ==
    /\ sh.pc = "boundary"
    /\ IF sh.alive THEN sh' = [sh EXCEPT !.pc = "runs", !.aborted = FALSE] /\ UNCHANGED up
                   ELSE NextSegment(sh, <<>>, 0)
    /\ UNCHANGED <<user, gw, pipe>>

CommandReads == sh.pc = "runs" /\ Worker(OpenReader(sh, "reads"))
\* Such a command reads on until there is no line; an interrupt is none.
CommandReadLine ==
    /\ sh.pc = "reads" /\ sh.reader.value # "none"
    /\ Worker(IF sh.reader.value = "line" /\ sh.alive THEN OpenReader(sh, "reads")
              ELSE [sh EXCEPT !.pc = "ends"])
CommandDone == sh.pc = "runs" /\ Worker([sh EXCEPT !.pc = "ends"])
CommandExits == sh.pc = "runs" /\ Worker([sh EXCEPT !.pc = "ends", !.alive = FALSE, !.exitCode = ExitCode])

\* A redirection that cannot be opened or written ends the line, not the session.
PipelineEnds ==
    /\ sh.pc = "ends"
    /\ \/ \E code \in IF sh.aborted THEN {130} ELSE {0, 1} :
             NextSegment(sh, Tail(sh.plan), code)
       \/ ~sh.aborted /\ NextSegment(sh, <<>>, 0)
    /\ UNCHANGED <<user, gw, pipe>>

-----------------------------------------------------------------------------
(* core.js: the records of the gateway.                                    *)

Due == sh.pc \in {"prompt", "reads"} /\ sh.reader.value # "none"
Handles == /\ pipe # <<>> /\ ~sh.gone /\ pipe' = Tail(pipe)
           /\ Due => gw.backend = "process"

HandleInput ==
    /\ Handles /\ Head(pipe).t = "input"
    /\ LET keys == Head(pipe).keys
       IN  sh' = [Written(sh, keys) EXCEPT !.inputSeq = Head(pipe).seq,
                                           !.arrived = keys[Len(keys)].id]
    /\ UNCHANGED <<user, gw, up>>
HandleSignal ==
    /\ Handles /\ Head(pipe).t = "signal" /\ sh' = Signalled(sh)
    /\ UNCHANGED <<user, gw, up>>
\* Mutant: a close waits for the prompt.
HandleCloseAtPrompt ==
    /\ Handles /\ Head(pipe).t = "close" /\ sh.pc \in {"prompt", "over"}
    /\ sh' = Finished(sh, 0, "closed")
    /\ UNCHANGED <<user, gw, up>>
HandleClose ==
    /\ Handles /\ Head(pipe).t = "close" /\ sh' = Finished(sh, 0, "closed")
    /\ UNCHANGED <<user, gw, up>>
ExitTimer ==
    /\ sh.exit # <<>> /\ up' = up \o sh.exit
    /\ sh' = [sh EXCEPT !.exit = <<>>, !.gone = TRUE]
    /\ UNCHANGED <<user, gw, pipe>>

-----------------------------------------------------------------------------
(* The client and the gateway.                                             *)

\* An input that the gateway has not looked at is like one not typed yet; it
\* looks at none once it closes the session.
Input(kinds) ==
    [t |-> "input", seq |-> user.inSeq + 1,
     keys |-> [i \in 1..Len(kinds) |-> [id |-> user.typed + i, kind |-> kinds[i]]]]
Typed(kinds) == [user EXCEPT !.inSeq = user.inSeq + 1, !.typed = user.typed + Len(kinds)]

\* _onBinary. Over the message rate, or without memory for the copy, the input is
\* refused: an error, which the client only shows. Every later one is then out of
\* sequence.
Accepted(m) == m.seq = gw.inSeq + 1
Type(kinds) ==
    /\ ~gw.closing /\ user.typed + Len(kinds) <= MaxKeys
    /\ user' = Typed(kinds)
    /\ LET m == Input(kinds)
       IN  \/ /\ Accepted(m)
              /\ gw' = [gw EXCEPT !.inSeq = m.seq] /\ pipe' = Append(pipe, m)
           \/ ~Accepted(m) /\ UNCHANGED <<gw, pipe>>
           \/ /\ gw.refused < MaxUnread
              /\ gw' = [gw EXCEPT !.refused = gw.refused + 1] /\ UNCHANGED pipe
    /\ UNCHANGED <<up, sh>>

\* The message terminal.signal.
SendSignal ==
    /\ ~gw.closing /\ user.signals < MaxSignals
    /\ user' = [user EXCEPT !.signals = user.signals + 1]
    /\ pipe' = Append(pipe, [t |-> "signal"])
    /\ UNCHANGED <<gw, up, sh>>

\* end(): the client closes, or the gateway does.
End ==
    /\ ~gw.closing /\ gw' = [gw EXCEPT !.closing = TRUE]
    /\ pipe' = Append(pipe, [t |-> "close"])
    /\ UNCHANGED <<user, up, sh>>

FromWorker ==
    /\ up # <<>> /\ up' = Tail(up)
    /\ LET r == Head(up)
       IN  \/ /\ r.t = "executed"
              /\ gw' = IF r.upto > gw.executedSeq /\ r.upto <= gw.inSeq
                       THEN [gw EXCEPT !.executedSeq = r.upto] ELSE gw
           \/ r.t = "exit" /\ gw' = [gw EXCEPT !.closing = TRUE, !.exit = Append(gw.exit, r)]
    /\ UNCHANGED <<user, pipe, sh>>

\* An acknowledgement is cumulative: one on its way is like one not sent yet.
Acknowledge ==
    /\ ~gw.closing /\ <<user.accepted, user.executed>> # <<gw.inSeq, gw.executedSeq>>
    /\ user' = [user EXCEPT !.accepted = gw.inSeq, !.executed = gw.executedSeq]
    /\ UNCHANGED <<gw, pipe, up, sh>>

-----------------------------------------------------------------------------
ShellInit ==
    /\ user = [inSeq |-> 0, typed |-> 0, accepted |-> 0, executed |-> 0, signals |-> 0]
    /\ pipe = <<>> /\ up = <<>>
    /\ \E b \in WorkerKinds :
       gw = [backend |-> b, inSeq |-> 0, executedSeq |-> 0, refused |-> 0, closing |-> FALSE, exit |-> <<>>]
    /\ sh = [pc |-> "prompt", reader |-> [buf |-> 0, value |-> "none"], typeahead |-> <<>>,
             plan |-> <<>>, aborted |-> FALSE, alive |-> TRUE, exited |-> FALSE,
             exitCode |-> 0, exit |-> <<>>, gone |-> FALSE, inputSeq |-> 0,
             arrived |-> 0, fed |-> {}, told |-> {}]  \* the last three only for the properties

\* The shell's own steps, and the messages.
ShellMoves == \/ LineRead \/ Boundary \/ CommandReadLine \/ PipelineEnds
         \/ HandleInput \/ HandleSignal \/ HandleClose \/ ExitTimer
         \/ FromWorker \/ Acknowledge

ShellNext ==
    \/ \E kinds \in Bursts : Type(kinds)
    \/ SendSignal \/ End
    \/ CommandReads \/ CommandDone \/ CommandExits
    \/ ShellMoves

\* The event loops go on; a command need not end by itself, nor the user type.
ShellSpec == ShellInit /\ [][ShellNext]_shellVars /\ WF_shellVars(ShellMoves)
-----------------------------------------------------------------------------
(* Properties.                                                             *)

\* "input that arrives between prompts is kept for the next reader, never silently
\* reordered" (kernel.js, _typeahead): the keys are fed in the order in which they
\* were typed, and each that has arrived has been fed, waits, or was dropped with
\* a bell or by an interrupt. None is missing before one that was typed later.
KeysKept ==
    sh.alive =>
        /\ \A i \in DOMAIN sh.typeahead :
              \A k \in sh.fed \cup Ids(SubSeq(sh.typeahead, 1, i - 1)) : k < sh.typeahead[i].id
        /\ 1..sh.arrived = sh.fed \cup sh.told \cup Ids(sh.typeahead)
        /\ sh.pc \in {"prompt", "reads"} /\ sh.reader.value = "none" => sh.typeahead = <<>>

\* A session exits exactly once, whichever of the end of the input, the command
\* `exit` and a close from the gateway comes first; nothing is said after it, and
\* the code is the one the user gave if it is called a logout.
Said == gw.exit \o up \o sh.exit
ExitsOnce ==
    \A i \in DOMAIN Said : Said[i].t = "exit" =>
        /\ i = Len(Said)
        /\ Said[i].reason = "logout" => Said[i].code = sh.exitCode

\* A session that is closed is told its exit, whatever its shell does; one that is
\* not has all its input accepted and learns it, unless an input was refused: no
\* later one is accepted then.
Answered ==
    /\ gw.closing ~> gw.exit # <<>>
    /\ <>[](\/ gw.closing \/ gw.refused > 0
            \/ user.accepted = user.inSeq /\ user.executed = gw.executedSeq)
=============================================================================
