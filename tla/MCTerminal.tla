----------------------------- MODULE MCTerminal -----------------------------
(***************************************************************************)
(* The three protocols of a terminal, each for itself: a behaviour is one  *)
(* of its output, of its input or of the browser's tabs (focus), and the   *)
(* others stay as they begin. One module, for they share their processes,  *)
(* but no state: credits and input numbers are kept apart, and a new tab   *)
(* begins with new ones.                                                   *)
(***************************************************************************)
EXTENDS Output, Shell, Tabs

VARIABLE focus

terminalVars == <<focus, outputVars, shellVars, tabVars>>

TerminalInit ==
    /\ focus \in {"output", "input", "tabs"}
    /\ OutputInit /\ (focus # "output" => conn.backend = "thread")
    /\ ShellInit /\ (focus # "input" => gw.backend = "thread")
    /\ TabsInit

InOutput(A) == focus = "output" /\ A /\ UNCHANGED <<focus, shellVars, tabVars>>
InInput(A) == focus = "input" /\ A /\ UNCHANGED <<focus, outputVars, tabVars>>
InTabs(A) == focus = "tabs" /\ A /\ UNCHANGED <<focus, outputVars, shellVars>>

TerminalNext == InOutput(OutputNext) \/ InInput(ShellNext) \/ InTabs(TabsNext)

\* The fairness of OutputSpec, ShellSpec and TabsLive; one condition can stand for
\* one of each, as the focus stays.
TerminalSpec ==
    /\ TerminalInit /\ [][TerminalNext]_terminalVars
    /\ WF_terminalVars(InOutput(Moves) \/ InInput(ShellMoves) \/ InTabs(EndHalfOpen \/ EndRevoked))
    /\ \A t \in Tab : WF_terminalVars(InTabs(Goes(t)))

MCWriteSizes == {2, 5}

\* Two pipelines, the second run only when the first has failed.
MCPlans == {<<";", "||">>}

\* A control key by itself, a line, a line with the end of the input behind it in the
\* same input, and a run that is longer than the line may be.
MCBursts == {<<"int">>, <<"char", "enter">>, <<"char", "enter", "eof">>, <<"char", "char">>}
=============================================================================
