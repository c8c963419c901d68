-------------------------------- MODULE MCData --------------------------------
(***************************************************************************)
(* The parts of the terminal that work each for itself: a behaviour is one *)
(* of one part (focus), the others stay as they were made.                 *)
(***************************************************************************)
EXTENDS Ledger, Vfs, VtParser, Screen, Frames, CommandLine, LineReader

CONSTANTS a, b

VARIABLE focus   \* the part that is used

dataVars == <<focus, ledgerVars, vfsVars, parserVars, screenVars, frameVars, lineVars, readerVars,
              bridgeVars>>

DataInit ==
  /\ focus \in {"ledger", "vfs", "parser", "screen", "frames", "line", "editor", "bridge"}
  /\ LedgerInit /\ VfsInit /\ ParserInit /\ FramesInit /\ ReaderInit
  /\ BridgeInit /\ (focus # "bridge" => records = << >>)
  /\ ScreenInit /\ (focus # "screen" => <<cols, rows>> = <<1, 1>>)
  /\ LineInit /\ (focus # "line" => around = << >>)

DataNext ==
  /\ UNCHANGED focus
  /\ \/ focus = "ledger" /\ LedgerNext
        /\ UNCHANGED <<vfsVars, parserVars, screenVars, frameVars, lineVars, readerVars, bridgeVars>>
     \/ focus = "vfs" /\ VfsNext
        /\ UNCHANGED <<ledgerVars, parserVars, screenVars, frameVars, lineVars, readerVars, bridgeVars>>
     \/ focus = "parser" /\ ParserNext
        /\ UNCHANGED <<ledgerVars, vfsVars, screenVars, frameVars, lineVars, readerVars, bridgeVars>>
     \/ focus = "screen" /\ ScreenNext
        /\ UNCHANGED <<ledgerVars, vfsVars, parserVars, frameVars, lineVars, readerVars, bridgeVars>>
     \/ focus = "frames" /\ FramesNext
        /\ UNCHANGED <<ledgerVars, vfsVars, parserVars, screenVars, lineVars, readerVars, bridgeVars>>
     \/ focus = "line" /\ LineNext
        /\ UNCHANGED <<ledgerVars, vfsVars, parserVars, screenVars, frameVars, readerVars, bridgeVars>>
     \/ focus = "editor" /\ ReaderNext
        /\ UNCHANGED <<ledgerVars, vfsVars, parserVars, screenVars, frameVars, lineVars, bridgeVars>>
     \/ focus = "bridge" /\ BridgeNext
        /\ UNCHANGED <<ledgerVars, vfsVars, parserVars, screenVars, frameVars, lineVars, readerVars>>

DataSpec == DataInit /\ [][DataNext]_dataVars

MCCap == [c \in Bucket |-> 1]
MCShape == {<<1, 1>>, <<2, 3>>}
MCSnapshots ==
  {[p \in {Root, <<a>>, <<a, a>>} |-> IF p = <<a, a>> THEN FileNode(2) ELSE DirNode],
   [p \in {Root, <<b>>} |-> IF p = <<b>> THEN FileNode(9) ELSE DirNode]}

\* The words are made of these, and stand at the operators without a space.
AllOf(how, cs) == {[how |-> how, c |-> c] : c \in cs}
MCPiece ==
  AllOf("plain", {"a", "~", "/"}) \cup AllOf("escaped", {">", "~"}) \cup AllOf("single", {";", "$"})
    \cup AllOf("double", {" ", "\\"}) \cup AllOf("variable", {"A"}) \cup AllOf("inside", {"A"})
MCQuotedPiece == AllOf("plain", {"a"}) \cup AllOf("single", {"$"})
MCSpacing == {<< >>}

MCCommandNames == {<<"a", "A">>, <<"a", "A", "A">>}
MCFileNames == {<<"a", "/">>, <<"A", "a">>, <<"A", "A">>}
MCOldLines == << <<"A">> >>

MCSymmetry == Permutations(Key) \cup Permutations(LeaseId) \cup Permutations(Tenant)
=============================================================================
