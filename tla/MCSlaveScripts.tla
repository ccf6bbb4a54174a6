--------------------------- MODULE MCSlaveScripts ---------------------------
(* Constants of SlaveScripts for TLC: one set is a part of the other, which *)
(* also holds a file that slaves of this kind skip.                         *)
EXTENDS SlaveScripts

CONSTANTS c1, c2, e1

MCName    == {"launch", "quit"}
MCNative  == [name |-> "launch", ext |-> "native"]
MCPy      == [name |-> "launch", ext |-> "py"]
MCQuit    == [name |-> "quit", ext |-> "py"]
MCOffers  == {{MCNative}, {MCNative, MCPy, MCQuit}}
MCForeign == {MCQuit}
MCLocal   == {MCNative}

=============================================================================
