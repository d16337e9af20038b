---------------------------- MODULE MCSnapshotRow ----------------------------
EXTENDS SnapshotRow
MCPart == {"status", "factory"}
MCArrival == {[up |-> FALSE, parts |-> {}], [up |-> TRUE, parts |-> {"status"}], [up |-> TRUE, parts |-> MCPart]}
\* The factory grows over the cap after a snapshot or two, and shrinks again.
MCOversized == {<<"factory", 2>>}
=============================================================================
