---------------------------- MODULE MCInputWindow ----------------------------
EXTENDS InputWindow

CONSTANTS h1, h2, h3

\* Two handlers of one priority, and one to be told before them.
MCPriority == [h \in Handlers |-> IF h = h3 THEN 0 ELSE 1]
=============================================================================
