-------------------------- MODULE MCPauseProtocol --------------------------
(* Instances of PauseProtocol for TLC. *)
EXTENDS PauseProtocol

\* Three tiles in a row, and three that are all neighbours of each other.
RowLinks      == {{1, 2}, {2, 3}}
TriangleLinks == {{1, 2}, {2, 3}, {1, 3}}
=============================================================================
