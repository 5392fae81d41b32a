------------------------- MODULE MCHttpConnections -------------------------
(* Small instances of HttpConnections for TLC.                              *)
EXTENDS HttpConnections

CONSTANTS main, w1

\* Every connection hashes to the same entry.
Collide == [id \in 0..MaxConn |-> 1]

UsesAll   == {"answer", "upgrade", "give", "kill", "live", "close"}
UsesSlow  == {"answer", "slow"}
UsesClose == {"upgrade", "close", "closeAgain"}
=============================================================================
