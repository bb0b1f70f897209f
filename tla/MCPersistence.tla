--------------------------- MODULE MCPersistence ---------------------------
(* Persistence for TLC.                                                    *)
EXTENDS Persistence
=============================================================================
