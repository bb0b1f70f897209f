---------------------------- MODULE MCOrderFill ----------------------------
(* OrderFill with the constants its runs share.                            *)
EXTENDS OrderFill
=============================================================================
