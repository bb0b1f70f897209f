--------------------------- MODULE MCDeribitSync ---------------------------
(* DeribitSync for TLC.                                                     *)
EXTENDS DeribitSync

Long(id, option, qty) == [id |-> id, option |-> option, side |-> "LONG", qty |-> qty]

\* Positions of an option in one row or two, and of the other option.
MCInitialRows == {r \in {Long(1, "btc", 1), Long(2, "btc", 1), Long(3, "eth", 2)} : r.option \in Options}
=============================================================================
