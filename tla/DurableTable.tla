--------------------------- MODULE DurableTable ---------------------------
(***************************************************************************)
(* What the persistence layer promises of one table: what a restart would  *)
(* read of a row is never replaced by an older state of the row, unless    *)
(* the row is exposed.  Which writes are exposed, and why, is the          *)
(* business of the implementation; see module Persistence.                 *)
(***************************************************************************)
LOCAL INSTANCE Naturals

CONSTANT Ids        \* the row ids of the table

VARIABLES
    durable,        \* the stamp of the row a restart would read, 0 for none
    exposed         \* the rows whose last write may be lost

vars == <<durable, exposed>>

Init ==
    /\ durable = [id \in Ids |-> 0]
    /\ exposed = {}

\* Rows are recorded, in any order and several at a time; what an exposed
\* row has on disk is not promised.
Next ==
    /\ durable' \in [Ids -> Nat]
    /\ exposed' \subseteq Ids
    /\ \A id \in Ids \ exposed : durable'[id] >= durable[id]

Spec == Init /\ [][Next]_vars
=============================================================================
