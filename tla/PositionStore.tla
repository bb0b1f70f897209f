--------------------------- MODULE PositionStore ---------------------------
(***************************************************************************)
(* The user_order_positions table of the position monitor service (PMS),   *)
(* internal/persistence/global_state.go.  The table is held in memory under *)
(* GlobalState.rw, so each operation below is atomic.  Ids are handed out   *)
(* by a counter and rows are never removed, so the table is a sequence and  *)
(* a position's id is its index.                                           *)
(*                                                                         *)
(* A row keeps what the fill and close handlers tell apart: the uprunning   *)
(* order it was opened for, its quantity and its Deleted mark.              *)
(***************************************************************************)
LOCAL INSTANCE Naturals
LOCAL INSTANCE Sequences

\* A row; order ranges over a set of uprunning order ids.
Position(Ids) == [order : Ids, qty : Nat, deleted : BOOLEAN]

NewPosition(o, q) == [order |-> o, qty |-> q, deleted |-> FALSE]

\* The positions of uprunning order o that are not deleted.
ActiveFor(table, o) ==
    {i \in 1 .. Len(table) : table[i].order = o /\ ~table[i].deleted}

\* Mutant: CreateUserOrderPosition in its place, which does not look for one.
CreateAlways(table, o, q) == Append(table, NewPosition(o, q))

\* CreateUserOrderPositionIfAbsent: no row when an active one for the same
\* uprunning order exists.
CreateIfAbsent(table, o, q) ==
    IF ActiveFor(table, o) # {} THEN table
                                ELSE Append(table, NewPosition(o, q))

\* CloseAndCreateRemainingUserOrderPosition refuses a quantity larger than
\* the row's; it does not look at Deleted.
CloseRefused(table, i, q) == q > table[i].qty

MarkClosed(table, i) == [table EXCEPT ![i].deleted = TRUE]

\* Mutant: a partial close closes the whole row.
CloseWhole(table, i, q) == MarkClosed(table, i)

\* The closed row keeps its quantity; what is left goes to a new active row
\* that copies the uprunning order id.
CloseAndCreateRemaining(table, i, q) ==
    IF q < table[i].qty
    THEN Append(MarkClosed(table, i),
                NewPosition(table[i].order, table[i].qty - q))
    ELSE MarkClosed(table, i)
=============================================================================
