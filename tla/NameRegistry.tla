--------------------------- MODULE NameRegistry ----------------------------
(***************************************************************************)
(* What the get-or-create calls of the user order service promise: a name  *)
(* is given a row once, whoever asks for it and however many ask at once,  *)
(* and nobody is answered before there is that row.                        *)
(***************************************************************************)
EXTENDS Naturals

CONSTANTS
    Names,  \* names, each of its table
    Callers

VARIABLES
    rows,   \* name -> number of rows
    answers \* caller -> names that it has been answered

vars == <<rows, answers>>

Init ==
    /\ rows = [n \in Names |-> 0]
    /\ answers = [c \in Callers |-> {}]

\* A name that has no row gets one, or none does; answers come, and are
\* forgotten, of names that have theirs.
Next ==
    /\ \/ UNCHANGED rows
       \/ \E n \in Names : rows[n] = 0 /\ rows' = [rows EXCEPT ![n] = 1]
    /\ answers' \in [Callers -> SUBSET {n \in Names : rows'[n] = 1}]

Spec == Init /\ [][Next]_vars
=============================================================================
