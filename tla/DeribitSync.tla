---------------------------- MODULE DeribitSync ----------------------------
(***************************************************************************)
(* The synchronisation of one user's option positions with Deribit.        *)
(*                                                                         *)
(* A sync of the position monitor service (PMS) reads the venue's          *)
(* positions, then its own, and creates, deletes and adds rows until they  *)
(* agree.  One runs when the PMS starts; another for every message about   *)
(* an order that is not found, one after the other.  Both ask the user     *)
(* order service (UOS) for the strategies of their rows.  Meanwhile the    *)
(* user trades, by orders of the UOS or by hand, and fills are recorded.   *)
(*                                                                         *)
(* Orders that reduce a position, and prices, are left out, and so are the *)
(* rows of user_positions, which each risk cycle makes anew.               *)
(***************************************************************************)
EXTENDS Integers, Sequences, FiniteSets, FiniteSetsExt, Functions

CONSTANTS
    Options,     \* instruments, each of a currency of its own
    InitialRows, \* rows that may be there when the PMS starts
    MaxQty,      \* bound: size of a position at the venue
    MaxTrades,   \* bound: trades while the PMS runs
    MaxFaults    \* bound: calls that fail, messages lost, options that expire

Sides == {"LONG", "SHORT"}
Keys == Options \X Sides

\* The tables of the UOS that a row needs an entry of, in this order; that of
\* strategy_assets in between, which nothing reads, is left out.
Tables == <<"strategies", "user_strategies">>

\* The sync at the start, and those of the order monitor under its syncMu.
Syncs == {"startup", "monitor"}

\* The rows are found by their ids.
ASSUME RowsAssumption ==
    /\ InitialRows \subseteq [id : Nat \ {0}, option : Options, side : Sides,
                              qty : Nat \ {0}]
    /\ IsFiniteSet(InitialRows)
    /\ \A r, s \in InitialRows : r.id = s.id => r = s
ASSUME BoundsAssumption == {MaxQty, MaxTrades, MaxFaults} \subseteq Nat

VARIABLES
    venue,    \* option -> net position at the venue, below zero if short
    trades,   \* trades since the PMS started, and what came of them
    rows,     \* active user_order_positions of the PMS
    nextId,   \* id of the next row
    waiting,  \* goroutines that wait for syncMu
    syncs,    \* the syncs under way
    registry, \* table, option -> number of rows called SYNC_<option>
    spoiled,  \* history: the last sync was disturbed, or a message is missing
    faults    \* bound

tables == <<rows, nextId, registry>>
vars == <<venue, trades, rows, nextId, waiting, syncs, registry, spoiled, faults>>

Qty(net, side) ==
    IF side = "LONG" THEN Max({net, 0}) ELSE Max({-net, 0})
Held(k) == Qty(venue[k[1]], k[2])
RowsOf(k) == {r \in rows : r.option = k[1] /\ r.side = k[2]}
QtyOf(set) == SumFunction([r \in set |-> r.qty])
Books(k) == QtyOf(RowsOf(k))

\* An order of the UOS has traded and is not yet on the books.
InFlight == \E i \in DOMAIN trades : trades[i].own /\ ~trades[i].recorded

Idle == [pc |-> "idle", quiet |-> FALSE]
Begun == [pc |-> "begin", quiet |-> FALSE]
Active(p) == syncs[p].pc \notin {"idle", "begin"}

\* The syncs under way after something that they may miss.
Disturbed ==
    [p \in Syncs |-> IF Active(p) THEN [syncs[p] EXCEPT !.quiet = FALSE]
                     ELSE syncs[p]]

Init ==
    /\ venue \in [Options -> -MaxQty .. MaxQty]
    /\ trades = << >>
    /\ rows \in SUBSET InitialRows
    /\ nextId = Max({r.id : r \in InitialRows} \cup {0}) + 1
    /\ waiting = 0
    /\ syncs = [p \in Syncs |-> IF p = "startup" THEN Begun ELSE Idle]
    /\ registry = [t \in DOMAIN Tables |-> [o \in Options |-> 0]]
    /\ spoiled = FALSE
    /\ faults = 0

Fault == faults < MaxFaults /\ faults' = faults + 1
-----------------------------------------------------------------------------
(* The user, the venue and the order monitor.                              *)

\* An order, of the UOS or by hand, trades one contract; those of the UOS open
\* a position, which the venue does not net with an opposite one.  The monitor
\* is told of its fill, and that it is open if it rests first.
Trade(o, delta, own, messages) ==
    /\ Len(trades) < MaxTrades
    /\ venue[o] + delta \in -MaxQty .. MaxQty
    /\ own => venue[o] * delta >= 0
    /\ venue' = [venue EXCEPT ![o] = @ + delta]
    /\ trades' = Append(trades, [option |-> o, delta |-> delta, own |-> own,
                                 registered |-> FALSE, recorded |-> FALSE,
                                 messages |-> messages])
    /\ syncs' = Disturbed
    /\ UNCHANGED <<tables, waiting, spoiled, faults>>

\* An option expires, which no message of an order tells.
Expire(o) ==
    /\ venue[o] # 0
    /\ Fault
    /\ venue' = [venue EXCEPT ![o] = 0]
    /\ syncs' = Disturbed
    /\ spoiled' = TRUE
    /\ UNCHANGED <<trades, tables, waiting>>

\* The UOS writes the order that it has placed, or never comes to it.
Register(i) ==
    /\ trades[i].own /\ ~trades[i].registered
    /\ trades' = [trades EXCEPT ![i].registered = TRUE]
    /\ UNCHANGED <<venue, tables, waiting, syncs, spoiled, faults>>

\* The monitor or the scanner finds the order FILLED.
Record(i) ==
    /\ trades[i].registered /\ ~trades[i].recorded
    /\ trades' = [trades EXCEPT ![i].recorded = TRUE, ![i].messages = 0]
    /\ rows' = rows \cup {[id |-> nextId, option |-> trades[i].option, qty |-> 1,
                           side |-> IF trades[i].delta > 0 THEN "LONG" ELSE "SHORT"]}
    /\ nextId' = nextId + 1
    /\ syncs' = Disturbed
    /\ UNCHANGED <<venue, waiting, registry, spoiled, faults>>

\* Mutant: the message is looked up again and again.
GiveUpAgain(i) ==
    /\ trades[i].messages > 0 /\ ~trades[i].registered
    /\ waiting' = waiting + 1
    /\ UNCHANGED <<venue, trades, tables, syncs, spoiled, faults>>

\* Mutant: an order of somebody else is ignored.
GiveUpOnly(i) ==
    /\ trades[i].messages > 0 /\ ~trades[i].registered
    /\ trades' = [trades EXCEPT ![i].messages = @ - 1]
    /\ UNCHANGED <<venue, tables, waiting, syncs, spoiled, faults>>

\* HandleDeribitOrderUpdate has looked five times for the order of a message.
GiveUp(i) ==
    /\ trades[i].messages > 0 /\ ~trades[i].registered
    /\ trades' = [trades EXCEPT ![i].messages = @ - 1]
    /\ waiting' = waiting + 1
    /\ UNCHANGED <<venue, tables, syncs, spoiled, faults>>

\* The stream is down when the venue sends its messages.
LoseMessage(i) ==
    /\ trades[i].messages > 0
    /\ Fault
    /\ trades' = [trades EXCEPT ![i].messages = 0]
    /\ spoiled' = (spoiled \/ ~trades[i].registered)
    /\ UNCHANGED <<venue, tables, waiting, syncs>>

LockSyncMu ==
    /\ waiting > 0
    /\ syncs["monitor"] = Idle
    /\ waiting' = waiting - 1
    /\ syncs' = [syncs EXCEPT !["monitor"] = Begun]
    /\ UNCHANGED <<venue, trades, tables, spoiled, faults>>
-----------------------------------------------------------------------------
(* SyncDeribitPositions.                                                   *)

Goto(p, s) ==
    /\ syncs' = [syncs EXCEPT ![p] = s]
    /\ UNCHANGED <<venue, trades, waiting, spoiled>>

\* GetPositions, of every currency but those in failed.  It is history whether
\* anything goes on meanwhile that the sync may miss.
Query(p, failed) ==
    /\ syncs[p].pc = "begin"
    /\ syncs' = [Disturbed EXCEPT ![p] =
           [pc |-> "match",
            quiet |-> failed = {} /\ ~InFlight /\ \A q \in Syncs : ~Active(q),
            seen |-> [o \in Options |-> IF o \in failed THEN 0 ELSE venue[o]]]]
    /\ UNCHANGED <<venue, trades, tables, waiting, spoiled>>

\* A currency whose positions are not returned is passed over; a user that
\* there is no connection for is not synced.
QueryFails(p) ==
    /\ Fault
    /\ \/ \E o \in Options : Query(p, {o})
       \/ /\ syncs[p].pc = "begin"
          /\ syncs' = [syncs EXCEPT ![p] = Idle]
          /\ spoiled' = TRUE
          /\ UNCHANGED <<venue, trades, tables, waiting>>

Row(k, qty) == [option |-> k[1], side |-> k[2], qty |-> qty]
Numbered(id, row) ==
    [id |-> id, option |-> row.option, side |-> row.side, qty |-> row.qty]

\* Mutant: all that the venue has is added to the rows that are there.
ToAdjustWhole(seen) ==
    {Row(k, Qty(seen[k[1]], k[2])) :
        k \in {x \in Keys : Books(x) > 0 /\ Qty(seen[x[1]], x[2]) > Books(x)}}

\* MatchPositions: the rows to add where the venue has more, ...
ToAdjust(seen) ==
    {Row(k, Qty(seen[k[1]], k[2]) - Books(k)) :
        k \in {x \in Keys : Books(x) > 0 /\ Qty(seen[x[1]], x[2]) > Books(x)}}

\* ... to delete where it has less, ...
ToDelete(seen) ==
    UNION {{r.id : r \in RowsOf(k)} :
               k \in {x \in Keys : Qty(seen[x[1]], x[2]) < Books(x)}}

\* ... and to create where there are none, or none are left.
ToCreate(seen) ==
    {Row(k, Qty(seen[k[1]], k[2])) :
        k \in {x \in Keys : LET q == Qty(seen[x[1]], x[2])
                            IN  q > 0 /\ (Books(x) = 0 \/ q < Books(x))}}

Match(p) ==
    LET seen == syncs[p].seen
    IN  /\ syncs[p].pc = "match"
        /\ Goto(p, [pc |-> "work", quiet |-> syncs[p].quiet,
                    create |-> ToCreate(seen), delete |-> ToDelete(seen),
                    adjust |-> ToAdjust(seen)])
        /\ UNCHANGED <<tables, faults>>

\* A sync that has its lists, and one with a row in hand besides, which it has
\* the entries for of the tables before the given one.
Lists(s) ==
    [pc |-> "work", quiet |-> s.quiet, create |-> s.create, delete |-> s.delete,
     adjust |-> s.adjust]
RowInHand(s, pc, row, table) ==
    [pc |-> pc, quiet |-> s.quiet, create |-> s.create \ {row}, delete |-> s.delete,
     adjust |-> s.adjust \ {row}, row |-> row, table |-> table]

TakeCreate(p) ==
    /\ syncs[p].pc = "work"
    /\ \E row \in syncs[p].create : Goto(p, RowInHand(syncs[p], "check", row, 1))
    /\ UNCHANGED <<tables, faults>>

\* Mutant: what is to be deleted is deleted first.
DeleteRowFirst(p) ==
    /\ syncs[p].pc = "work"
    /\ \E id \in syncs[p].delete :
         /\ Goto(p, [syncs[p] EXCEPT !.delete = @ \ {id}])
         /\ rows' = {r \in rows : r.id # id}
    /\ UNCHANGED <<nextId, registry, faults>>

\* markPositionDeleted, after all that is to be created.
DeleteRow(p) ==
    /\ syncs[p].pc = "work"
    /\ syncs[p].create = {}
    /\ \E id \in syncs[p].delete :
         /\ Goto(p, [syncs[p] EXCEPT !.delete = @ \ {id}])
         /\ rows' = {r \in rows : r.id # id}
    /\ UNCHANGED <<nextId, registry, faults>>

TakeAdjust(p) ==
    /\ syncs[p].pc = "work"
    /\ syncs[p].create = {} /\ syncs[p].delete = {}
    /\ \E row \in syncs[p].adjust : Goto(p, RowInHand(syncs[p], "check", row, 1))
    /\ UNCHANGED <<tables, faults>>

Finish(p) ==
    /\ syncs[p].pc = "work"
    /\ syncs[p].create = {} /\ syncs[p].delete = {} /\ syncs[p].adjust = {}
    /\ syncs' = [syncs EXCEPT ![p] = Idle]
    /\ spoiled' = ~syncs[p].quiet
    /\ UNCHANGED <<venue, trades, tables, waiting, faults>>
-----------------------------------------------------------------------------
(* createPositionWithRPC, and the get-or-create calls in the UOS.          *)

Entries(p) == registry[syncs[p].table][syncs[p].row.option]

\* The answer to a call: the next call, or with the last CreateUserOrderPosition.
Answer(p) ==
    IF syncs[p].table < Len(Tables)
    THEN /\ Goto(p, RowInHand(syncs[p], "check", syncs[p].row, syncs[p].table + 1))
         /\ UNCHANGED <<rows, nextId>>
    ELSE /\ Goto(p, Lists(syncs[p]))
         /\ rows' = rows \cup {Numbered(nextId, syncs[p].row)}
         /\ nextId' = nextId + 1

\* The entry is looked for under the read lock.
Check(p) ==
    /\ syncs[p].pc = "check"
    /\ IF Entries(p) > 0 THEN Answer(p)
       ELSE /\ Goto(p, [syncs[p] EXCEPT !.pc = "create"])
            /\ UNCHANGED <<rows, nextId>>
    /\ UNCHANGED <<registry, faults>>

\* Mutant: the entry is not looked for again under the lock.
CreateUnchecked(p) ==
    /\ syncs[p].pc = "create"
    /\ Answer(p)
    /\ registry' = [registry EXCEPT ![syncs[p].table][syncs[p].row.option] = @ + 1]
    /\ UNCHANGED faults

\* It is created under the lock, if it is still not there.
Create(p) ==
    /\ syncs[p].pc = "create"
    /\ Answer(p)
    /\ registry' = IF Entries(p) > 0 THEN registry
                   ELSE [registry EXCEPT ![syncs[p].table][syncs[p].row.option] = 1]
    /\ UNCHANGED faults

\* The row is passed over when a call fails.
CallFails(p) ==
    /\ syncs[p].pc \in {"check", "create"}
    /\ Fault
    /\ Goto(p, [Lists(syncs[p]) EXCEPT !.quiet = FALSE])
    /\ UNCHANGED tables

Sync(p) ==
    \/ Query(p, {}) /\ UNCHANGED faults
    \/ Match(p)  \/ TakeCreate(p) \/ DeleteRow(p) \/ TakeAdjust(p) \/ Finish(p)
    \/ Check(p)  \/ Create(p)
-----------------------------------------------------------------------------
Next ==
    \/ \E o \in Options, delta \in {-1, 1}, own \in BOOLEAN, messages \in 1 .. 2 :
         Trade(o, delta, own, messages)
    \/ \E o \in Options : Expire(o)
    \/ \E i \in DOMAIN trades : Register(i) \/ Record(i) \/ GiveUp(i) \/ LoseMessage(i)
    \/ LockSyncMu
    \/ \E p \in Syncs : Sync(p) \/ QueryFails(p) \/ CallFails(p)

\* Goroutines go on, and the scanner finds what is registered.
Fairness ==
    /\ \A i \in 1 .. MaxTrades : WF_vars(i \in DOMAIN trades /\ (Record(i) \/ GiveUp(i)))
    /\ WF_vars(LockSyncMu)
    /\ \A p \in Syncs : WF_vars(Sync(p))

Spec == Init /\ [][Next]_vars /\ Fairness
-----------------------------------------------------------------------------
TradeType == [option : Options, delta : {-1, 1}, own : BOOLEAN, registered : BOOLEAN,
              recorded : BOOLEAN, messages : 0 .. 2]
RowType == [option : Options, side : Sides, qty : Nat \ {0}]
RowsBelow(n) == [id : 1 .. n - 1, option : Options, side : Sides, qty : Nat \ {0}]

\* The states of a sync: before its lists are made, with them, and with a row
\* in hand, when n is the id of the next row.
MatchStates ==
    [pc : {"match"}, quiet : BOOLEAN, seen : [Options -> -MaxQty .. MaxQty]]
WorkStates(n) ==
    [pc : {"work"}, quiet : BOOLEAN, create : SUBSET RowType,
     delete : SUBSET (1 .. n - 1), adjust : SUBSET RowType]
CallStates(n) ==
    [pc : {"check", "create"}, quiet : BOOLEAN, create : SUBSET RowType,
     delete : SUBSET (1 .. n - 1), adjust : SUBSET RowType, row : RowType,
     table : DOMAIN Tables]
SyncStates(n) == {Idle, Begun} \cup MatchStates \cup WorkStates(n) \cup CallStates(n)

\* Each message starts one goroutine at most.
TypeOK ==
    /\ venue \in [Options -> -MaxQty .. MaxQty]
    /\ trades \in Seq(TradeType) /\ Len(trades) <= MaxTrades
    /\ rows \subseteq RowsBelow(nextId)
    /\ nextId \in Nat \ {0}
    /\ waiting \in 0 .. 2 * MaxTrades
    /\ syncs \in [Syncs -> SyncStates(nextId)]
    /\ registry \in [DOMAIN Tables -> [Options -> Nat]]
    /\ spoiled \in BOOLEAN
    /\ faults \in 0 .. MaxFaults

Done(p) == /\ syncs[p].pc = "work"
           /\ syncs[p].create = {} /\ syncs[p].delete = {} /\ syncs[p].adjust = {}

\* A sync during which no call fails, no fill is recorded or waits to be, the
\* venue does not change and no other sync runs, leaves the PMS with the
\* positions of the venue, whatever it had before.
QuietSyncMatches ==
    \A p \in Syncs : Done(p) /\ syncs[p].quiet => \A k \in Keys : Books(k) = Held(k)

\* Nor does such a sync ever take from the risk control a position that it
\* knew of and the venue has: what replaces a row is there before it goes.
NeverUncovered ==
    [][\A p \in Syncs :
          Active(p) /\ syncs[p].quiet =>
              \A k \in Keys : Books(k)' >= Min({Books(k), Held(k)})]_vars

\* The registry and the calls under way as NameRegistry has them.
Names == (1 .. Len(Tables)) \X Options
Registry == INSTANCE NameRegistry WITH
    Callers <- Syncs,
    rows <- [n \in Names |-> registry[n[1]][n[2]]],
    answers <- [p \in Syncs |->
        IF syncs[p].pc \in {"check", "create"}
        THEN {n \in Names :
                 n[1] < syncs[p].table /\ n[2] = syncs[p].row.option}
        ELSE {}]
\* The get-or-create calls of strategies and user strategies, with their two
\* looks and their lock, give a name one row and one answer, for syncs that
\* ask at once (docs/deribit-integration.md:701 has only one sync at a time).
OneRowPerName == Registry!Spec

\* A difference between venue and books that anything tells the PMS of goes
\* away, unless the last sync was disturbed.
BooksSettle ==
    \A k \in Keys : Books(k) # Held(k) ~> Books(k) = Held(k) \/ spoiled
=============================================================================
