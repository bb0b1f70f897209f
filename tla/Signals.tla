------------------------------ MODULE Signals ------------------------------
(***************************************************************************)
(* What the user order service (UOS) does with the trading signals of one  *)
(* strategy, user and symbol, internal/signal, and what the position       *)
(* monitor service (PMS) does meanwhile with the orders and the close      *)
(* rules that come of them.                                                *)
(*                                                                         *)
(* Every signal is handled by the goroutine of its HTTP request, to the    *)
(* end, and no lock is held between two calls.  The strategy is configured *)
(* as signal_close: the default rule generator leaves it alone.            *)
(*                                                                         *)
(* Each order has the same quantity; prices, filters, cash and leverage    *)
(* only decide whether an opening signal is refused.  The execution of an  *)
(* order is the business of module OrderFill and that of a close order of  *)
(* RiskClose; here both are carried out in full.                           *)
(***************************************************************************)
EXTENDS Naturals, Sequences, FiniteSets

CONSTANTS
    Handlers,     \* requests in service at the same time
    Actions,      \* actions of the strategy signals, a subset of AllActions
    AgentSides,   \* sides of the orders of the agents' API, 0 long or 1 short
    PosTypes,     \* of the strategy: futures, options
    Parts,        \* the most positions the strategy may have
    PollLimit,    \* pollIterations
    MaxSignals,   \* bound: signals received
    MaxOrders,    \* bound: user orders created
    MaxFaults     \* bound: calls that fail, notifications lost

Opening == {"buy", "sell"}
Closing == {"buy_close", "sell_close"}
Reversing == {"reverse_long", "reverse_short"}
AllActions == Opening \cup Closing \cup Reversing

ASSUME ActionsAssumption == Actions \subseteq AllActions /\ AgentSides \subseteq {0, 1}
ASSUME PosTypesAssumption == PosTypes \subseteq {"futures", "options"}
ASSUME BoundsAssumption ==
    /\ {PollLimit, MaxSignals, MaxOrders, MaxFaults} \subseteq Nat
    /\ Parts \in Nat \ {0}    \* zero parts is a strategy without a limit

VARIABLES
    posType,        \* the strategy's position type; never changes
    strategies,     \* UOS: number of strategies rows with the signal's name
    userStrategies, \* UOS: user_strategies rows of the user and the name; a
                    \* row is the id of its strategies row
    orders,         \* user_orders and their uprunning orders, in one table
    positions,      \* PMS: user_order_positions
    rules,          \* PMS: the close rules, in the order of their ids
    cycle,          \* PMS: the risk cycle
    resets,         \* PMS: rows whose rules a fill handler is about to reset
    handler,        \* UOS: the request handlers
    signals, faults \* bounds

pms == <<orders, positions, rules, cycle, resets>>
registry == <<strategies, userStrategies>>
bounds == <<signals, faults>>
vars == <<posType, strategies, userStrategies, orders, positions, rules, cycle,
          resets, handler, signals, faults>>

Sides == {"long", "short"}
Opposite(side) == IF side = "long" THEN "short" ELSE "long"
OpenSide(a) == IF a \in {"buy", "reverse_long"} THEN "long" ELSE "short"
CloseSide(a) == IF a \in {"buy_close", "reverse_long"} THEN "short" ELSE "long"

\* What an agent's order becomes.
AgentAction(side) == IF side = 0 THEN "buy" ELSE "sell"
Incoming == Actions \cup {AgentAction(side) : side \in AgentSides}

Pcs == {"idle", "find", "create", "findUser", "createUser", "count", "pending",
        "invalidate", "order", "place", "query", "close", "rule", "wait"}

Idle == [pc |-> "idle", action |-> "none", strategy |-> 0, row |-> 0,
         active |-> 0, order |-> 0, polls |-> 0, calm |-> TRUE, seen |-> {},
         stale |-> {}]

\* An order's fields: its user_strategies row, its side, its status in UOS,
\* and whether it is on the exchange with the PMS watching it; history: the
\* rules that were invalidated for it, and whether nothing happened during
\* the check of the parts limit.
Order(row, side, stale, calm) ==
    [row |-> row, side |-> side, status |-> "new", watched |-> FALSE,
     stale |-> stale, calm |-> calm]

\* A position, the rule whose close order it has, and whether the UOS has
\* been told of the order's fill.
Position(o) == [order |-> o, active |-> TRUE, closing |-> 0, told |-> FALSE]

\* A close rule; history: the positions it was made for.
Rule(row, targets) ==
    [row |-> row, status |-> "active", used |-> FALSE, targets |-> targets]

OrderIds == 1 .. Len(orders)
PositionIds == 1 .. Len(positions)
RuleIds == 1 .. Len(rules)

RowOf(p) == orders[positions[p].order].row
SideOf(p) == orders[positions[p].order].side

\* The active positions of a row, on any side.
ActiveOf(row) == {p \in PositionIds : positions[p].active /\ RowOf(p) = row}
PendingOf(row) == {o \in OrderIds : orders[o].row = row /\ orders[o].status = "new"}

\* The positions that HandleCloseSignal and HandleReverseSignal ask for.  The
\* PMS keeps the symbol an option has on the exchange, as HandleOpen sent it;
\* the query has the quote currency appended to it, and finds none.
Queried(row, side) ==
    IF posType = "options" THEN {} ELSE {p \in ActiveOf(row) : SideOf(p) = side}

Init ==
    /\ posType \in PosTypes
    /\ strategies = 0
    /\ userStrategies = << >>
    /\ orders = << >>
    /\ positions = << >>
    /\ rules = << >>
    /\ cycle = [pc |-> "idle"]
    /\ resets = {}
    /\ handler = [h \in Handlers |-> Idle]
    /\ signals = 0
    /\ faults = 0

Fault == faults < MaxFaults /\ faults' = faults + 1

At(h, pc) == handler[h].pc = pc
Goto(h, pc) == handler' = [handler EXCEPT ![h].pc = pc]
Answer(h) == handler' = [handler EXCEPT ![h] = Idle]
-----------------------------------------------------------------------------
(* HandleStrategySignal: resolve the strategy, then dispatch.              *)

\* A signal, or an agent's order, that passes validation.
Receive(h, a) ==
    /\ At(h, "idle")
    /\ signals < MaxSignals
    /\ signals' = signals + 1
    /\ handler' = [handler EXCEPT ![h] = [Idle EXCEPT !.pc = "find", !.action = a]]
    /\ UNCHANGED <<posType, registry, pms, faults>>

\* Where a signal goes once its row is known.
Dispatch(h, row) ==
    handler' = [handler EXCEPT
        ![h].strategy = 0,
        ![h].row = row,
        ![h].pc = CASE handler[h].action \in Opening -> "count"
                    [] handler[h].action \in Closing -> "close"
                    [] handler[h].action \in Reversing -> "query"]

\* GetUserStrategyByUserNameStrategy, and UpdateUserStrategy if there is one.
LookUpUserStrategy(h, s) ==
    LET rows == {i \in 1 .. Len(userStrategies) : userStrategies[i] = s}
    IN  \/ /\ rows = {}
           /\ handler' = [handler EXCEPT ![h].strategy = s, ![h].pc = "createUser"]
        \/ \E row \in rows : Dispatch(h, row)

\* GetStrategyByName: any row of that name, in the order of a map's iteration.
\* As rows stay, the lookup that follows may be taken together with it.
FindStrategy(h) ==
    /\ At(h, "find")
    /\ \/ strategies = 0 /\ Goto(h, "create")
       \/ \E s \in 1 .. strategies : LookUpUserStrategy(h, s)
    /\ UNCHANGED <<posType, registry, pms, bounds>>

CreateStrategy(h) ==
    /\ At(h, "create")
    /\ strategies' = strategies + 1
    /\ handler' = [handler EXCEPT ![h].strategy = strategies', ![h].pc = "findUser"]
    /\ UNCHANGED <<posType, userStrategies, pms, bounds>>

FindUserStrategy(h) ==
    /\ At(h, "findUser")
    /\ LookUpUserStrategy(h, handler[h].strategy)
    /\ UNCHANGED <<posType, registry, pms, bounds>>

CreateUserStrategy(h) ==
    /\ At(h, "createUser")
    /\ userStrategies' = Append(userStrategies, handler[h].strategy)
    /\ Dispatch(h, Len(userStrategies'))
    /\ UNCHANGED <<posType, strategies, pms, bounds>>

Resolve(h) == \/ FindStrategy(h)     \/ CreateStrategy(h)
              \/ FindUserStrategy(h) \/ CreateUserStrategy(h)
-----------------------------------------------------------------------------
(* HandleOpen.                                                             *)

\* The signal's exchange, expiry, status or cash (pc "count"), or the filters
\* of the exchange (pc "order", when the rules are invalidated already) are
\* against it.
RefuseOpen(h) ==
    /\ handler[h].pc \in {"count", "order"}
    /\ Answer(h)
    /\ UNCHANGED <<posType, registry, pms, bounds>>

\* checkPartsLimit asks the PMS for the active positions; if the call fails,
\* the UOS counts its own copy, which has those of before its start.
CountActive(h) ==
    /\ At(h, "count")
    /\ \/ /\ handler' = [handler EXCEPT ![h].pc = "pending", ![h].calm = TRUE,
                           ![h].active = Cardinality(ActiveOf(handler[h].row))]
          /\ UNCHANGED faults
       \/ /\ Fault
          /\ handler' = [handler EXCEPT ![h].pc = "pending", ![h].calm = FALSE,
                           ![h].active = 0]
    /\ UNCHANGED <<posType, registry, pms, signals>>

\* Mutant: the limit itself is let through.
LimitAtMost(h) == handler[h].active + Cardinality(PendingOf(handler[h].row)) <= Parts

\* The condition under which the signal may go on.
WithinLimit(h) == handler[h].active + Cardinality(PendingOf(handler[h].row)) < Parts

\* ... and then its own pending orders.
CountPending(h) ==
    /\ At(h, "pending")
    /\ IF WithinLimit(h)
       THEN handler' = [handler EXCEPT ![h].active = 0, ![h].pc = "invalidate"]
       ELSE Answer(h)
    /\ UNCHANGED <<posType, registry, pms, bounds>>

WithStatus(row, status) ==
    [r \in RuleIds |-> IF rules[r].row = row THEN [rules[r] EXCEPT !.status = status]
                                             ELSE rules[r]]

\* Mutant: the request does not change the rules.
DeactivateNone(row) == rules

\* HandleRPCInvalidateRulesForStrategy: an active rule becomes inactive, and
\* with it the others, which all have its condition.
Deactivate(row) ==
    IF \E r \in RuleIds : rules[r].row = row /\ rules[r].status = "active"
    THEN WithStatus(row, "inactive") ELSE rules

\* A rule the risk cycle has already let pass is past being invalidated.
Passed == IF cycle.pc \in {"place", "mark"} THEN {cycle.rule} ELSE {}

InvalidateRules(h) ==
    /\ At(h, "invalidate")
    /\ rules' = Deactivate(handler[h].row)
    /\ handler' = [handler EXCEPT ![h].pc = "order", ![h].stale =
           {r \in RuleIds : rules[r].row = handler[h].row} \ Passed]
    /\ UNCHANGED <<posType, registry, orders, positions, cycle, resets, bounds>>

\* A failure is only logged.
InvalidateFails(h) ==
    /\ At(h, "invalidate")
    /\ Fault
    /\ Goto(h, "order")
    /\ UNCHANGED <<posType, registry, pms, signals>>

\* The handlers in steps pcs of a check for the row are disturbed.
Disturb(table, row, pcs) ==
    [h \in Handlers |->
        IF table[h].row = row /\ table[h].pc \in pcs
        THEN [table[h] EXCEPT !.calm = FALSE] ELSE table[h]]

CreateUserOrder(h) ==
    /\ At(h, "order")
    /\ Len(orders) < MaxOrders
    /\ orders' = Append(orders, Order(handler[h].row, OpenSide(handler[h].action),
                                      handler[h].stale, handler[h].calm))
    /\ handler' = [Disturb(handler, handler[h].row, {"invalidate", "order"})
                     EXCEPT ![h].pc = "place", ![h].order = Len(orders'),
                            ![h].calm = TRUE, ![h].stale = {}]
    /\ UNCHANGED <<posType, registry, positions, rules, cycle, resets, bounds>>

\* SetLeverage, whose failure is ignored, CreateOrder on the exchange, and
\* createUprunningOrderViaRPC.
PlaceOrder(h) ==
    /\ At(h, "place")
    /\ orders' = [orders EXCEPT ![handler[h].order].watched = TRUE]
    /\ Answer(h)
    /\ UNCHANGED <<posType, registry, positions, rules, cycle, resets, bounds>>

\* No client for the user, or the exchange refuses.
PlaceFails(h) ==
    /\ At(h, "place")
    /\ Fault
    /\ orders' = [orders EXCEPT ![handler[h].order].status = "failed"]
    /\ Answer(h)
    /\ UNCHANGED <<posType, registry, positions, rules, cycle, resets, signals>>

\* All attempts to tell the PMS fail: the order goes to the log of missing
\* orders and stays pending.
RegisterFails(h) ==
    /\ At(h, "place")
    /\ Fault
    /\ Answer(h)
    /\ UNCHANGED <<posType, registry, pms, signals>>

Open(h) == \/ RefuseOpen(h)      \/ CountActive(h)     \/ CountPending(h)
           \/ InvalidateRules(h) \/ InvalidateFails(h) \/ CreateUserOrder(h)
           \/ PlaceOrder(h)      \/ PlaceFails(h)      \/ RegisterFails(h)
-----------------------------------------------------------------------------
(* HandleCloseSignal and HandleReverseSignal.                              *)

\* What a closing or reversing signal of the handler asks for.
Found(h) == Queried(handler[h].row, CloseSide(handler[h].action))

\* A reversing signal opens at once when there is nothing to close.  History:
\* what there is.
QueryReverse(h) ==
    /\ At(h, "query")
    /\ handler' = [handler EXCEPT ![h].seen = {p \in ActiveOf(handler[h].row) :
                                      SideOf(p) = CloseSide(handler[h].action)},
                     ![h].pc = IF Found(h) = {} THEN "count" ELSE "close"]
    /\ UNCHANGED <<posType, registry, pms, bounds>>

Closed(h) == IF handler[h].action \in Reversing THEN Goto(h, "wait") ELSE Answer(h)

\* HandleCloseSignal skips a side without positions.
QueryClose(h) ==
    /\ At(h, "close")
    /\ IF Found(h) = {} THEN Closed(h) ELSE Goto(h, "rule")
    /\ UNCHANGED <<posType, registry, pms, bounds>>

\* AppendImmediateCloseRule: a rule for the whole strategy, whatever the side.
CreateRule(h) ==
    /\ At(h, "rule")
    /\ rules' = Append(rules, Rule(handler[h].row, Found(h)))
    /\ Closed(h)
    /\ UNCHANGED <<posType, registry, orders, positions, cycle, resets, bounds>>

\* Mutant: after the last poll the signal goes on.
PollGivesIn(h) ==
    /\ At(h, "wait")
    /\ handler' = IF Found(h) = {} \/ handler[h].polls = PollLimit - 1
                  THEN [handler EXCEPT ![h].polls = 0, ![h].pc = "count"]
                  ELSE [handler EXCEPT ![h].polls = @ + 1]
    /\ UNCHANGED <<posType, registry, pms, bounds>>

\* Mutant: the polls have no end.
PollForever(h) ==
    /\ At(h, "wait")
    /\ handler' = IF Found(h) = {}
                  THEN [handler EXCEPT ![h].polls = 0, ![h].pc = "count"]
                  ELSE [handler EXCEPT ![h].polls = @ + 1]
    /\ UNCHANGED <<posType, registry, pms, bounds>>

\* waitForSideClosed; the signal ends with the last poll.
Poll(h) ==
    /\ At(h, "wait")
    /\ IF Found(h) = {}
       THEN handler' = [handler EXCEPT ![h].polls = 0, ![h].pc = "count"]
       ELSE IF handler[h].polls < PollLimit - 1
       THEN handler' = [handler EXCEPT ![h].polls = @ + 1]
       ELSE Answer(h)
    /\ UNCHANGED <<posType, registry, pms, bounds>>

\* A query, or the creation of the rule, fails: so does the signal.
CallFails(h) ==
    /\ handler[h].pc \in {"query", "close", "rule", "wait"}
    /\ Fault
    /\ Answer(h)
    /\ UNCHANGED <<posType, registry, pms, signals>>

Close(h) == QueryReverse(h) \/ QueryClose(h) \/ CreateRule(h) \/ Poll(h) \/ CallFails(h)
-----------------------------------------------------------------------------
(* The PMS: fills of opening orders.                                       *)

\* The exchange fills the order and a handler of the PMS opens its position.
Fill(o) ==
    /\ orders[o].watched
    /\ \A p \in PositionIds : positions[p].order # o
    /\ positions' = Append(positions, Position(o))
    /\ UNCHANGED <<posType, registry, orders, rules, cycle, resets, handler, bounds>>

\* The UOS is told, after the position was opened.
NotifyFilled(p) ==
    /\ ~positions[p].told
    /\ positions' = [positions EXCEPT ![p].told = TRUE]
    /\ orders' = [orders EXCEPT ![positions[p].order].status = "filled"]
    /\ handler' = Disturb(handler, RowOf(p), {"pending"})
    /\ UNCHANGED <<posType, registry, rules, cycle, resets, bounds>>

LoseNotification(p) ==
    /\ ~positions[p].told
    /\ Fault
    /\ positions' = [positions EXCEPT ![p].told = TRUE]
    /\ UNCHANGED <<posType, registry, orders, rules, cycle, resets, handler, signals>>
-----------------------------------------------------------------------------
(* The PMS: the risk cycle; see module RiskClose.                          *)

\* rule.csv keeps one rule of a condition: the newest of the row.
InForce(r) == /\ rules[r].status = "active"
              /\ \A x \in RuleIds : x > r => rules[x].row # rules[r].row

\* What is to be reduced, and by how much: every position of the row.
Triggered == {[rule |-> r, qty |-> Cardinality(ActiveOf(rules[r].row))] :
                r \in {x \in RuleIds : InForce(x) /\ ActiveOf(rules[x].row) # {}}}

CycleEvaluate ==
    /\ cycle.pc = "idle"
    /\ Triggered # {}
    /\ cycle' = [pc |-> "apply", todo |-> Triggered]
    /\ UNCHANGED <<posType, registry, orders, positions, rules, resets, handler, bounds>>

CycleNext(todo) == IF todo = {} THEN [pc |-> "idle"] ELSE [pc |-> "apply", todo |-> todo]

\* ApplyReduce: the rule must still be active.
ApplyStart ==
    /\ cycle.pc = "apply"
    /\ \E action \in cycle.todo :
         cycle' = IF rules[action.rule].status # "active"
                  THEN CycleNext(cycle.todo \ {action})
                  ELSE [pc |-> "place", todo |-> cycle.todo \ {action},
                        rule |-> action.rule, qty |-> action.qty]
    /\ UNCHANGED <<posType, registry, orders, positions, rules, resets, handler, bounds>>

\* Mutant: the newest positions are taken first.
SelectNewest(row, qty) ==
    {p \in ActiveOf(row) : Cardinality({x \in ActiveOf(row) : x > p}) < qty}

\* selectOrderPositions: the oldest that make up the quantity, of any side.
Select(row, qty) ==
    {p \in ActiveOf(row) : Cardinality({x \in ActiveOf(row) : x < p}) < qty}

\* A close order for each selected position, or none if they do not suffice;
\* one that has a close order already gains nothing by a second.
PlaceCloses ==
    LET row == rules[cycle.rule].row
        chosen == Select(row, cycle.qty)
    IN  /\ cycle.pc = "place"
        /\ IF Cardinality(chosen) < cycle.qty
           THEN cycle' = CycleNext(cycle.todo) /\ UNCHANGED <<positions, rules>>
           ELSE /\ positions' = [p \in PositionIds |->
                      IF p \in chosen /\ positions[p].closing = 0
                      THEN [positions[p] EXCEPT !.closing = cycle.rule]
                      ELSE positions[p]]
                /\ rules' = [rules EXCEPT ![cycle.rule].used = TRUE]
                /\ cycle' = [cycle EXCEPT !.pc = "mark"]
        /\ UNCHANGED <<posType, registry, orders, resets, handler, bounds>>

\* UpdateRuleStatus: the rules of the same condition follow.
MarkInUse ==
    /\ cycle.pc = "mark"
    /\ rules' = WithStatus(rules[cycle.rule].row, "in_use")
    /\ cycle' = CycleNext(cycle.todo)
    /\ UNCHANGED <<posType, registry, orders, positions, resets, handler, bounds>>

\* A close order is filled: the position is closed first ...
FillClose(p) ==
    /\ positions[p].active
    /\ positions[p].closing # 0
    /\ positions' = [positions EXCEPT ![p].active = FALSE]
    /\ resets' = resets \cup {RowOf(p)}
    /\ UNCHANGED <<posType, registry, orders, rules, cycle, handler, bounds>>

\* ... and then ResetRulesForStrategy makes every rule inactive.
ResetRules(row) ==
    /\ row \in resets
    /\ resets' = resets \ {row}
    /\ rules' = WithStatus(row, "inactive")
    /\ UNCHANGED <<posType, registry, orders, positions, cycle, handler, bounds>>

Cycle == CycleEvaluate \/ ApplyStart \/ PlaceCloses \/ MarkInUse
-----------------------------------------------------------------------------
Next ==
    \/ \E h \in Handlers :
         (\E a \in Incoming : Receive(h, a)) \/ Resolve(h) \/ Open(h) \/ Close(h)
    \/ \E o \in OrderIds : Fill(o)
    \/ \E p \in PositionIds : NotifyFilled(p) \/ LoseNotification(p) \/ FillClose(p)
    \/ Cycle
    \/ \E row \in resets : ResetRules(row)

\* The risk cycle runs every ten seconds, and the exchange carries out a
\* close order at the market.
Fairness ==
    /\ WF_vars(Cycle)
    /\ WF_vars(\E p \in PositionIds : FillClose(p))

Spec == Init /\ [][Next]_vars /\ Fairness
-----------------------------------------------------------------------------
TypeOK ==
    /\ posType \in PosTypes
    /\ strategies \in 0 .. MaxSignals
    /\ userStrategies \in Seq(1 .. strategies)
    /\ orders \in Seq([row : 1 .. Len(userStrategies), side : Sides,
                       status : {"new", "filled", "failed"}, watched : BOOLEAN,
                       stale : SUBSET RuleIds, calm : BOOLEAN])
    /\ positions \in Seq([order : OrderIds, active : BOOLEAN,
                          closing : RuleIds \cup {0}, told : BOOLEAN])
    /\ rules \in Seq([row : 1 .. Len(userStrategies), used : BOOLEAN,
                      status : {"active", "in_use", "inactive"},
                      targets : SUBSET PositionIds])
    /\ cycle.pc \in {"idle", "apply", "place", "mark"}
    /\ resets \subseteq 1 .. Len(userStrategies)
    /\ handler \in [Handlers ->
          [pc : Pcs, action : AllActions \cup {"none"}, strategy : 0 .. strategies,
           row : 0 .. Len(userStrategies), active : Nat, order : 0 .. Len(orders),
           polls : 0 .. PollLimit, calm : BOOLEAN, seen : SUBSET PositionIds,
           stale : SUBSET RuleIds]]

\* The orders of a row that count for its limit: pending, or in a position.
Live(row) == PendingOf(row) \cup {positions[p].order : p \in ActiveOf(row)}

\* A strategy has at most Parts orders and positions, pending ones included,
\* although they are counted in two steps in two services.  Exempt are the
\* orders let through while another request created an order or a filled
\* order changed sides during the check, or after the count of the PMS could
\* not be had (handler.go:802 "verifies that pending + active positions <
\* parts").
PartsRespected ==
    \A row \in 1 .. Len(userStrategies) :
        Cardinality({o \in Live(row) : orders[o].calm}) <= Parts

\* When a reversing signal places its order, every position that the strategy
\* had on the other side when the signal looked is closed (handler.go:713
\* "execute close + open flow").  Exempt are options, of which it finds none.
ReverseClosesFirst ==
    [][posType = "futures" => \A h \in Handlers :
         /\ At(h, "place") /\ orders'[handler[h].order].watched
         /\ handler[h].action \in Reversing
         => \A p \in handler[h].seen : ~positions[p].active]_vars

\* A close rule that was invalidated for an opening order never closes the
\* position of that order, however late the order fills (handler.go:456 "new
\* position means old rules are stale").
StaleRulesSpare ==
    \A p \in PositionIds : positions[p].closing \notin orders[positions[p].order].stale

\* The rule was made inactive, or in use, without ever having been applied:
\* by an opening signal, the reset after another close, or the application
\* of an older rule of the strategy.
Dropped(r) == rules[r].status # "active" /\ ~rules[r].used

\* The positions for which a close signal created its rule are closed in the
\* end, unless the rule is dropped.
CloseTakesEffect ==
    \A r \in 1 .. MaxSignals - 1 :
        r \in RuleIds ~> /\ r \in RuleIds
                         /\ \/ \A p \in rules[r].targets : ~positions[p].active
                            \/ Dropped(r)
=============================================================================
