--------------------------- MODULE Signals_proofs ---------------------------
(***************************************************************************)
(* The safety of module Signals for any number of concurrent requests,     *)
(* signals, orders, parts and failures: stale rules spare the positions of *)
(* the orders they are stale for, a reversing signal closes first, the     *)
(* parts limit is kept, and whatever a table or a request refers to is     *)
(* there (TypeOK).                                                         *)
(*                                                                         *)
(* The actions are first reduced to what they do to the tables and to the  *)
(* requests; each invariant then looks only at the few kinds of steps that *)
(* bear on it.                                                             *)
(***************************************************************************)
EXTENDS Signals, FiniteSetTheorems, SequenceTheorems, TLAPS

OrderRecord == [row : Nat, side : Sides, status : {"new", "filled", "failed"},
                watched : BOOLEAN, stale : SUBSET Nat, calm : BOOLEAN]
PositionRecord == [order : Nat, active : BOOLEAN, closing : Nat, told : BOOLEAN]
RuleRecord == [row : Nat, used : BOOLEAN, status : {"active", "in_use", "inactive"},
               targets : SUBSET Nat]
HandlerRecord ==
    [pc : Pcs, action : AllActions \cup {"none"}, strategy : Nat, row : Nat,
     active : Nat, order : Nat, polls : Nat, calm : BOOLEAN, seen : SUBSET Nat,
     stale : SUBSET Nat]

\* The risk cycle with the rules that it has in hand, of n.
CycleOK(c, n) ==
    /\ c.pc \in {"idle", "apply", "place", "mark"}
    /\ c.pc = "idle" => c = [pc |-> "idle"]
    /\ c.pc = "apply" => \E todo \in SUBSET [rule : 1 .. n, qty : Nat] :
                           c = [pc |-> "apply", todo |-> todo]
    /\ c.pc \in {"place", "mark"} =>
         \E todo \in SUBSET [rule : 1 .. n, qty : Nat], rule \in 1 .. n, qty \in Nat :
            c = [pc |-> c.pc, todo |-> todo, rule |-> rule, qty |-> qty]

\* The types of the tables, ...
TablesOK ==
    /\ posType \in {"futures", "options"}
    /\ strategies \in Nat /\ userStrategies \in Seq(Nat)
    /\ orders \in Seq(OrderRecord)
    /\ positions \in Seq(PositionRecord)
    /\ \A p \in PositionIds : positions[p].order \in OrderIds
    /\ rules \in Seq(RuleRecord)
    /\ CycleOK(cycle, Len(rules))

\* ... of one request while there are n orders, and of all.
Request(x, n) ==
    /\ x \in HandlerRecord
    /\ x.pc # "idle" => x.action \in AllActions
    /\ x.pc = "place" => x.order \in 1 .. n

RequestsOK ==
    /\ handler \in [Handlers -> HandlerRecord]
    /\ \A h \in Handlers : Request(handler[h], Len(orders))

Types == TablesOK /\ RequestsOK
-----------------------------------------------------------------------------
(* Requests.                                                               *)

\* Request h becomes x; the others stay as they are.
Becomes(h, x) ==
    /\ handler' \in [Handlers -> HandlerRecord]
    /\ handler'[h] = x
    /\ \A g \in Handlers \ {h} : handler'[g] = handler[g]

\* What a step keeps of a request: all that the invariants speak of, but for
\* its pc and what it has counted.
Same(x, y) ==
    x.action = y.action /\ x.row = y.row /\ x.seen = y.seen /\ x.stale = y.stale /\ x.calm = y.calm

\* A request is replaced by a record of its type.
LEMMA Becoming ==
    ASSUME handler \in [Handlers -> HandlerRecord], NEW h \in Handlers, NEW x \in HandlerRecord,
           handler' = [handler EXCEPT ![h] = x]
    PROVE  Becomes(h, x)
  BY DEF Becomes

\* Types are kept by a request that becomes another.
LEMMA BecomesTypes ==
    ASSUME Types, TablesOK', Len(orders') >= Len(orders),
           NEW h \in Handlers, NEW x, Becomes(h, x), Request(x, Len(orders'))
    PROVE  Types'
<1>1. Len(orders) \in Nat /\ Len(orders') \in Nat
  BY LenProperties DEF Types, TablesOK
<1>2. \A g \in Handlers : Request(handler'[g], Len(orders'))
  BY <1>1 DEF Types, RequestsOK, Request, Becomes
<1> QED
  BY <1>2 DEF Types, RequestsOK, Becomes

\* Requests are as they were.
LEMMA NoRequest ==
    ASSUME Types, TablesOK', Len(orders') >= Len(orders), UNCHANGED handler
    PROVE  Types'
<1>1. Len(orders) \in Nat /\ Len(orders') \in Nat
  BY LenProperties DEF Types, TablesOK
<1> QED
  BY <1>1 DEF Types, RequestsOK, Request

\* Tables are as they were.
LEMMA NoTable ==
    ASSUME Types, UNCHANGED <<posType, registry, orders, positions, rules, cycle>>
    PROVE  TablesOK' /\ Len(orders') >= Len(orders)
<1>1. Len(orders) \in Nat
  BY LenProperties DEF Types, TablesOK
<1> QED
  BY <1>1 DEF Types, TablesOK, registry, PositionIds, OrderIds

\* A free handler is well-typed.
LEMMA IdleRequest == Idle \in HandlerRecord /\ \A n : Request(Idle, n)
  BY DEF Request, Idle, HandlerRecord, Pcs

\* The request answers.
LEMMA Answers ==
    ASSUME Types, NEW h \in Handlers, Answer(h)
    PROVE  Becomes(h, Idle)
  BY IdleRequest, Becoming DEF Types, RequestsOK, Answer

\* The request goes on, with the same data.
LEMMA GoesOn ==
    ASSUME Types, NEW h \in Handlers, ~At(h, "idle"), NEW pc \in Pcs \ {"place"}, Goto(h, pc)
    PROVE  \E x : /\ Becomes(h, x) /\ \A n : Request(x, n)
                  /\ x.pc = pc /\ Same(x, handler[h])
<1> DEFINE x == [handler[h] EXCEPT !.pc = pc]
<1>1. handler[h] \in HandlerRecord /\ handler[h].action \in AllActions
  BY DEF Types, RequestsOK, Request, At
<1>2. x \in HandlerRecord /\ x.pc = pc /\ Same(x, handler[h])
  BY <1>1 DEF HandlerRecord, Same
<1>3. \A n : Request(x, n)
  BY <1>1, <1>2 DEF Request, Same
<1>4. handler' = [handler EXCEPT ![h] = x]
  BY DEF Goto
<1>5. handler \in [Handlers -> HandlerRecord]
  BY DEF Types, RequestsOK
<1> HIDE DEF x
<1>6. Becomes(h, x)
  BY <1>2, <1>4, <1>5, Becoming
<1> QED
  BY <1>2, <1>3, <1>6

\* The request knows its row.
LEMMA Dispatches ==
    ASSUME Types, NEW h \in Handlers, ~At(h, "idle"), NEW row \in Nat, Dispatch(h, row)
    PROVE  \E x : /\ Becomes(h, x) /\ \A n : Request(x, n)
                  /\ x.action = handler[h].action /\ x.stale = handler[h].stale
                  /\ x.pc \in {"count", "close", "query"}
                  /\ x.action \in Reversing => x.pc = "query"
<1> DEFINE pc == CASE handler[h].action \in Opening -> "count"
                   [] handler[h].action \in Closing -> "close"
                   [] handler[h].action \in Reversing -> "query"
           x == [handler[h] EXCEPT !.strategy = 0, !.row = row, !.pc = pc]
<1>1. handler[h] \in HandlerRecord /\ handler[h].action \in AllActions
  BY DEF Types, RequestsOK, Request, At
<1>2. pc \in {"count", "close", "query"} /\ (handler[h].action \in Reversing => pc = "query")
  BY <1>1 DEF AllActions, Opening, Closing, Reversing
<1>6. handler \in [Handlers -> HandlerRecord]
  BY DEF Types, RequestsOK
<1>7. handler' = [handler EXCEPT ![h].strategy = 0, ![h].row = row, ![h].pc = pc]
  BY DEF Dispatch
<1> HIDE DEF pc
<1>3. handler' = [handler EXCEPT ![h] = x]
  BY <1>6, <1>1, <1>7 DEF HandlerRecord
<1>4. x \in HandlerRecord /\ x.pc = pc /\ x.action = handler[h].action /\ x.stale = handler[h].stale
  BY <1>1, <1>2 DEF HandlerRecord, Pcs
<1>5. \A n : Request(x, n)
  BY <1>1, <1>2, <1>4 DEF Request
<1> HIDE DEF x
<1>8. Becomes(h, x)
  BY <1>3, <1>4, <1>6, Becoming
<1> QED
  BY <1>2, <1>4, <1>5, <1>8
-----------------------------------------------------------------------------
(* Tables.                                                                 *)

\* What no step undoes.  Orders keep their row, side and history; they are
\* watched, or no longer pending, for good.
OrdersGrow ==
    /\ Len(orders') >= Len(orders)
    /\ \A o \in OrderIds :
         /\ orders'[o].row = orders[o].row /\ orders'[o].side = orders[o].side
         /\ orders'[o].stale = orders[o].stale /\ orders'[o].calm = orders[o].calm
         /\ orders[o].watched => orders'[o].watched
         /\ orders[o].status # "new" => orders'[o].status # "new"

\* A position keeps its order and is not opened again.
PositionsGrow ==
    /\ Len(positions') >= Len(positions)
    /\ \A p \in PositionIds : /\ positions'[p].order = positions[p].order
                              /\ positions'[p].active => positions[p].active

\* A rule keeps its row and does not become active again.
RulesGrow ==
    /\ Len(rules') >= Len(rules)
    /\ \A r \in RuleIds : /\ rules'[r].row = rules[r].row
                          /\ rules'[r].status = "active" => rules[r].status = "active"

\* A rule is only picked for its application while it is active.
CycleCareful ==
    cycle'.pc = "place" => \/ UNCHANGED cycle
                           \/ cycle'.rule \in RuleIds /\ rules[cycle'.rule].status = "active"

Grow == OrdersGrow /\ PositionsGrow /\ RulesGrow /\ CycleCareful

\* The lengths of the tables.
LEMMA Lengths ==
    ASSUME TablesOK
    PROVE  /\ Len(orders) \in Nat /\ Len(positions) \in Nat /\ Len(rules) \in Nat
           /\ DOMAIN orders = OrderIds /\ DOMAIN positions = PositionIds /\ DOMAIN rules = RuleIds
           /\ \A o \in OrderIds : orders[o] \in OrderRecord
           /\ \A p \in PositionIds : positions[p] \in PositionRecord
           /\ \A r \in RuleIds : rules[r] \in RuleRecord
  BY LenProperties, ElementOfSeq DEF TablesOK, OrderIds, PositionIds, RuleIds

\* Each table as it was.
LEMMA SameTables ==
    ASSUME TablesOK
    PROVE  /\ UNCHANGED orders => OrdersGrow /\ OrderIds' = OrderIds
           /\ UNCHANGED positions => PositionsGrow /\ PositionIds' = PositionIds
           /\ UNCHANGED rules => RulesGrow /\ RuleIds' = RuleIds
           /\ UNCHANGED cycle => CycleCareful
  BY Lengths DEF OrdersGrow, PositionsGrow, RulesGrow, CycleCareful,
     OrderIds, PositionIds, RuleIds

\* The risk cycle with more rules, ...
LEMMA CycleGrows ==
    ASSUME NEW c, NEW n \in Nat, NEW m \in Nat, m >= n, CycleOK(c, n)
    PROVE  CycleOK(c, m)
<1>1. 1 .. n \subseteq 1 .. m /\ [rule : 1 .. n, qty : Nat] \subseteq [rule : 1 .. m, qty : Nat]
  OBVIOUS
<1> QED
  BY <1>1 DEF CycleOK

\* ... what it has in hand, ...
LEMMA CycleFacts ==
    ASSUME NEW c, NEW n \in Nat, CycleOK(c, n)
    PROVE  /\ c.pc = "apply" => c.todo \in SUBSET [rule : 1 .. n, qty : Nat]
           /\ c.pc \in {"place", "mark"} =>
                /\ c.todo \in SUBSET [rule : 1 .. n, qty : Nat]
                /\ c.rule \in 1 .. n /\ c.qty \in Nat
  BY DEF CycleOK

\* ... and when it is through with a rule.
LEMMA CycleNextOK ==
    ASSUME NEW n \in Nat, NEW todo \in SUBSET [rule : 1 .. n, qty : Nat]
    PROVE  CycleOK(CycleNext(todo), n) /\ CycleNext(todo).pc # "place"
  BY DEF CycleOK, CycleNext

\* One row of a table.
LEMMA OneOrder ==
    ASSUME TablesOK, NEW o \in OrderIds, NEW x \in OrderRecord,
           x.row = orders[o].row, x.side = orders[o].side, x.stale = orders[o].stale,
           x.calm = orders[o].calm, orders[o].watched => x.watched,
           orders[o].status # "new" => x.status # "new",
           orders' = [orders EXCEPT ![o] = x]
    PROVE  /\ orders' \in Seq(OrderRecord) /\ OrdersGrow /\ OrderIds' = OrderIds
           /\ \A j \in OrderIds : orders'[j] = IF j = o THEN x ELSE orders[j]
<1>1. /\ orders' \in Seq(OrderRecord) /\ Len(orders') = Len(orders)
      /\ \A j \in OrderIds : orders'[j] = IF j = o THEN x ELSE orders[j]
  BY ExceptSeq DEF TablesOK, OrderIds
<1> QED
  BY <1>1, Lengths DEF OrdersGrow, OrderIds

\* One row of the positions, which keeps its order and does not open.
LEMMA OnePosition ==
    ASSUME TablesOK, NEW p \in PositionIds, NEW x \in PositionRecord,
           x.order = positions[p].order, x.active => positions[p].active,
           positions' = [positions EXCEPT ![p] = x]
    PROVE  /\ positions' \in Seq(PositionRecord) /\ PositionsGrow /\ PositionIds' = PositionIds
           /\ \A j \in PositionIds : positions'[j] = IF j = p THEN x ELSE positions[j]
<1>1. /\ positions' \in Seq(PositionRecord) /\ Len(positions') = Len(positions)
      /\ \A j \in PositionIds : positions'[j] = IF j = p THEN x ELSE positions[j]
  BY ExceptSeq DEF TablesOK, PositionIds
<1> QED
  BY <1>1, Lengths DEF PositionsGrow, PositionIds

\* All rules of a row in another state.
LEMMA StatusRules ==
    ASSUME TablesOK, NEW row, NEW status \in {"in_use", "inactive"},
           rules' = WithStatus(row, status)
    PROVE  /\ rules' \in Seq(RuleRecord) /\ RulesGrow /\ RuleIds' = RuleIds
           /\ \A r \in RuleIds : rules[r].row = row => rules'[r].status = status
<1> DEFINE f(r) == IF rules[r].row = row THEN [rules[r] EXCEPT !.status = status] ELSE rules[r]
<1>1. \A r \in RuleIds : /\ f(r) \in RuleRecord /\ f(r).row = rules[r].row
                         /\ rules[r].row = row => f(r).status = status
                         /\ f(r).status = "active" => rules[r].status = "active"
  BY Lengths DEF RuleRecord
<1>2. rules' = [r \in 1 .. Len(rules) |-> f(r)]
  BY DEF WithStatus, RuleIds
<1> HIDE DEF f
<1>3. rules' \in [1 .. Len(rules) -> RuleRecord]
  BY <1>1, <1>2 DEF RuleIds
<1>4. rules' \in Seq(RuleRecord) /\ Len(rules') = Len(rules)
  BY <1>3, Lengths, SeqDef, LenProperties
<1>5. \A r \in RuleIds : rules'[r] = f(r)
  BY <1>2 DEF RuleIds
<1> QED
  BY <1>1, <1>4, <1>5, Lengths DEF RulesGrow, RuleIds

\* A step that changes the orders only, ...
LEMMA OrdersStep ==
    ASSUME TablesOK, orders' \in Seq(OrderRecord), OrdersGrow,
           UNCHANGED <<posType, registry, positions, rules, cycle>>
    PROVE  TablesOK' /\ Grow
<1>1. \A p \in PositionIds : positions[p].order \in OrderIds'
  BY Lengths, LenProperties DEF OrdersGrow, OrderIds, TablesOK
<1> QED
  BY <1>1, SameTables DEF TablesOK, Grow, registry

\* ... the orders and the positions, ...
LEMMA PositionsStep ==
    ASSUME TablesOK, orders' \in Seq(OrderRecord), OrdersGrow, OrderIds' = OrderIds,
           positions' \in Seq(PositionRecord), PositionsGrow,
           \A p \in PositionIds' : p \in PositionIds \/ positions'[p].order \in OrderIds,
           UNCHANGED <<posType, registry, rules, cycle>>
    PROVE  TablesOK' /\ Grow
<1>1. \A p \in PositionIds' : positions'[p].order \in OrderIds'
  BY DEF PositionsGrow, TablesOK
<1> QED
  BY <1>1, SameTables DEF TablesOK, Grow, registry

\* ... the rules and the cycle.
LEMMA RulesStep ==
    ASSUME TablesOK, rules' \in Seq(RuleRecord), RulesGrow,
           CycleOK(cycle', Len(rules)), CycleCareful,
           UNCHANGED <<posType, registry, orders, positions>>
    PROVE  TablesOK' /\ Grow
<1>1. CycleOK(cycle', Len(rules'))
  BY Lengths, LenProperties, CycleGrows DEF RulesGrow
<1> QED
  BY <1>1, SameTables DEF TablesOK, Grow, registry

\* An order is created, pending and with what its request knows.
LEMMA CreateOrderTables ==
    ASSUME Types, NEW h \in Handlers, CreateUserOrder(h)
    PROVE  /\ TablesOK' /\ Grow /\ Len(orders') = Len(orders) + 1
           /\ orders'[Len(orders) + 1] = Order(handler[h].row, OpenSide(handler[h].action),
                                               handler[h].stale, handler[h].calm)
<1> DEFINE x == Order(handler[h].row, OpenSide(handler[h].action), handler[h].stale, handler[h].calm)
<1>1. handler[h] \in HandlerRecord
  BY DEF Types, RequestsOK
<1>2. x \in OrderRecord
  BY <1>1 DEF OrderRecord, HandlerRecord, Order, OpenSide, Sides
<1>3. orders' = Append(orders, x) /\ UNCHANGED <<posType, registry, positions, rules, cycle>>
  BY DEF CreateUserOrder
<1> HIDE DEF x
<1>4. TablesOK
  BY DEF Types
<1>5. /\ orders' \in Seq(OrderRecord) /\ Len(orders') = Len(orders) + 1
      /\ \A o \in OrderIds : orders'[o] = orders[o]
      /\ orders'[Len(orders) + 1] = x
  BY <1>2, <1>3, <1>4, AppendProperties DEF TablesOK, OrderIds
<1>6. OrdersGrow
  BY <1>4, <1>5, Lengths DEF OrdersGrow
<1> QED
  BY <1>3, <1>4, <1>5, <1>6, OrdersStep DEF x

\* What a handler does to its order.
LEMMA PlaceTables ==
    ASSUME Types, NEW h \in Handlers, PlaceOrder(h) \/ PlaceFails(h)
    PROVE  /\ TablesOK' /\ Grow /\ OrderIds' = OrderIds
           /\ handler[h].order \in OrderIds
           /\ \A o \in OrderIds : o # handler[h].order => orders'[o] = orders[o]
           /\ \/ orders'[handler[h].order].status = orders[handler[h].order].status
              \/ orders'[handler[h].order].watched = orders[handler[h].order].watched
<1>1. TablesOK /\ handler[h].order \in OrderIds
  BY DEF Types, RequestsOK, Request, OrderIds, PlaceOrder, PlaceFails, At
<1>2. PICK o \in OrderIds : o = handler[h].order
  BY <1>1
<1>3. orders[o] \in OrderRecord
  BY <1>1, Lengths
<1>4. UNCHANGED <<posType, registry, positions, rules, cycle>>
  BY DEF PlaceOrder, PlaceFails
<1>5. CASE PlaceOrder(h)
  <2> DEFINE x == [orders[o] EXCEPT !.watched = TRUE]
  <2>1. orders' = [orders EXCEPT ![o] = x]
    BY <1>2, <1>5 DEF PlaceOrder
  <2>2. /\ x \in OrderRecord /\ x.row = orders[o].row /\ x.side = orders[o].side
        /\ x.stale = orders[o].stale /\ x.calm = orders[o].calm
        /\ x.watched /\ x.status = orders[o].status
    BY <1>3 DEF OrderRecord
  <2> HIDE DEF x
  <2> orders[o].watched => x.watched
    BY <2>2
  <2> orders[o].status # "new" => x.status # "new"
    BY <2>2
  <2>3. /\ orders' \in Seq(OrderRecord) /\ OrdersGrow /\ OrderIds' = OrderIds
        /\ \A j \in OrderIds : orders'[j] = IF j = o THEN x ELSE orders[j]
    BY <1>1, <2>1, <2>2, OneOrder
  <2> QED
    BY <1>1, <1>2, <1>4, <2>2, <2>3, OrdersStep
<1>6. CASE PlaceFails(h)
  <2> DEFINE x == [orders[o] EXCEPT !.status = "failed"]
  <2>1. orders' = [orders EXCEPT ![o] = x]
    BY <1>2, <1>6 DEF PlaceFails
  <2>2. /\ x \in OrderRecord /\ x.row = orders[o].row /\ x.side = orders[o].side
        /\ x.stale = orders[o].stale /\ x.calm = orders[o].calm
        /\ x.watched = orders[o].watched /\ x.status = "failed"
    BY <1>3 DEF OrderRecord
  <2> HIDE DEF x
  <2> orders[o].watched => x.watched
    BY <2>2
  <2> orders[o].status # "new" => x.status # "new"
    BY <2>2
  <2>3. /\ orders' \in Seq(OrderRecord) /\ OrdersGrow /\ OrderIds' = OrderIds
        /\ \A j \in OrderIds : orders'[j] = IF j = o THEN x ELSE orders[j]
    BY <1>1, <2>1, <2>2, OneOrder
  <2> QED
    BY <1>1, <1>2, <1>4, <2>2, <2>3, OrdersStep
<1> QED
  BY <1>5, <1>6

\* The rules of the handler's row.
LEMMA InvalidateTables ==
    ASSUME Types, NEW h \in Handlers, InvalidateRules(h)
    PROVE  /\ TablesOK' /\ Grow /\ RuleIds' = RuleIds
           /\ \A r \in RuleIds : rules[r].row = handler[h].row => rules'[r].status # "active"
<1>1. TablesOK
  BY DEF Types
<1>2. PICK row : row = handler[h].row
  OBVIOUS
<1>3. rules' = Deactivate(row) /\ UNCHANGED <<posType, registry, orders, positions, cycle>>
  BY <1>2 DEF InvalidateRules
<1>4. /\ rules' \in Seq(RuleRecord) /\ RulesGrow /\ RuleIds' = RuleIds
      /\ \A r \in RuleIds : rules[r].row = row => rules'[r].status # "active"
  <2>1. CASE \E r \in RuleIds : rules[r].row = row /\ rules[r].status = "active"
    <3>1. rules' = WithStatus(row, "inactive")
      BY <1>3, <2>1 DEF Deactivate
    <3> QED
      BY <1>1, <3>1, StatusRules
  <2>2. CASE ~ \E r \in RuleIds : rules[r].row = row /\ rules[r].status = "active"
    <3>1. UNCHANGED rules
      BY <1>3, <2>2 DEF Deactivate
    <3> QED
      BY <1>1, <2>2, <3>1, SameTables DEF TablesOK
  <2> QED
    BY <2>1, <2>2
<1>5. CycleOK(cycle', Len(rules)) /\ CycleCareful
  BY <1>1, <1>3, SameTables DEF TablesOK
<1> QED
  BY <1>1, <1>2, <1>3, <1>4, <1>5, RulesStep

\* A close rule is created.
LEMMA CreateRuleTables ==
    ASSUME Types, NEW h \in Handlers, CreateRule(h)
    PROVE  TablesOK' /\ Grow
<1> DEFINE x == Rule(handler[h].row, Found(h))
<1>1. TablesOK /\ handler[h] \in HandlerRecord
  BY DEF Types, RequestsOK
<1>2. Found(h) \subseteq PositionIds
  BY DEF Found, Queried, ActiveOf
<1>3. PositionIds \subseteq Nat
  BY <1>1, Lengths DEF PositionIds
<1>4. x \in RuleRecord
  BY <1>1, <1>2, <1>3 DEF RuleRecord, HandlerRecord, Rule
<1>5. rules' = Append(rules, x) /\ UNCHANGED <<posType, registry, orders, positions, cycle>>
  BY DEF CreateRule
<1> HIDE DEF x
<1>6. /\ rules' \in Seq(RuleRecord) /\ Len(rules') = Len(rules) + 1
      /\ \A r \in RuleIds : rules'[r] = rules[r]
  BY <1>1, <1>4, <1>5, AppendProperties DEF TablesOK, RuleIds
<1>7. RulesGrow
  BY <1>1, <1>6, Lengths DEF RulesGrow
<1>8. CycleOK(cycle', Len(rules)) /\ CycleCareful
  BY <1>1, <1>5, SameTables DEF TablesOK
<1> QED
  BY <1>1, <1>5, <1>6, <1>7, <1>8, RulesStep

\* Fills.
LEMMA FillTables ==
    ASSUME Types, NEW o \in OrderIds, Fill(o)
    PROVE  /\ TablesOK' /\ Grow /\ Len(positions') = Len(positions) + 1
           /\ \A p \in PositionIds : positions'[p] = positions[p]
           /\ positions'[Len(positions) + 1] = Position(o)
<1>1. TablesOK
  BY DEF Types
<1>2. Position(o) \in PositionRecord /\ Position(o).order = o
  BY <1>1, Lengths DEF PositionRecord, Position, OrderIds
<1>3. /\ positions' = Append(positions, Position(o))
      /\ UNCHANGED <<posType, registry, orders, rules, cycle>>
  BY DEF Fill
<1>4. /\ positions' \in Seq(PositionRecord) /\ Len(positions') = Len(positions) + 1
      /\ \A p \in PositionIds : positions'[p] = positions[p]
      /\ positions'[Len(positions) + 1] = Position(o)
  BY <1>1, <1>2, <1>3, AppendProperties DEF TablesOK, PositionIds
<1>5. PositionsGrow
  BY <1>1, <1>4, Lengths DEF PositionsGrow
<1>6. \A p \in PositionIds' : p \in PositionIds \/ positions'[p].order \in OrderIds
  BY <1>1, <1>2, <1>4, Lengths DEF PositionIds
<1>7. orders' \in Seq(OrderRecord) /\ OrdersGrow /\ OrderIds' = OrderIds
  BY <1>1, <1>3, SameTables DEF TablesOK
<1> QED
  BY <1>1, <1>3, <1>4, <1>5, <1>6, <1>7, PositionsStep

\* The news of a fill, or their loss.
LEMMA NotifyTables ==
    ASSUME Types, NEW p \in PositionIds, NotifyFilled(p) \/ LoseNotification(p)
    PROVE  /\ TablesOK' /\ Grow /\ OrderIds' = OrderIds /\ PositionIds' = PositionIds
           /\ \A j \in PositionIds : /\ positions'[j].closing = positions[j].closing
                                     /\ positions'[j].active = positions[j].active
           /\ \A o \in OrderIds : o # positions[p].order => orders'[o] = orders[o]
           /\ \A o \in OrderIds : orders'[o].watched = orders[o].watched
<1> DEFINE x == [positions[p] EXCEPT !.told = TRUE]
<1>1. TablesOK
  BY DEF Types
<1>2. positions[p] \in PositionRecord /\ positions[p].order \in OrderIds
  BY <1>1, Lengths DEF TablesOK
<1>3. positions' = [positions EXCEPT ![p] = x]
  BY DEF NotifyFilled, LoseNotification
<1>4. UNCHANGED <<posType, registry, rules, cycle>>
  BY DEF NotifyFilled, LoseNotification
<1>5. /\ x \in PositionRecord /\ x.order = positions[p].order /\ x.active = positions[p].active
      /\ x.closing = positions[p].closing
  BY <1>2 DEF PositionRecord
<1> HIDE DEF x
<1>6. /\ positions' \in Seq(PositionRecord) /\ PositionsGrow /\ PositionIds' = PositionIds
      /\ \A j \in PositionIds : positions'[j] = IF j = p THEN x ELSE positions[j]
  BY <1>1, <1>3, <1>5, OnePosition
<1>7. /\ orders' \in Seq(OrderRecord) /\ OrdersGrow /\ OrderIds' = OrderIds
      /\ \A o \in OrderIds : o # positions[p].order => orders'[o] = orders[o]
      /\ \A o \in OrderIds : orders'[o].watched = orders[o].watched
  <2>1. CASE LoseNotification(p)
    <3>1. UNCHANGED orders
      BY <2>1 DEF LoseNotification
    <3> QED
      BY <1>1, <3>1, SameTables DEF TablesOK
  <2>2. CASE NotifyFilled(p)
    <3>1. PICK o \in OrderIds : o = positions[p].order
      BY <1>2
    <3> DEFINE y == [orders[o] EXCEPT !.status = "filled"]
    <3>2. orders' = [orders EXCEPT ![o] = y]
      BY <2>2, <3>1 DEF NotifyFilled
    <3>3. orders[o] \in OrderRecord
      BY <1>1, Lengths
    <3>4. /\ y \in OrderRecord /\ y.row = orders[o].row /\ y.side = orders[o].side
          /\ y.stale = orders[o].stale /\ y.calm = orders[o].calm
          /\ y.watched = orders[o].watched /\ y.status = "filled"
      BY <3>3 DEF OrderRecord
    <3> HIDE DEF y
    <3>5. /\ orders' \in Seq(OrderRecord) /\ OrdersGrow /\ OrderIds' = OrderIds
          /\ \A j \in OrderIds : orders'[j] = IF j = o THEN y ELSE orders[j]
      BY <1>1, <3>2, <3>4, OneOrder
    <3> QED
      BY <3>1, <3>4, <3>5
  <2> QED
    BY <2>1, <2>2
<1>8. TablesOK' /\ Grow
  BY <1>1, <1>4, <1>6, <1>7, PositionsStep
<1> QED
  BY <1>5, <1>6, <1>7, <1>8

\* A position is closed, ...
LEMMA FillCloseTables ==
    ASSUME Types, NEW p \in PositionIds, FillClose(p)
    PROVE  /\ TablesOK' /\ Grow /\ PositionIds' = PositionIds
           /\ \A j \in PositionIds : positions'[j].closing = positions[j].closing
<1> DEFINE x == [positions[p] EXCEPT !.active = FALSE]
<1>1. TablesOK
  BY DEF Types
<1>2. positions[p] \in PositionRecord
  BY <1>1, Lengths
<1>3. positions' = [positions EXCEPT ![p] = x] /\ UNCHANGED <<posType, registry, orders, rules, cycle>>
  BY DEF FillClose
<1>4. /\ x \in PositionRecord /\ x.order = positions[p].order /\ ~x.active
      /\ x.closing = positions[p].closing
  BY <1>2 DEF PositionRecord
<1> HIDE DEF x
<1>5. /\ positions' \in Seq(PositionRecord) /\ PositionsGrow /\ PositionIds' = PositionIds
      /\ \A j \in PositionIds : positions'[j] = IF j = p THEN x ELSE positions[j]
  BY <1>1, <1>3, <1>4, OnePosition
<1>6. orders' \in Seq(OrderRecord) /\ OrdersGrow /\ OrderIds' = OrderIds
  BY <1>1, <1>3, SameTables DEF TablesOK
<1>7. TablesOK' /\ Grow
  BY <1>1, <1>3, <1>5, <1>6, PositionsStep
<1> QED
  BY <1>4, <1>5, <1>7

\* ... and its row's rules are reset.
LEMMA ResetTables ==
    ASSUME Types, NEW row, ResetRules(row)
    PROVE  TablesOK' /\ Grow
<1>1. TablesOK
  BY DEF Types
<1>2. /\ rules' = WithStatus(row, "inactive")
      /\ UNCHANGED <<posType, registry, orders, positions, cycle>>
  BY DEF ResetRules
<1>3. rules' \in Seq(RuleRecord) /\ RulesGrow
  BY <1>1, <1>2, StatusRules
<1>4. CycleOK(cycle', Len(rules)) /\ CycleCareful
  BY <1>1, <1>2, SameTables DEF TablesOK
<1> QED
  BY <1>1, <1>2, <1>3, <1>4, RulesStep

\* The number of positions of a row.
LEMMA ActiveFinite ==
    ASSUME TablesOK, NEW row
    PROVE  /\ IsFiniteSet(ActiveOf(row)) /\ Cardinality(ActiveOf(row)) \in Nat
           /\ ActiveOf(row) \subseteq PositionIds
<1>1. IsFiniteSet(PositionIds)
  BY Lengths, FS_Interval DEF PositionIds
<1> QED
  BY <1>1, FS_Subset, FS_CardinalityType DEF ActiveOf

\* The steps of the risk cycle.
LEMMA EvaluateTables ==
    ASSUME Types, CycleEvaluate
    PROVE  TablesOK' /\ Grow
<1>1. TablesOK
  BY DEF Types
<1>2. Triggered \in SUBSET [rule : 1 .. Len(rules), qty : Nat]
  BY <1>1, ActiveFinite DEF Triggered, RuleIds
<1>3. /\ cycle' = [pc |-> "apply", todo |-> Triggered]
      /\ UNCHANGED <<posType, registry, orders, positions, rules>>
  BY DEF CycleEvaluate
<1>4. CycleOK(cycle', Len(rules)) /\ CycleCareful
  BY <1>2, <1>3 DEF CycleOK, CycleCareful
<1>5. rules' \in Seq(RuleRecord) /\ RulesGrow
  BY <1>1, <1>3, SameTables DEF TablesOK
<1> QED
  BY <1>1, <1>3, <1>4, <1>5, RulesStep

\* A rule is taken up, if it is still active.
LEMMA ApplyTables ==
    ASSUME Types, ApplyStart
    PROVE  TablesOK' /\ Grow
<1>1. TablesOK /\ Len(rules) \in Nat /\ CycleOK(cycle, Len(rules)) /\ cycle.pc = "apply"
  BY Lengths DEF Types, TablesOK, ApplyStart
<1>2. cycle.todo \in SUBSET [rule : 1 .. Len(rules), qty : Nat]
  BY <1>1, CycleFacts
<1>3. PICK action \in cycle.todo :
         cycle' = IF rules[action.rule].status # "active"
                  THEN CycleNext(cycle.todo \ {action})
                  ELSE [pc |-> "place", todo |-> cycle.todo \ {action},
                        rule |-> action.rule, qty |-> action.qty]
  BY DEF ApplyStart
<1>4. /\ cycle.todo \ {action} \in SUBSET [rule : 1 .. Len(rules), qty : Nat]
      /\ action.rule \in RuleIds /\ action.qty \in Nat
  BY <1>2 DEF RuleIds
<1>5. CycleOK(cycle', Len(rules)) /\ CycleCareful
  <2>1. CASE rules[action.rule].status # "active"
    BY <1>1, <1>3, <1>4, <2>1, CycleNextOK DEF CycleCareful
  <2>2. CASE rules[action.rule].status = "active"
    <3>1. cycle' = [pc |-> "place", todo |-> cycle.todo \ {action},
                    rule |-> action.rule, qty |-> action.qty]
      BY <1>3, <2>2
    <3> QED
      BY <1>4, <2>2, <3>1 DEF CycleOK, CycleCareful, RuleIds
  <2> QED
    BY <2>1, <2>2
<1>6. UNCHANGED <<posType, registry, orders, positions, rules>>
  BY DEF ApplyStart
<1>7. rules' \in Seq(RuleRecord) /\ RulesGrow
  BY <1>1, <1>6, SameTables DEF TablesOK
<1> QED
  BY <1>1, <1>5, <1>6, <1>7, RulesStep

\* A rule becomes in_use, with the others of its row.
LEMMA MarkTables ==
    ASSUME Types, MarkInUse
    PROVE  TablesOK' /\ Grow
<1>1. TablesOK /\ Len(rules) \in Nat /\ CycleOK(cycle, Len(rules)) /\ cycle.pc = "mark"
  BY Lengths DEF Types, TablesOK, MarkInUse
<1>2. cycle.todo \in SUBSET [rule : 1 .. Len(rules), qty : Nat]
  BY <1>1, CycleFacts
<1>3. PICK row : row = rules[cycle.rule].row
  OBVIOUS
<1>4. /\ rules' = WithStatus(row, "in_use") /\ cycle' = CycleNext(cycle.todo)
      /\ UNCHANGED <<posType, registry, orders, positions>>
  BY <1>3 DEF MarkInUse
<1>5. rules' \in Seq(RuleRecord) /\ RulesGrow
  BY <1>1, <1>4, StatusRules
<1>6. CycleOK(cycle', Len(rules)) /\ CycleCareful
  BY <1>1, <1>2, <1>4, CycleNextOK DEF CycleCareful
<1> QED
  BY <1>1, <1>4, <1>5, <1>6, RulesStep

\* Close orders are placed; only positions get the rule that is applied.
LEMMA PlaceClosesTables ==
    ASSUME Types, PlaceCloses
    PROVE  /\ TablesOK' /\ Grow /\ PositionIds' = PositionIds
           /\ \A p \in PositionIds : /\ positions'[p].active = positions[p].active
                                     /\ \/ positions'[p].closing = positions[p].closing
                                        \/ positions'[p].closing = cycle.rule
<1>1. TablesOK /\ Len(rules) \in Nat /\ CycleOK(cycle, Len(rules)) /\ cycle.pc = "place"
  BY Lengths DEF Types, TablesOK, PlaceCloses
<1>2. /\ cycle.todo \in SUBSET [rule : 1 .. Len(rules), qty : Nat]
      /\ cycle.rule \in RuleIds
  BY <1>1, CycleFacts DEF RuleIds
<1> DEFINE chosen == Select(rules[cycle.rule].row, cycle.qty)
<1>3. UNCHANGED <<posType, registry, orders>>
  BY DEF PlaceCloses
<1>4. orders' \in Seq(OrderRecord) /\ OrdersGrow /\ OrderIds' = OrderIds
  BY <1>1, <1>3, SameTables DEF TablesOK
<1>5. CASE Cardinality(chosen) < cycle.qty
  <2>1. cycle' = CycleNext(cycle.todo) /\ UNCHANGED <<positions, rules>>
    BY <1>5 DEF PlaceCloses
  <2>2. CycleOK(cycle', Len(rules)) /\ CycleCareful
    BY <1>1, <1>2, <2>1, CycleNextOK DEF CycleCareful
  <2>3. rules' \in Seq(RuleRecord) /\ RulesGrow /\ PositionIds' = PositionIds
    BY <1>1, <2>1, SameTables DEF TablesOK
  <2> QED
    BY <1>1, <1>3, <2>1, <2>2, <2>3, RulesStep
<1>6. CASE ~(Cardinality(chosen) < cycle.qty)
  <2> DEFINE f(p) == IF p \in chosen /\ positions[p].closing = 0
                     THEN [positions[p] EXCEPT !.closing = cycle.rule] ELSE positions[p]
             x == [rules[cycle.rule] EXCEPT !.used = TRUE]
             c == [cycle EXCEPT !.pc = "mark"]
  <2>1. /\ positions' = [p \in 1 .. Len(positions) |-> f(p)]
        /\ rules' = [rules EXCEPT ![cycle.rule] = x]
        /\ cycle' = c
    BY <1>6 DEF PlaceCloses, PositionIds
  <2>2. PICK r \in RuleIds : r = cycle.rule
    BY <1>2
  <2>3. rules[r] \in RuleRecord
    BY <1>1, Lengths
  <2>4. x \in RuleRecord /\ x.row = rules[r].row /\ x.status = rules[r].status
    BY <2>2, <2>3 DEF RuleRecord
  <2>5. \A p \in PositionIds :
          /\ f(p) \in PositionRecord /\ f(p).order = positions[p].order
          /\ f(p).active = positions[p].active
          /\ f(p).closing = positions[p].closing \/ f(p).closing = cycle.rule
    BY <1>1, <2>2, Lengths DEF PositionRecord, RuleIds
  <2>6. CycleOK(c, Len(rules)) /\ c.pc = "mark"
    <3>1. PICK todo \in SUBSET [rule : 1 .. Len(rules), qty : Nat], rule \in 1 .. Len(rules), qty \in Nat :
            cycle = [pc |-> cycle.pc, todo |-> todo, rule |-> rule, qty |-> qty]
      BY <1>1 DEF CycleOK
    <3>2. c = [pc |-> "mark", todo |-> todo, rule |-> rule, qty |-> qty]
      BY <3>1
    <3> QED
      BY <3>2 DEF CycleOK
  <2> HIDE DEF f, x, c
  <2>7. positions' \in [1 .. Len(positions) -> PositionRecord]
    BY <2>1, <2>5 DEF PositionIds
  <2>8. positions' \in Seq(PositionRecord) /\ Len(positions') = Len(positions)
    BY <1>1, <2>7, Lengths, SeqDef, LenProperties
  <2>9. \A p \in PositionIds : positions'[p] = f(p)
    BY <2>1 DEF PositionIds
  <2>10. PositionsGrow /\ PositionIds' = PositionIds
    BY <1>1, <2>5, <2>8, <2>9, Lengths DEF PositionsGrow, PositionIds
  <2>11. /\ rules' \in Seq(RuleRecord) /\ Len(rules') = Len(rules)
         /\ \A j \in RuleIds : rules'[j] = IF j = r THEN x ELSE rules[j]
    BY <1>1, <2>1, <2>2, <2>4, ExceptSeq DEF TablesOK, RuleIds
  <2>12. RulesGrow
    BY <1>1, <2>4, <2>11, Lengths DEF RulesGrow
  <2>13. CycleOK(cycle', Len(rules')) /\ CycleCareful
    BY <2>1, <2>6, <2>11 DEF CycleCareful
  <2>14. \A p \in PositionIds' : positions'[p].order \in OrderIds'
    BY <1>1, <1>4, <2>5, <2>9, <2>10 DEF TablesOK
  <2>15. TablesOK' /\ Grow
    BY <1>1, <1>3, <1>4, <2>8, <2>10, <2>11, <2>12, <2>13, <2>14 DEF TablesOK, Grow, registry
  <2> QED
    BY <2>5, <2>9, <2>10, <2>15
<1> QED
  BY <1>5, <1>6
-----------------------------------------------------------------------------
(* The steps of the requests.                                              *)

\* A reversing request has placed its close ("After") and has seen it done
\* ("Past").
Past == {"count", "pending", "invalidate", "order", "place"}
After == {"close", "rule", "wait"} \cup Past

\* Between the check of the limit and the order.
Counted == {"invalidate", "order"}

\* Most steps make of request h another that knows nothing new.
Ordinary(h) ==
    \E x : /\ Becomes(h, x) /\ \A n : Request(x, n)
           /\ x.stale \in {{}, handler[h].stale}
           /\ x.action \in Reversing /\ x.pc \in After =>
                /\ Same(x, handler[h]) /\ handler[h].pc \in After
                /\ x.pc \in Past => handler[h].pc \in Past
           /\ x.pc \in {"pending"} \cup Counted =>
                Same(x, handler[h]) /\ x.pc \in Counted /\ handler[h].pc \in Counted

\* What the types say of one request.
LEMMA RequestFacts ==
    ASSUME Types, NEW h \in Handlers
    PROVE  /\ handler \in [Handlers -> HandlerRecord] /\ handler[h] \in HandlerRecord
           /\ Request(handler[h], Len(orders))
           /\ ~At(h, "idle") => handler[h].action \in AllActions
  BY DEF Types, RequestsOK, Request, At

\* Answering is an ordinary step, ...
LEMMA AnswerOrdinary ==
    ASSUME Types, NEW h \in Handlers, Answer(h)
    PROVE  Ordinary(h)
<1>1. Becomes(h, Idle) /\ \A n : Request(Idle, n)
  BY Answers, IdleRequest
<1>2. Idle.stale = {} /\ Idle.pc = "idle"
  BY DEF Idle
<1> QED
  BY <1>1, <1>2 DEF Ordinary, After, Past, Counted

\* ... and so is going on with the same data, ...
LEMMA GotoOrdinary ==
    ASSUME Types, NEW h \in Handlers, NEW pc, Goto(h, pc),
           \/ pc = "create" /\ At(h, "find")
           \/ pc \in {"rule", "wait"} /\ handler[h].pc \in {"close", "rule"}
           \/ pc = "order" /\ At(h, "invalidate")
    PROVE  Ordinary(h)
<1>1. ~At(h, "idle") /\ pc \in Pcs \ {"place"}
  BY DEF At, Pcs
<1>2. PICK x : Becomes(h, x) /\ (\A n : Request(x, n)) /\ x.pc = pc /\ Same(x, handler[h])
  BY <1>1, GoesOn
<1> QED
  BY <1>2 DEF Ordinary, Same, After, Past, Counted, At

\* ... being dispatched, ...
LEMMA DispatchOrdinary ==
    ASSUME Types, NEW h \in Handlers, ~At(h, "idle"), NEW row \in Nat, Dispatch(h, row)
    PROVE  Ordinary(h)
<1>1. PICK x : /\ Becomes(h, x) /\ \A n : Request(x, n)
               /\ x.action = handler[h].action /\ x.stale = handler[h].stale
               /\ x.pc \in {"count", "close", "query"}
               /\ x.action \in Reversing => x.pc = "query"
  BY Dispatches
<1> QED
  BY <1>1 DEF Ordinary, After, Past, Counted

\* The request is to look for, or to create, a row of a strategy.
LEMMA StrategyOrdinary ==
    ASSUME Types, NEW h \in Handlers, ~At(h, "idle"), NEW s \in Nat,
           NEW pc \in {"createUser", "findUser"},
           handler' = [handler EXCEPT ![h].strategy = s, ![h].pc = pc]
    PROVE  Ordinary(h)
<1> DEFINE x == [handler[h] EXCEPT !.strategy = s, !.pc = pc]
<1>1. /\ handler \in [Handlers -> HandlerRecord] /\ handler[h] \in HandlerRecord
      /\ handler[h].action \in AllActions
  BY RequestFacts
<1>2. handler' = [handler EXCEPT ![h] = x]
  BY <1>1 DEF HandlerRecord
<1>3. x \in HandlerRecord /\ x.pc = pc /\ x.action = handler[h].action /\ x.stale = handler[h].stale
  BY <1>1 DEF HandlerRecord, Pcs
<1> HIDE DEF x
<1>4. Becomes(h, x) /\ \A n : Request(x, n)
  BY <1>1, <1>2, <1>3, Becoming DEF Request
<1> QED
  BY <1>3, <1>4 DEF Ordinary, After, Past, Counted

\* ... looking up the row, ...
LEMMA LookUpOrdinary ==
    ASSUME Types, NEW h \in Handlers, ~At(h, "idle"), NEW s \in Nat, LookUpUserStrategy(h, s)
    PROVE  Ordinary(h)
<1>1. CASE handler' = [handler EXCEPT ![h].strategy = s, ![h].pc = "createUser"]
  BY <1>1, StrategyOrdinary
<1>2. CASE \E row \in 1 .. Len(userStrategies) : Dispatch(h, row)
  <2>1. PICK row \in 1 .. Len(userStrategies) : Dispatch(h, row)
    BY <1>2
  <2>2. row \in Nat
    BY LenProperties DEF Types, TablesOK
  <2> QED
    BY <2>1, <2>2, DispatchOrdinary
<1> QED
  BY <1>1, <1>2 DEF LookUpUserStrategy

\* ... and the receipt of a signal.
LEMMA ReceiveOrdinary ==
    ASSUME Types, NEW h \in Handlers, NEW a \in Incoming, Receive(h, a)
    PROVE  Ordinary(h)
<1> DEFINE x == [Idle EXCEPT !.pc = "find", !.action = a]
<1>1. handler \in [Handlers -> HandlerRecord]
  BY RequestFacts
<1>2. a \in AllActions
  BY ActionsAssumption DEF Incoming, AgentAction, AllActions, Opening
<1>3. handler' = [handler EXCEPT ![h] = x]
  BY DEF Receive
<1>4. x \in HandlerRecord /\ x.pc = "find" /\ x.action = a /\ x.stale = {}
  BY <1>2 DEF HandlerRecord, Pcs, Idle
<1> HIDE DEF x
<1>5. Becomes(h, x) /\ \A n : Request(x, n)
  BY <1>1, <1>2, <1>3, <1>4, Becoming DEF Request
<1> QED
  BY <1>4, <1>5 DEF Ordinary, After, Past, Counted

\* Steps of the registry of strategies.
LEMMA ResolveStep ==
    ASSUME Types, NEW h \in Handlers, Resolve(h)
    PROVE  Ordinary(h) /\ TablesOK' /\ Grow /\ UNCHANGED <<posType, pms>>
<1>1. /\ UNCHANGED <<posType, pms>> /\ ~At(h, "idle")
      /\ strategies \in Nat /\ userStrategies \in Seq(Nat)
  BY DEF Types, TablesOK, Resolve, FindStrategy, CreateStrategy, FindUserStrategy, CreateUserStrategy, At
<1>2. handler[h].strategy \in Nat
  BY RequestFacts DEF HandlerRecord
<1>3. Ordinary(h) /\ strategies' \in Nat /\ userStrategies' \in Seq(Nat)
  <2>1. CASE FindStrategy(h)
    <3>1. UNCHANGED registry
      BY <2>1 DEF FindStrategy
    <3>2. CASE Goto(h, "create")
      BY <1>1, <2>1, <3>1, <3>2, GotoOrdinary DEF FindStrategy, registry
    <3>3. CASE \E s \in 1 .. strategies : LookUpUserStrategy(h, s)
      BY <1>1, <3>1, <3>3, LookUpOrdinary DEF registry
    <3> QED
      BY <2>1, <3>2, <3>3 DEF FindStrategy
  <2>2. CASE CreateStrategy(h)
    <3>1. PICK s \in Nat : s = strategies + 1
      BY <1>1
    <3>2. handler' = [handler EXCEPT ![h].strategy = s, ![h].pc = "findUser"]
      BY <2>2, <3>1 DEF CreateStrategy
    <3>3. Ordinary(h)
      BY <1>1, <3>2, StrategyOrdinary
    <3> QED
      BY <1>1, <2>2, <3>3 DEF CreateStrategy
  <2>3. CASE FindUserStrategy(h)
    <3>1. PICK s \in Nat : s = handler[h].strategy
      BY <1>2
    <3>2. Ordinary(h)
      BY <1>1, <2>3, <3>1, LookUpOrdinary DEF FindUserStrategy
    <3> QED
      BY <1>1, <2>3, <3>2 DEF FindUserStrategy, registry
  <2>4. CASE CreateUserStrategy(h)
    <3>1. userStrategies' \in Seq(Nat) /\ Len(userStrategies') \in Nat
      BY <1>1, <1>2, <2>4, AppendProperties, LenProperties DEF CreateUserStrategy
    <3>2. PICK row \in Nat : row = Len(userStrategies')
      BY <3>1
    <3>3. Ordinary(h)
      BY <1>1, <2>4, <3>2, DispatchOrdinary DEF CreateUserStrategy
    <3> QED
      BY <1>1, <2>4, <3>1, <3>3 DEF CreateUserStrategy
  <2> QED
    BY <2>1, <2>2, <2>3, <2>4 DEF Resolve
<1> QED
  BY <1>1, <1>3, SameTables DEF Types, TablesOK, Grow, pms, PositionIds, OrderIds

\* A request counts the active positions, ...
LEMMA CountActiveStep ==
    ASSUME Types, NEW h \in Handlers, CountActive(h)
    PROVE  /\ At(h, "count") /\ UNCHANGED <<posType, registry, pms>>
           /\ \E x : /\ Becomes(h, x) /\ \A n : Request(x, n)
                     /\ x.pc = "pending" /\ x.action = handler[h].action /\ x.row = handler[h].row
                     /\ x.seen = handler[h].seen /\ x.stale = handler[h].stale
                     /\ x.calm => x.active = Cardinality(ActiveOf(handler[h].row))
<1>1. /\ At(h, "count") /\ UNCHANGED <<posType, registry, pms>>
      /\ handler \in [Handlers -> HandlerRecord] /\ handler[h] \in HandlerRecord
      /\ handler[h].action \in AllActions
  BY RequestFacts DEF CountActive, At
<1>2. Cardinality(ActiveOf(handler[h].row)) \in Nat
  <2>1. PICK row : row = handler[h].row
    OBVIOUS
  <2> QED
    BY <2>1, ActiveFinite DEF Types
<1>3. PICK calm \in BOOLEAN, active \in Nat :
        /\ handler' = [handler EXCEPT ![h].pc = "pending", ![h].calm = calm, ![h].active = active]
        /\ calm => active = Cardinality(ActiveOf(handler[h].row))
  BY <1>2 DEF CountActive
<1> DEFINE x == [handler[h] EXCEPT !.pc = "pending", !.calm = calm, !.active = active]
<1>4. handler' = [handler EXCEPT ![h] = x]
  BY <1>1, <1>3 DEF HandlerRecord
<1>5. /\ x \in HandlerRecord /\ x.pc = "pending" /\ x.action = handler[h].action
      /\ x.row = handler[h].row /\ x.seen = handler[h].seen /\ x.stale = handler[h].stale
      /\ x.calm = calm /\ x.active = active
  BY <1>1 DEF HandlerRecord, Pcs
<1> HIDE DEF x
<1>6. Becomes(h, x) /\ \A n : Request(x, n)
  BY <1>1, <1>4, <1>5, Becoming DEF Request
<1> QED
  BY <1>1, <1>3, <1>5, <1>6

\* ... and goes on if its pending orders leave room, ...
LEMMA CountPendingStep ==
    ASSUME Types, NEW h \in Handlers, CountPending(h)
    PROVE  /\ At(h, "pending") /\ UNCHANGED <<posType, registry, pms>>
           /\ \/ Ordinary(h)
              \/ WithinLimit(h) /\ \E x : /\ Becomes(h, x) /\ \A n : Request(x, n)
                                          /\ x.pc = "invalidate" /\ Same(x, handler[h])
<1>1. /\ At(h, "pending") /\ UNCHANGED <<posType, registry, pms>>
      /\ handler \in [Handlers -> HandlerRecord] /\ handler[h] \in HandlerRecord
      /\ handler[h].action \in AllActions
  BY RequestFacts DEF CountPending, At
<1>2. CASE ~WithinLimit(h)
  BY <1>1, <1>2, AnswerOrdinary DEF CountPending
<1>3. CASE WithinLimit(h)
  <2> DEFINE x == [handler[h] EXCEPT !.active = 0, !.pc = "invalidate"]
  <2>1. handler' = [handler EXCEPT ![h].active = 0, ![h].pc = "invalidate"]
    BY <1>3 DEF CountPending
  <2>2. handler' = [handler EXCEPT ![h] = x]
    BY <1>1, <2>1 DEF HandlerRecord
  <2>3. x \in HandlerRecord /\ x.pc = "invalidate" /\ Same(x, handler[h])
    BY <1>1 DEF HandlerRecord, Pcs, Same
  <2> HIDE DEF x
  <2>4. Becomes(h, x) /\ \A n : Request(x, n)
    BY <1>1, <2>2, <2>3, Becoming DEF Request, Same
  <2> QED
    BY <1>1, <1>3, <2>3, <2>4
<1> QED
  BY <1>2, <1>3

\* ... makes the rules inactive, ...
LEMMA InvalidateStep ==
    ASSUME Types, NEW h \in Handlers, InvalidateRules(h)
    PROVE  /\ At(h, "invalidate")
           /\ \E x : /\ Becomes(h, x) /\ \A n : Request(x, n)
                     /\ x.pc = "order" /\ x.action = handler[h].action /\ x.row = handler[h].row
                     /\ x.seen = handler[h].seen /\ x.calm = handler[h].calm
                     /\ x.stale = {r \in RuleIds : rules[r].row = handler[h].row} \ Passed
<1>1. /\ At(h, "invalidate")
      /\ handler \in [Handlers -> HandlerRecord] /\ handler[h] \in HandlerRecord
      /\ handler[h].action \in AllActions
  BY RequestFacts DEF InvalidateRules, At
<1>2. PICK stale : stale = {r \in RuleIds : rules[r].row = handler[h].row} \ Passed
  OBVIOUS
<1>3. stale \in SUBSET Nat
  BY <1>2, Lengths DEF Types, RuleIds
<1>4. handler' = [handler EXCEPT ![h].pc = "order", ![h].stale = stale]
  BY <1>2 DEF InvalidateRules
<1> DEFINE x == [handler[h] EXCEPT !.pc = "order", !.stale = stale]
<1>5. handler' = [handler EXCEPT ![h] = x]
  BY <1>1, <1>4 DEF HandlerRecord
<1>6. /\ x \in HandlerRecord /\ x.pc = "order" /\ x.action = handler[h].action
      /\ x.row = handler[h].row /\ x.seen = handler[h].seen /\ x.calm = handler[h].calm
      /\ x.stale = stale
  BY <1>1, <1>3 DEF HandlerRecord, Pcs
<1> HIDE DEF x
<1>7. Becomes(h, x) /\ \A n : Request(x, n)
  BY <1>1, <1>5, <1>6, Becoming DEF Request
<1> QED
  BY <1>1, <1>2, <1>6, <1>7

\* A reversing request looks for what it has to close, ...
LEMMA QueryReverseStep ==
    ASSUME Types, NEW h \in Handlers, QueryReverse(h)
    PROVE  /\ UNCHANGED <<posType, registry, pms>>
           /\ \E x : /\ Becomes(h, x) /\ \A n : Request(x, n)
                     /\ x.pc = IF Found(h) = {} THEN "count" ELSE "close"
                     /\ x.action = handler[h].action /\ x.row = handler[h].row
                     /\ x.stale = handler[h].stale
                     /\ x.seen = {p \in ActiveOf(handler[h].row) :
                                    SideOf(p) = CloseSide(handler[h].action)}
<1>1. /\ ~At(h, "idle") /\ UNCHANGED <<posType, registry, pms>>
      /\ handler \in [Handlers -> HandlerRecord] /\ handler[h] \in HandlerRecord
  BY RequestFacts DEF QueryReverse, At
<1>2. handler[h].action \in AllActions
  BY <1>1, RequestFacts
<1>3. PICK seen : seen = {p \in ActiveOf(handler[h].row) : SideOf(p) = CloseSide(handler[h].action)}
  OBVIOUS
<1>4. seen \in SUBSET Nat
  BY <1>3, Lengths DEF Types, ActiveOf, PositionIds
<1>5. PICK pc \in {"count", "close"} : pc = IF Found(h) = {} THEN "count" ELSE "close"
  OBVIOUS
<1>6. handler' = [handler EXCEPT ![h].seen = seen, ![h].pc = pc]
  BY <1>3, <1>5 DEF QueryReverse
<1> DEFINE x == [handler[h] EXCEPT !.seen = seen, !.pc = pc]
<1>7. handler' = [handler EXCEPT ![h] = x]
  BY <1>1, <1>6 DEF HandlerRecord
<1>8. /\ x \in HandlerRecord /\ x.pc = pc /\ x.action = handler[h].action
      /\ x.row = handler[h].row /\ x.stale = handler[h].stale /\ x.seen = seen
  BY <1>1, <1>4 DEF HandlerRecord, Pcs
<1> HIDE DEF x
<1>9. Becomes(h, x) /\ \A n : Request(x, n)
  BY <1>1, <1>2, <1>7, <1>8, Becoming DEF Request
<1> QED
  BY <1>1, <1>3, <1>5, <1>8, <1>9

\* ... and polls until it is closed.
LEMMA PollStep ==
    ASSUME Types, NEW h \in Handlers, Poll(h)
    PROVE  /\ UNCHANGED <<posType, registry, pms>>
           /\ \/ Ordinary(h)
              \/ /\ At(h, "wait") /\ Found(h) = {}
                 /\ \E x : /\ Becomes(h, x) /\ \A n : Request(x, n)
                           /\ x.pc = "count" /\ Same(x, handler[h])
<1>1. /\ At(h, "wait") /\ UNCHANGED <<posType, registry, pms>>
      /\ handler \in [Handlers -> HandlerRecord] /\ handler[h] \in HandlerRecord
      /\ handler[h].action \in AllActions
  BY RequestFacts DEF Poll, At
<1>2. CASE Found(h) = {}
  <2> DEFINE x == [handler[h] EXCEPT !.polls = 0, !.pc = "count"]
  <2>1. handler' = [handler EXCEPT ![h].polls = 0, ![h].pc = "count"]
    BY <1>2 DEF Poll
  <2>2. handler' = [handler EXCEPT ![h] = x]
    BY <1>1, <2>1 DEF HandlerRecord
  <2>3. x \in HandlerRecord /\ x.pc = "count" /\ Same(x, handler[h])
    BY <1>1 DEF HandlerRecord, Pcs, Same
  <2> HIDE DEF x
  <2>4. Becomes(h, x) /\ \A n : Request(x, n)
    BY <1>1, <2>2, <2>3, Becoming DEF Request, Same
  <2> QED
    BY <1>1, <1>2, <2>3, <2>4
<1>3. CASE Found(h) # {} /\ handler[h].polls < PollLimit - 1
  <2>1. PICK polls \in Nat : polls = handler[h].polls + 1
    BY <1>1 DEF HandlerRecord
  <2> DEFINE x == [handler[h] EXCEPT !.polls = polls]
  <2>2. handler' = [handler EXCEPT ![h].polls = polls]
    BY <1>3, <2>1 DEF Poll
  <2>3. handler' = [handler EXCEPT ![h] = x]
    BY <1>1, <2>2 DEF HandlerRecord
  <2>4. x \in HandlerRecord /\ x.pc = "wait" /\ Same(x, handler[h])
    BY <1>1 DEF HandlerRecord, Same, At
  <2> HIDE DEF x
  <2>5. Becomes(h, x) /\ \A n : Request(x, n)
    BY <1>1, <2>3, <2>4, Becoming DEF Request, Same
  <2> QED
    BY <1>1, <2>4, <2>5 DEF Ordinary, Same, After, Past, Counted, At
<1>4. CASE Found(h) # {} /\ ~(handler[h].polls < PollLimit - 1)
  BY <1>1, <1>4, AnswerOrdinary DEF Poll
<1> QED
  BY <1>2, <1>3, <1>4

\* What a disturbance leaves of the requests.
LEMMA DisturbFacts ==
    ASSUME handler \in [Handlers -> HandlerRecord], NEW row, NEW pcs
    PROVE  /\ Disturb(handler, row, pcs) \in [Handlers -> HandlerRecord]
           /\ \A g \in Handlers :
                LET x == Disturb(handler, row, pcs)[g] IN
                /\ x.pc = handler[g].pc /\ x.action = handler[g].action /\ x.row = handler[g].row
                /\ x.seen = handler[g].seen /\ x.stale = handler[g].stale
                /\ x.order = handler[g].order /\ x.active = handler[g].active
                /\ x.calm => /\ handler[g].calm
                             /\ ~(handler[g].row = row /\ handler[g].pc \in pcs)
<1>1. ASSUME NEW g \in Handlers, NEW x, x = Disturb(handler, row, pcs)[g]
      PROVE  /\ x \in HandlerRecord
             /\ x.pc = handler[g].pc /\ x.action = handler[g].action /\ x.row = handler[g].row
             /\ x.seen = handler[g].seen /\ x.stale = handler[g].stale
             /\ x.order = handler[g].order /\ x.active = handler[g].active
             /\ x.calm => /\ handler[g].calm
                          /\ ~(handler[g].row = row /\ handler[g].pc \in pcs)
  <2>1. handler[g] \in HandlerRecord
    OBVIOUS
  <2>2. x = IF handler[g].row = row /\ handler[g].pc \in pcs
            THEN [handler[g] EXCEPT !.calm = FALSE] ELSE handler[g]
    BY <1>1 DEF Disturb
  <2> QED
    BY <2>1, <2>2 DEF HandlerRecord
<1>2. Disturb(handler, row, pcs) = [g \in Handlers |-> Disturb(handler, row, pcs)[g]]
  BY DEF Disturb
<1> QED
  BY <1>1, <1>2

\* The others, when request h has created an order; they are disturbed.
Others(h) ==
    \A g \in Handlers \ {h} :
        LET x == handler'[g] IN
        /\ x.pc = handler[g].pc /\ x.action = handler[g].action /\ x.row = handler[g].row
        /\ x.seen = handler[g].seen /\ x.stale = handler[g].stale
        /\ x.order = handler[g].order /\ x.active = handler[g].active
        /\ x.calm => handler[g].calm /\ ~(handler[g].row = handler[h].row /\ handler[g].pc \in Counted)

\* What the creation of an order does to the requests.
LEMMA CreateOrderStep ==
    ASSUME Types, NEW h \in Handlers, CreateUserOrder(h)
    PROVE  /\ At(h, "order") /\ Others(h)
           /\ handler' \in [Handlers -> HandlerRecord]
           /\ handler'[h].pc = "place" /\ handler'[h].order = Len(orders')
           /\ handler'[h].action = handler[h].action /\ handler'[h].row = handler[h].row
           /\ handler'[h].seen = handler[h].seen /\ handler'[h].stale = {}
<1>1. /\ At(h, "order")
      /\ handler \in [Handlers -> HandlerRecord] /\ handler[h] \in HandlerRecord
      /\ handler[h].action \in AllActions
  BY RequestFacts DEF CreateUserOrder, At
<1>2. PICK row : row = handler[h].row
  OBVIOUS
<1>3. PICK D : D = Disturb(handler, row, Counted)
  OBVIOUS
<1>4. /\ D \in [Handlers -> HandlerRecord]
      /\ \A g \in Handlers :
           /\ D[g].pc = handler[g].pc /\ D[g].action = handler[g].action /\ D[g].row = handler[g].row
           /\ D[g].seen = handler[g].seen /\ D[g].stale = handler[g].stale
           /\ D[g].order = handler[g].order /\ D[g].active = handler[g].active
           /\ D[g].calm => handler[g].calm /\ ~(handler[g].row = row /\ handler[g].pc \in Counted)
  BY <1>1, <1>3, DisturbFacts
<1>5. PICK n \in Nat : n = Len(orders')
  BY CreateOrderTables, Lengths DEF Types
<1>6. handler' = [D EXCEPT ![h].pc = "place", ![h].order = n, ![h].calm = TRUE, ![h].stale = {}]
  BY <1>2, <1>3, <1>5 DEF CreateUserOrder, Counted
<1> DEFINE x == [D[h] EXCEPT !.pc = "place", !.order = n, !.calm = TRUE, !.stale = {}]
<1>7. handler' = [D EXCEPT ![h] = x]
  BY <1>4, <1>6 DEF HandlerRecord
<1>8. D[h] \in HandlerRecord
  BY <1>4
<1>9. /\ x \in HandlerRecord /\ x.pc = "place" /\ x.order = n /\ x.action = D[h].action
      /\ x.row = D[h].row /\ x.seen = D[h].seen /\ x.stale = {}
  BY <1>8 DEF HandlerRecord, Pcs
<1> HIDE DEF x
<1>10. /\ handler' \in [Handlers -> HandlerRecord] /\ handler'[h] = x
       /\ \A g \in Handlers \ {h} : handler'[g] = D[g]
  BY <1>4, <1>7, <1>9
<1>11. Others(h)
  BY <1>2, <1>4, <1>10 DEF Others
<1> QED
  BY <1>1, <1>4, <1>5, <1>9, <1>10, <1>11
-----------------------------------------------------------------------------
(* The steps of the system.                                                *)

\* Steps of requests that change no table but the registry of strategies.
Plain(h) == Ordinary(h) /\ TablesOK' /\ Grow /\ UNCHANGED <<posType, pms>>

\* The others.
Special(h) ==
    \/ CountActive(h)     \/ CountPending(h) \/ InvalidateRules(h)
    \/ CreateUserOrder(h) \/ PlaceOrder(h)   \/ PlaceFails(h)
    \/ CreateRule(h)      \/ QueryReverse(h) \/ Poll(h)

\* Tables and the registry as they were.
LEMMA SamePms ==
    ASSUME Types, UNCHANGED <<posType, registry, pms>>
    PROVE  TablesOK' /\ Grow /\ Len(orders') = Len(orders)
  BY SameTables DEF Types, TablesOK, Grow, registry, pms, PositionIds, OrderIds

\* Every step of a request is plain or special.
LEMMA RequestKinds ==
    ASSUME Types, NEW h \in Handlers,
           (\E a \in Incoming : Receive(h, a)) \/ Resolve(h) \/ Open(h) \/ Close(h)
    PROVE  Plain(h) \/ Special(h)
<1>1. CASE \E a \in Incoming : Receive(h, a)
  <2>1. UNCHANGED <<posType, registry, pms>>
    BY <1>1 DEF Receive
  <2> QED
    BY <1>1, <2>1, ReceiveOrdinary, SamePms DEF Plain
<1>2. CASE Resolve(h)
  BY <1>2, ResolveStep DEF Plain
<1>3. CASE RefuseOpen(h) \/ RegisterFails(h) \/ CallFails(h)
  <2>1. UNCHANGED <<posType, registry, pms>> /\ Answer(h)
    BY <1>3 DEF RefuseOpen, RegisterFails, CallFails
  <2> QED
    BY <2>1, AnswerOrdinary, SamePms DEF Plain
<1>4. CASE InvalidateFails(h)
  <2>1. UNCHANGED <<posType, registry, pms>> /\ Goto(h, "order") /\ At(h, "invalidate")
    BY <1>4 DEF InvalidateFails
  <2> QED
    BY <2>1, GotoOrdinary, SamePms DEF Plain
<1>5. CASE QueryClose(h)
  <2>1. UNCHANGED <<posType, registry, pms>> /\ handler[h].pc \in {"close", "rule"}
    BY <1>5 DEF QueryClose, At
  <2>2. Goto(h, "wait") \/ Answer(h) \/ Goto(h, "rule")
    BY <1>5 DEF QueryClose, Closed
  <2>3. Ordinary(h)
    BY <2>1, <2>2, AnswerOrdinary, GotoOrdinary
  <2> QED
    BY <2>1, <2>3, SamePms DEF Plain
<1> QED
  BY <1>1, <1>2, <1>3, <1>4, <1>5 DEF Open, Close, Special

\* A rule is created: so far as the requests go, this is an ordinary step.
LEMMA CreateRuleOrdinary ==
    ASSUME Types, NEW h \in Handlers, CreateRule(h)
    PROVE  Ordinary(h)
<1>1. Goto(h, "wait") \/ Answer(h)
  BY DEF CreateRule, Closed
<1>2. handler[h].pc \in {"close", "rule"}
  BY DEF CreateRule, At
<1> QED
  BY <1>1, <1>2, AnswerOrdinary, GotoOrdinary

\* Steps of the PMS.
LEMMA NextKinds ==
    ASSUME Types, [Next]_vars
    PROVE  \/ \E h \in Handlers : Plain(h) \/ Special(h)
           \/ \E o \in OrderIds : Fill(o)
           \/ \E p \in PositionIds : NotifyFilled(p) \/ LoseNotification(p) \/ FillClose(p)
           \/ Cycle
           \/ \E row \in resets : ResetRules(row)
           \/ UNCHANGED vars
<1>1. CASE \E h \in Handlers :
             (\E a \in Incoming : Receive(h, a)) \/ Resolve(h) \/ Open(h) \/ Close(h)
  BY <1>1, RequestKinds
<1> QED
  BY <1>1 DEF Next

\* A step of a request but for the creation of an order.
LEMMA BecomesStep ==
    ASSUME Types, TablesOK', Grow, NEW h \in Handlers,
           \E x : Becomes(h, x) /\ \A n : Request(x, n)
    PROVE  Types'
<1>1. Len(orders') >= Len(orders)
  BY DEF Grow, OrdersGrow
<1> QED
  BY <1>1, BecomesTypes

\* Every step keeps the types, and what no step undoes.
LEMMA TypesStep == Types /\ [Next]_vars => Types' /\ Grow
<1> SUFFICES ASSUME Types, [Next]_vars
             PROVE  Types' /\ Grow
  OBVIOUS
<1>1. ASSUME NEW h \in Handlers, Plain(h) PROVE Types' /\ Grow
  BY <1>1, BecomesStep DEF Plain, Ordinary
<1>2. ASSUME NEW h \in Handlers, Special(h) PROVE Types' /\ Grow
  <2>1. CASE CountActive(h)
    <3>1. TablesOK' /\ Grow
      BY <2>1, CountActiveStep, SamePms
    <3> QED
      BY <2>1, <3>1, CountActiveStep, BecomesStep
  <2>2. CASE CountPending(h)
    <3>1. TablesOK' /\ Grow
      BY <2>2, CountPendingStep, SamePms
    <3> QED
      BY <2>2, <3>1, CountPendingStep, BecomesStep DEF Ordinary
  <2>3. CASE InvalidateRules(h)
    BY <2>3, InvalidateTables, InvalidateStep, BecomesStep
  <2>4. CASE CreateUserOrder(h)
    <3>1. TablesOK' /\ Grow /\ Len(orders') = Len(orders) + 1 /\ Len(orders) \in Nat
      BY <2>4, CreateOrderTables, Lengths DEF Types
    <3>2. /\ handler' \in [Handlers -> HandlerRecord]
          /\ Others(h) /\ At(h, "order")
          /\ handler'[h].pc = "place" /\ handler'[h].order = Len(orders')
          /\ handler'[h].action = handler[h].action
      BY <2>4, CreateOrderStep
    <3>3. ASSUME NEW g \in Handlers PROVE Request(handler'[g], Len(orders'))
      <4>1. handler'[g] \in HandlerRecord /\ Request(handler[g], Len(orders))
        BY <3>2, RequestFacts
      <4>2. CASE g = h
        BY <3>1, <3>2, <4>1, <4>2 DEF Request, At
      <4>3. CASE g # h
        <5>1. /\ handler'[g].pc = handler[g].pc /\ handler'[g].action = handler[g].action
              /\ handler'[g].order = handler[g].order
          BY <3>2, <4>3 DEF Others
        <5> QED
          BY <3>1, <4>1, <5>1 DEF Request
      <4> QED
        BY <4>2, <4>3
    <3> QED
      BY <3>1, <3>2, <3>3 DEF Types, RequestsOK
  <2>5. CASE PlaceOrder(h) \/ PlaceFails(h)
    <3>1. TablesOK' /\ Grow /\ Ordinary(h)
      BY <2>5, PlaceTables, AnswerOrdinary DEF PlaceOrder, PlaceFails
    <3> QED
      BY <3>1, BecomesStep DEF Ordinary
  <2>6. CASE CreateRule(h)
    BY <2>6, CreateRuleTables, CreateRuleOrdinary, BecomesStep DEF Ordinary
  <2>7. CASE QueryReverse(h)
    <3>1. TablesOK' /\ Grow
      BY <2>7, QueryReverseStep, SamePms
    <3> QED
      BY <2>7, <3>1, QueryReverseStep, BecomesStep
  <2>8. CASE Poll(h)
    <3>1. TablesOK' /\ Grow
      BY <2>8, PollStep, SamePms
    <3> QED
      BY <2>8, <3>1, PollStep, BecomesStep DEF Ordinary
  <2> QED
    BY <1>2, <2>1, <2>2, <2>3, <2>4, <2>5, <2>6, <2>7, <2>8 DEF Special
<1>3. ASSUME TablesOK', Grow, UNCHANGED handler PROVE Types' /\ Grow
  BY <1>3, NoRequest DEF Grow, OrdersGrow
<1>4. CASE \E o \in OrderIds : Fill(o)
  BY <1>3, <1>4, FillTables DEF Fill
<1>5. ASSUME NEW p \in PositionIds, NotifyFilled(p) PROVE Types' /\ Grow
  <2>1. TablesOK' /\ Grow /\ OrderIds' = OrderIds /\ Len(orders') >= Len(orders)
    BY <1>5, NotifyTables DEF Grow, OrdersGrow
  <2>2. PICK row : row = RowOf(p)
    OBVIOUS
  <2>3. handler' = Disturb(handler, row, {"pending"}) /\ handler \in [Handlers -> HandlerRecord]
    BY <1>5, <2>2 DEF NotifyFilled, Types, RequestsOK
  <2>4. /\ handler' \in [Handlers -> HandlerRecord]
        /\ \A g \in Handlers :
             /\ handler'[g].pc = handler[g].pc /\ handler'[g].action = handler[g].action
             /\ handler'[g].order = handler[g].order
    BY <2>3, DisturbFacts
  <2>5. Len(orders) \in Nat /\ Len(orders') \in Nat
    BY <2>1, LenProperties DEF Types, TablesOK
  <2>6. \A g \in Handlers : Request(handler'[g], Len(orders'))
    BY <2>1, <2>4, <2>5, RequestFacts DEF Request
  <2> QED
    BY <2>1, <2>4, <2>6 DEF Types, RequestsOK
<1>6. ASSUME NEW p \in PositionIds, LoseNotification(p) PROVE Types' /\ Grow
  BY <1>3, <1>6, NotifyTables DEF LoseNotification
<1>7. ASSUME NEW p \in PositionIds, FillClose(p) PROVE Types' /\ Grow
  BY <1>3, <1>7, FillCloseTables DEF FillClose
<1>8. CASE Cycle
  <2>1. CASE CycleEvaluate
    BY <1>3, <2>1, EvaluateTables DEF CycleEvaluate
  <2>2. CASE ApplyStart
    BY <1>3, <2>2, ApplyTables DEF ApplyStart
  <2>3. CASE PlaceCloses
    BY <1>3, <2>3, PlaceClosesTables DEF PlaceCloses
  <2>4. CASE MarkInUse
    BY <1>3, <2>4, MarkTables DEF MarkInUse
  <2> QED
    BY <1>8, <2>1, <2>2, <2>3, <2>4 DEF Cycle
<1>9. CASE \E row \in resets : ResetRules(row)
  BY <1>3, <1>9, ResetTables DEF ResetRules
<1>10. CASE UNCHANGED vars
  <2>1. UNCHANGED <<posType, registry, pms>> /\ UNCHANGED handler
    BY <1>10 DEF vars, registry, pms
  <2> QED
    BY <1>3, <2>1, SamePms
<1> QED
  BY <1>1, <1>2, <1>4, <1>5, <1>6, <1>7, <1>8, <1>9, <1>10, NextKinds

\* The types hold at first.
LEMMA TypesInit == Init => Types
<1> SUFFICES ASSUME Init PROVE Types
  OBVIOUS
<1>1. /\ posType \in {"futures", "options"} /\ strategies \in Nat
      /\ userStrategies \in Seq(Nat) /\ orders \in Seq(OrderRecord)
      /\ positions \in Seq(PositionRecord) /\ rules \in Seq(RuleRecord)
      /\ Len(positions) = 0
  BY PosTypesAssumption, EmptySeq DEF Init
<1>2. CycleOK(cycle, Len(rules))
  BY DEF Init, CycleOK
<1>3. handler \in [Handlers -> HandlerRecord] /\ \A h \in Handlers : Request(handler[h], Len(orders))
  BY IdleRequest DEF Init
<1> QED
  BY <1>1, <1>2, <1>3 DEF Types, TablesOK, RequestsOK, PositionIds
-----------------------------------------------------------------------------
(* Stale rules.                                                            *)

\* None of the rules is active or about to be applied.
Spared(S, table, c) ==
    \A r \in S : /\ r \in 1 .. Len(table)
                 /\ table[r].status # "active"
                 /\ c.pc = "place" => c.rule # r

\* Rules that are stale for a request or an order are spared by the cycle.
SpareInv ==
    /\ \A h \in Handlers : Spared(handler[h].stale, rules, cycle)
    /\ \A o \in OrderIds : Spared(orders[o].stale, rules, cycle)
    /\ StaleRulesSpare

\* Rules stay stale.
LEMMA StaySpared ==
    ASSUME Types, Grow
    PROVE  \A S : Spared(S, rules, cycle) => Spared(S, rules', cycle')
<1>1. Len(rules) \in Nat
  BY Lengths DEF Types
<1>2. ASSUME NEW S, Spared(S, rules, cycle), NEW r \in S
      PROVE  /\ r \in 1 .. Len(rules') /\ rules'[r].status # "active"
             /\ cycle'.pc = "place" => cycle'.rule # r
  <2>1. r \in RuleIds /\ rules[r].status # "active" /\ (cycle.pc = "place" => cycle.rule # r)
    BY <1>2 DEF Spared, RuleIds
  <2>2. r \in 1 .. Len(rules') /\ rules'[r].status # "active"
    BY <1>1, <2>1, LenProperties DEF Grow, RulesGrow, RuleIds
  <2> QED
    BY <2>1, <2>2 DEF Grow, CycleCareful
<1> QED
  BY <1>2 DEF Spared

\* The rules that an opening signal finds are stale when it is done with them.
LEMMA InvalidateSpares ==
    ASSUME Types, NEW h \in Handlers, InvalidateRules(h)
    PROVE  Spared({r \in RuleIds : rules[r].row = handler[h].row} \ Passed, rules', cycle')
<1>1. /\ RuleIds' = RuleIds
      /\ \A r \in RuleIds : rules[r].row = handler[h].row => rules'[r].status # "active"
  BY InvalidateTables
<1>2. UNCHANGED cycle
  BY DEF InvalidateRules
<1> QED
  BY <1>1, <1>2 DEF Spared, Passed, RuleIds

\* What a step does with the stale rules of the requests, ...
LEMMA RequestsSpare ==
    ASSUME Types, Types', Grow, SpareInv, [Next]_vars
    PROVE  \A g \in Handlers : Spared(handler'[g].stale, rules', cycle')
<1>1. \A S : Spared(S, rules, cycle) => Spared(S, rules', cycle')
  BY StaySpared
<1>2. Spared({}, rules', cycle')
  BY DEF Spared
<1>3. ASSUME \A g \in Handlers : handler'[g].stale \in {{}, handler[g].stale}
      PROVE  \A g \in Handlers : Spared(handler'[g].stale, rules', cycle')
  BY <1>1, <1>2, <1>3 DEF SpareInv
<1>4. ASSUME NEW h \in Handlers,
             \E x : /\ Becomes(h, x)
                    /\ x.stale \in {{}, handler[h].stale} \/ Spared(x.stale, rules', cycle')
      PROVE  \A g \in Handlers : Spared(handler'[g].stale, rules', cycle')
  BY <1>1, <1>2, <1>4 DEF SpareInv, Becomes
<1>5. ASSUME NEW h \in Handlers, Plain(h)
      PROVE  \A g \in Handlers : Spared(handler'[g].stale, rules', cycle')
  BY <1>4, <1>5 DEF Plain, Ordinary
<1>6. ASSUME NEW h \in Handlers, Special(h)
      PROVE  \A g \in Handlers : Spared(handler'[g].stale, rules', cycle')
  <2>1. CASE CountActive(h)
    BY <1>4, <2>1, CountActiveStep
  <2>2. CASE CountPending(h)
    BY <1>4, <2>2, CountPendingStep DEF Ordinary, Same
  <2>3. CASE InvalidateRules(h)
    <3>1. PICK x : /\ Becomes(h, x)
                   /\ x.stale = {r \in RuleIds : rules[r].row = handler[h].row} \ Passed
      BY <2>3, InvalidateStep
    <3>2. Spared(x.stale, rules', cycle')
      BY <2>3, <3>1, InvalidateSpares
    <3> QED
      BY <1>4, <3>1, <3>2
  <2>4. CASE CreateUserOrder(h)
    <3>1. handler'[h].stale = {} /\ Others(h)
      BY <2>4, CreateOrderStep
    <3> QED
      BY <1>3, <3>1 DEF Others
  <2>5. CASE PlaceOrder(h) \/ PlaceFails(h)
    <3>1. Ordinary(h)
      BY <2>5, AnswerOrdinary DEF PlaceOrder, PlaceFails
    <3> QED
      BY <1>4, <3>1 DEF Ordinary
  <2>6. CASE CreateRule(h)
    BY <1>4, <2>6, CreateRuleOrdinary DEF Ordinary
  <2>7. CASE QueryReverse(h)
    BY <1>4, <2>7, QueryReverseStep
  <2>8. CASE Poll(h)
    BY <1>4, <2>8, PollStep DEF Ordinary, Same
  <2> QED
    BY <1>6, <2>1, <2>2, <2>3, <2>4, <2>5, <2>6, <2>7, <2>8 DEF Special
<1>7. ASSUME NEW p \in PositionIds, NotifyFilled(p)
      PROVE  \A g \in Handlers : Spared(handler'[g].stale, rules', cycle')
  <2>1. PICK row : row = RowOf(p)
    OBVIOUS
  <2>2. handler' = Disturb(handler, row, {"pending"}) /\ handler \in [Handlers -> HandlerRecord]
    BY <1>7, <2>1 DEF NotifyFilled, Types, RequestsOK
  <2>3. \A g \in Handlers : handler'[g].stale = handler[g].stale
    BY <2>2, DisturbFacts
  <2> QED
    BY <1>3, <2>3
<1>8. CASE UNCHANGED handler
  BY <1>3, <1>8
<1> QED
  BY <1>5, <1>6, <1>7, <1>8, NextKinds
     DEF Fill, LoseNotification, FillClose, Cycle, CycleEvaluate, ApplyStart, PlaceCloses,
         MarkInUse, ResetRules, vars

\* ... with those of the orders, ...
LEMMA OrdersSpare ==
    ASSUME Types, Types', Grow, SpareInv, [Next]_vars
    PROVE  \A o \in OrderIds' : Spared(orders'[o].stale, rules', cycle')
<1>1. \A S : Spared(S, rules, cycle) => Spared(S, rules', cycle')
  BY StaySpared
<1>2. \A o \in OrderIds : Spared(orders'[o].stale, rules', cycle')
  BY <1>1 DEF SpareInv, Grow, OrdersGrow
<1>3. CASE OrderIds' = OrderIds
  BY <1>2, <1>3
<1>4. ASSUME NEW h \in Handlers, CreateUserOrder(h)
      PROVE  \A o \in OrderIds' : Spared(orders'[o].stale, rules', cycle')
  <2>1. /\ Len(orders) \in Nat /\ Len(orders') = Len(orders) + 1
        /\ orders'[Len(orders) + 1].stale = handler[h].stale
    <3>1. orders'[Len(orders) + 1] = Order(handler[h].row, OpenSide(handler[h].action),
                                           handler[h].stale, handler[h].calm)
      BY <1>4, CreateOrderTables
    <3>2. orders'[Len(orders) + 1].stale = handler[h].stale
      BY <3>1 DEF Order
    <3> QED
      BY <1>4, <3>2, CreateOrderTables, Lengths DEF Types
  <2>2. \A o \in OrderIds' : o \in OrderIds \/ o = Len(orders) + 1
    BY <2>1 DEF OrderIds
  <2> QED
    BY <1>1, <1>2, <2>1, <2>2 DEF SpareInv
<1>5. CASE UNCHANGED orders
  BY <1>3, <1>5 DEF OrderIds
<1>6. ASSUME NEW h \in Handlers, Special(h)
      PROVE  UNCHANGED orders \/ OrderIds' = OrderIds \/ CreateUserOrder(h)
  BY <1>6, PlaceTables
     DEF Special, CountActive, CountPending, InvalidateRules, CreateRule, QueryReverse, Poll, pms
<1> QED
  BY <1>3, <1>4, <1>5, <1>6, NextKinds, NotifyTables
     DEF Plain, pms, Fill, FillClose, Cycle, CycleEvaluate, ApplyStart, PlaceCloses,
         MarkInUse, ResetRules, vars

\* ... and with the closes of the positions.
LEMMA ClosesSpare ==
    ASSUME Types, Types', Grow, SpareInv, [Next]_vars,
           \A o \in OrderIds' : Spared(orders'[o].stale, rules', cycle')
    PROVE  StaleRulesSpare'
<1>1. ASSUME NEW p \in PositionIds, positions'[p].closing = positions[p].closing
      PROVE  positions'[p].closing \notin orders'[positions'[p].order].stale
  BY <1>1 DEF SpareInv, StaleRulesSpare, Grow, PositionsGrow, OrdersGrow, Types, TablesOK
<1>2. CASE /\ PositionIds' = PositionIds
           /\ \A p \in PositionIds : positions'[p].closing = positions[p].closing
  BY <1>1, <1>2 DEF StaleRulesSpare
<1>3. ASSUME NEW o \in OrderIds, Fill(o) PROVE StaleRulesSpare'
  <2>1. /\ Len(positions') = Len(positions) + 1 /\ Len(positions) \in Nat
        /\ \A p \in PositionIds : positions'[p] = positions[p]
        /\ positions'[Len(positions) + 1] = Position(o)
    BY <1>3, FillTables, Lengths DEF Types
  <2>2. \A p \in PositionIds' : p \in PositionIds \/ p = Len(positions) + 1
    BY <2>1 DEF PositionIds
  <2>3. o \in OrderIds' /\ 0 \notin orders'[o].stale
    <3>1. UNCHANGED orders
      BY <1>3 DEF Fill
    <3>2. o \in OrderIds'
      BY <3>1 DEF OrderIds
    <3>3. Spared(orders'[o].stale, rules', cycle') /\ Len(rules') \in Nat
      BY <3>2, LenProperties DEF Types, TablesOK
    <3> QED
      BY <3>2, <3>3 DEF Spared
  <2>4. Position(o).closing = 0 /\ Position(o).order = o
    BY DEF Position
  <2>5. \A p \in PositionIds' : positions'[p].closing \notin orders'[positions'[p].order].stale
    BY <1>1, <2>1, <2>2, <2>3, <2>4
  <2> QED
    BY <2>5 DEF StaleRulesSpare
<1>4. CASE PlaceCloses
  <2>1. /\ PositionIds' = PositionIds
        /\ \A p \in PositionIds : \/ positions'[p].closing = positions[p].closing
                                  \/ positions'[p].closing = cycle.rule
    BY <1>4, PlaceClosesTables
  <2>2. cycle.pc = "place"
    BY <1>4 DEF PlaceCloses
  <2>3. ASSUME NEW p \in PositionIds, positions'[p].closing = cycle.rule
        PROVE  positions'[p].closing \notin orders'[positions'[p].order].stale
    <3>1. positions[p].order \in OrderIds /\ positions'[p].order = positions[p].order
      BY DEF Types, TablesOK, Grow, PositionsGrow
    <3>2. Spared(orders[positions[p].order].stale, rules, cycle)
      BY <3>1 DEF SpareInv
    <3>3. orders'[positions[p].order].stale = orders[positions[p].order].stale
      BY <3>1 DEF Grow, OrdersGrow
    <3> QED
      BY <2>2, <2>3, <3>1, <3>2, <3>3 DEF Spared
  <2> QED
    BY <1>1, <2>1, <2>3 DEF StaleRulesSpare
<1>5. CASE UNCHANGED positions
  BY <1>2, <1>5 DEF PositionIds
<1>6. ASSUME NEW h \in Handlers, Special(h) PROVE UNCHANGED positions
  BY <1>6 DEF Special, CountActive, CountPending, InvalidateRules, CreateUserOrder, PlaceOrder,
              PlaceFails, CreateRule, QueryReverse, Poll, pms
<1> QED
  BY <1>2, <1>3, <1>4, <1>5, <1>6, NextKinds, NotifyTables, FillCloseTables
     DEF Plain, pms, Cycle, CycleEvaluate, ApplyStart, MarkInUse, ResetRules, vars

\* At first nothing is stale.
LEMMA SpareInit == Init => SpareInv
  BY EmptySeq DEF Init, SpareInv, Spared, Idle, StaleRulesSpare, OrderIds, PositionIds

\* Types and the sparing of stale rules hold in every state.
LEMMA SpareInvariant == Spec => [](Types /\ SpareInv)
<1>1. Init => Types /\ SpareInv
  BY TypesInit, SpareInit
<1>2. (Types /\ SpareInv) /\ [Next]_vars => (Types /\ SpareInv)'
  BY TypesStep, RequestsSpare, OrdersSpare, ClosesSpare DEF SpareInv
<1> QED
  BY <1>1, <1>2, PTL DEF Spec

\* StaleRulesSpare: a close rule that was invalidated for an opening order
\* (handler.go:456) never closes the position of that order, however many
\* requests, fills and failures lie between.
THEOREM StaleRulesSpareInvariant == Spec => []StaleRulesSpare
<1>1. Types /\ SpareInv => StaleRulesSpare
  BY DEF SpareInv
<1> QED
  BY <1>1, SpareInvariant, PTL
-----------------------------------------------------------------------------
(* Reversing requests.                                                     *)

\* A position of a row and side.
Of(p, row, side, table, by) ==
    p \in 1 .. Len(table) /\ by[table[p].order].row = row /\ by[table[p].order].side = side

\* What a reversing request has seen is of its row and of the side that it
\* closes, and closed when the request is past its close.
Reversed(h) ==
    posType = "futures" /\ handler[h].action \in Reversing =>
      /\ handler[h].pc \in After =>
           \A p \in handler[h].seen : Of(p, handler[h].row, CloseSide(handler[h].action), positions, orders)
      /\ handler[h].pc \in Past => \A p \in handler[h].seen : ~positions[p].active

ReverseInv == \A h \in Handlers : Reversed(h)

\* A reversing request knows of no other positions than before.
Follows(h) ==
    handler'[h].action \in Reversing /\ handler'[h].pc \in After =>
      /\ handler'[h].action = handler[h].action /\ handler'[h].row = handler[h].row
      /\ handler'[h].seen = handler[h].seen
      /\ handler[h].pc \in After /\ (handler'[h].pc \in Past => handler[h].pc \in Past)

\* Positions stay what they are, and closed ones closed.
LEMMA StayOf ==
    ASSUME Types, Types', Grow
    PROVE  \A p, row, side : Of(p, row, side, positions, orders) =>
             Of(p, row, side, positions', orders') /\ (~positions[p].active => ~positions'[p].active)
<1> SUFFICES ASSUME NEW p, NEW row, NEW side, Of(p, row, side, positions, orders)
             PROVE  Of(p, row, side, positions', orders') /\ (~positions[p].active => ~positions'[p].active)
  OBVIOUS
<1>1. p \in PositionIds /\ p \in PositionIds'
  BY Lengths, LenProperties DEF Types, TablesOK, Grow, PositionsGrow, PositionIds, Of
<1>2. positions[p].order \in OrderIds /\ positions'[p].order = positions[p].order
  BY <1>1 DEF Types, TablesOK, Grow, PositionsGrow
<1>3. orders'[positions'[p].order].row = row /\ orders'[positions'[p].order].side = side
  BY <1>2 DEF Of, Grow, OrdersGrow
<1> QED
  BY <1>1, <1>3 DEF Of, Grow, PositionsGrow, PositionIds

\* A request that follows is still one that has its positions closed.
LEMMA FollowsReversed ==
    ASSUME Types, Types', Grow, UNCHANGED posType, NEW h \in Handlers, Reversed(h), Follows(h)
    PROVE  Reversed(h)'
<1> SUFFICES ASSUME posType = "futures", handler'[h].action \in Reversing, handler'[h].pc \in After
             PROVE  /\ \A p \in handler'[h].seen : Of(p, handler'[h].row, CloseSide(handler'[h].action), positions', orders')
                    /\ handler'[h].pc \in Past => \A p \in handler'[h].seen : ~positions'[p].active
  BY DEF Reversed, After, Past
<1>1. /\ handler'[h].action = handler[h].action /\ handler'[h].row = handler[h].row
      /\ handler'[h].seen = handler[h].seen
      /\ handler[h].pc \in After /\ (handler'[h].pc \in Past => handler[h].pc \in Past)
  BY DEF Follows
<1>2. \A p \in handler[h].seen : Of(p, handler[h].row, CloseSide(handler[h].action), positions, orders)
  BY <1>1 DEF Reversed
<1>3. handler'[h].pc \in Past => \A p \in handler[h].seen : ~positions[p].active
  BY <1>1 DEF Reversed
<1>4. PICK row, side : row = handler[h].row /\ side = CloseSide(handler[h].action)
  OBVIOUS
<1>5. CloseSide(handler'[h].action) = side /\ handler'[h].row = row
  BY <1>1, <1>4 DEF CloseSide
<1>6. ASSUME NEW p \in handler[h].seen
      PROVE  Of(p, row, side, positions', orders') /\ (~positions[p].active => ~positions'[p].active)
  BY <1>2, <1>4, StayOf
<1>7. \A p \in handler'[h].seen : Of(p, handler'[h].row, CloseSide(handler'[h].action), positions', orders')
  BY <1>1, <1>5, <1>6 DEF Of
<1> QED
  BY <1>1, <1>3, <1>6, <1>7

\* One request becomes another.
LEMMA BecomesReversed ==
    ASSUME Types, Types', Grow, ReverseInv, UNCHANGED posType, NEW h \in Handlers,
           \A g \in Handlers \ {h} : handler'[g] = handler[g],
           Reversed(h)'
    PROVE  ReverseInv'
<1>1. \A g \in Handlers \ {h} : Follows(g)
  BY DEF Follows
<1>2. \A g \in Handlers \ {h} : Reversed(g)'
  BY <1>1, FollowsReversed DEF ReverseInv
<1> QED
  BY <1>2 DEF ReverseInv

\* A request looks for what it has to close.
LEMMA QueryReversed ==
    ASSUME Types, Types', NEW h \in Handlers, QueryReverse(h)
    PROVE  Reversed(h)'
<1>1. UNCHANGED <<posType, pms>>
  BY QueryReverseStep
<1>2. /\ handler'[h].pc = IF Found(h) = {} THEN "count" ELSE "close"
      /\ handler'[h].action = handler[h].action /\ handler'[h].row = handler[h].row
      /\ handler'[h].seen = {p \in ActiveOf(handler[h].row) :
                                SideOf(p) = CloseSide(handler[h].action)}
  BY QueryReverseStep DEF Becomes
<1>3. \A p \in handler'[h].seen : Of(p, handler[h].row, CloseSide(handler[h].action), positions, orders)
  BY <1>2 DEF Of, ActiveOf, RowOf, SideOf, PositionIds
<1>4. \A p \in handler'[h].seen : Of(p, handler'[h].row, CloseSide(handler'[h].action), positions', orders')
  BY <1>1, <1>2, <1>3 DEF Of, CloseSide, pms
<1>5. posType = "futures" => Found(h) = handler'[h].seen
  BY <1>2 DEF Found, Queried
<1>6. posType' = "futures" /\ handler'[h].pc \in Past => handler'[h].seen = {}
  BY <1>1, <1>2, <1>5 DEF Past
<1> QED
  BY <1>4, <1>6 DEF Reversed

\* A poll that finds nothing.
LEMMA PollReversed ==
    ASSUME Types, Types', Grow, NEW h \in Handlers, Reversed(h), UNCHANGED <<posType, pms>>,
           At(h, "wait"), Found(h) = {},
           NEW x, Becomes(h, x), x.pc = "count", Same(x, handler[h])
    PROVE  Reversed(h)'
<1> SUFFICES ASSUME posType = "futures", handler[h].action \in Reversing
             PROVE  Reversed(h)'
  BY DEF Reversed, Becomes, Same
<1>1. \A p \in handler[h].seen : Of(p, handler[h].row, CloseSide(handler[h].action), positions, orders)
  BY DEF Reversed, At, After
<1>2. \A p \in handler[h].seen : ~positions[p].active
  BY <1>1 DEF Of, Found, Queried, ActiveOf, RowOf, SideOf, PositionIds
<1>3. /\ handler'[h].action = handler[h].action /\ handler'[h].row = handler[h].row
      /\ handler'[h].seen = handler[h].seen
  BY DEF Becomes, Same
<1>4. \A p \in handler'[h].seen : Of(p, handler'[h].row, CloseSide(handler'[h].action), positions', orders')
  BY <1>1, <1>3 DEF Of, CloseSide, pms
<1> QED
  BY <1>2, <1>3, <1>4 DEF Reversed, pms

\* Every step keeps what reversing requests know.
LEMMA ReverseStep ==
    ASSUME Types, Types', Grow, ReverseInv, [Next]_vars
    PROVE  ReverseInv'
<1>1. ASSUME UNCHANGED posType, \A g \in Handlers : Follows(g) PROVE ReverseInv'
  BY <1>1, FollowsReversed DEF ReverseInv
<1>2. CASE UNCHANGED <<posType, handler>>
  BY <1>1, <1>2 DEF Follows
<1>3. ASSUME UNCHANGED posType, NEW h \in Handlers, Follows(h),
             \A g \in Handlers \ {h} : handler'[g] = handler[g]
      PROVE  ReverseInv'
  BY <1>1, <1>3 DEF Follows
<1>4. ASSUME UNCHANGED posType, NEW h \in Handlers, Ordinary(h) PROVE ReverseInv'
  <2>1. Follows(h) /\ \A g \in Handlers \ {h} : handler'[g] = handler[g]
    BY <1>4 DEF Ordinary, Follows, Becomes, Same
  <2> QED
    BY <1>3, <1>4, <2>1
<1>5. ASSUME NEW h \in Handlers, Plain(h) PROVE ReverseInv'
  BY <1>4, <1>5 DEF Plain
<1>6. ASSUME NEW h \in Handlers, Special(h) PROVE ReverseInv'
  <2>1. CASE CountActive(h)
    <3>1. UNCHANGED posType /\ Follows(h) /\ \A g \in Handlers \ {h} : handler'[g] = handler[g]
      BY <2>1, CountActiveStep DEF Becomes, Follows, At, After, Past
    <3> QED
      BY <1>3, <3>1
  <2>2. CASE CountPending(h)
    <3>1. UNCHANGED posType
      BY <2>2, CountPendingStep
    <3>2. CASE \E x : Becomes(h, x) /\ x.pc = "invalidate" /\ Same(x, handler[h])
      <4>1. Follows(h) /\ \A g \in Handlers \ {h} : handler'[g] = handler[g]
        BY <2>2, <3>2, CountPendingStep DEF Becomes, Follows, Same, At, After, Past
      <4> QED
        BY <1>3, <3>1, <4>1
    <3> QED
      BY <1>4, <2>2, <3>1, <3>2, CountPendingStep
  <2>3. CASE InvalidateRules(h)
    <3>1. UNCHANGED posType /\ Follows(h) /\ \A g \in Handlers \ {h} : handler'[g] = handler[g]
      BY <2>3, InvalidateStep DEF InvalidateRules, Becomes, Follows, At, After, Past
    <3> QED
      BY <1>3, <3>1
  <2>4. CASE CreateUserOrder(h)
    <3>1. UNCHANGED posType
      BY <2>4 DEF CreateUserOrder
    <3>2. /\ At(h, "order") /\ Others(h) /\ handler'[h].pc = "place"
          /\ handler'[h].action = handler[h].action /\ handler'[h].row = handler[h].row
          /\ handler'[h].seen = handler[h].seen
      BY <2>4, CreateOrderStep
    <3>3. \A g \in Handlers : Follows(g)
      BY <3>2 DEF Others, Follows, At, After, Past
    <3> QED
      BY <1>1, <3>1, <3>3
  <2>5. CASE PlaceOrder(h) \/ PlaceFails(h)
    <3>1. Ordinary(h) /\ UNCHANGED posType
      BY <2>5, AnswerOrdinary DEF PlaceOrder, PlaceFails
    <3> QED
      BY <1>4, <3>1
  <2>6. CASE CreateRule(h)
    <3>1. Ordinary(h) /\ UNCHANGED posType
      BY <2>6, CreateRuleOrdinary DEF CreateRule
    <3> QED
      BY <1>4, <3>1
  <2>7. CASE QueryReverse(h)
    <3>1. UNCHANGED posType /\ \A g \in Handlers \ {h} : handler'[g] = handler[g]
      BY <2>7, QueryReverseStep DEF Becomes
    <3>2. Reversed(h)'
      BY <2>7, QueryReversed
    <3> QED
      BY <3>1, <3>2, BecomesReversed
  <2>8. CASE Poll(h)
    <3>1. UNCHANGED <<posType, registry, pms>>
      BY <2>8, PollStep
    <3>2. CASE Ordinary(h)
      BY <1>4, <3>1, <3>2
    <3>3. ASSUME At(h, "wait"), Found(h) = {}, NEW x, Becomes(h, x), x.pc = "count", Same(x, handler[h])
          PROVE  ReverseInv'
      <4>1. UNCHANGED <<posType, pms>> /\ Reversed(h)
        BY <3>1 DEF ReverseInv
      <4>2. Reversed(h)'
        BY <3>3, <4>1, PollReversed
      <4>3. \A g \in Handlers \ {h} : handler'[g] = handler[g]
        BY <3>3 DEF Becomes
      <4> QED
        BY <4>1, <4>2, <4>3, BecomesReversed
    <3> QED
      BY <2>8, <3>2, <3>3, PollStep
  <2> QED
    BY <1>6, <2>1, <2>2, <2>3, <2>4, <2>5, <2>6, <2>7, <2>8 DEF Special
<1>7. ASSUME NEW p \in PositionIds, NotifyFilled(p) PROVE ReverseInv'
  <2>1. PICK row : row = RowOf(p)
    OBVIOUS
  <2>2. /\ handler' = Disturb(handler, row, {"pending"}) /\ UNCHANGED posType
        /\ handler \in [Handlers -> HandlerRecord]
    BY <1>7, <2>1 DEF NotifyFilled, Types, RequestsOK
  <2>3. \A g \in Handlers : Follows(g)
    BY <2>2, DisturbFacts DEF Follows
  <2> QED
    BY <1>1, <2>2, <2>3
<1> QED
  BY <1>2, <1>5, <1>6, <1>7, NextKinds
     DEF Fill, LoseNotification, FillClose, Cycle, CycleEvaluate, ApplyStart, PlaceCloses,
         MarkInUse, ResetRules, vars

\* At first no request has seen a position.
LEMMA ReverseInit == Init => ReverseInv
  BY DEF Init, ReverseInv, Reversed, Idle, After, Past

\* ReverseClosesFirst: when a reversing signal places its order, every position
\* that it found on the other side is closed (handler.go:713), however many
\* other signals open and close meanwhile.
THEOREM ReverseClosesFirstProperty == Spec => ReverseClosesFirst
<1>1. Init => Types /\ ReverseInv
  BY TypesInit, ReverseInit
<1>2. (Types /\ ReverseInv) /\ [Next]_vars => (Types /\ ReverseInv)'
  BY TypesStep, ReverseStep
<1>3. Types /\ ReverseInv =>
        (posType = "futures" => \A h \in Handlers :
           /\ At(h, "place") /\ orders'[handler[h].order].watched
           /\ handler[h].action \in Reversing
           => \A p \in handler[h].seen : ~positions[p].active)
  BY DEF ReverseInv, Reversed, At, Past
<1> QED
  BY <1>1, <1>2, <1>3, PTL DEF Spec, ReverseClosesFirst
-----------------------------------------------------------------------------
(* Orders between their creation and their position.                       *)

\* An order that is placed is pending, unwatched, and nobody else's; one that
\* is watched keeps pending until it has a position, which no other has.
PlacedInv ==
    /\ \A h \in Handlers : At(h, "place") =>
         /\ ~orders[handler[h].order].watched /\ orders[handler[h].order].status = "new"
         /\ \A g \in Handlers : At(g, "place") /\ handler[g].order = handler[h].order => g = h
    /\ \A p \in PositionIds : orders[positions[p].order].watched
    /\ \A o \in OrderIds : orders[o].watched /\ orders[o].status # "new" =>
         \E p \in PositionIds : positions[p].order = o

\* No request comes to place an order.
NoneNew == \A g \in Handlers : handler'[g].pc = "place" =>
               handler[g].pc = "place" /\ handler'[g].order = handler[g].order

\* Steps after which nothing is placed, or watched, that was not.
LEMMA KeepPlaced ==
    ASSUME Types, Types', Grow, PlacedInv, NoneNew, OrderIds' = OrderIds,
           \A h \in Handlers : handler'[h].pc = "place" =>
             orders'[handler[h].order] = orders[handler[h].order],
           \A p \in PositionIds' : orders'[positions'[p].order].watched,
           \A o \in OrderIds : orders'[o].watched /\ orders'[o].status # "new" =>
             \/ orders[o].watched /\ orders[o].status # "new"
             \/ \E p \in PositionIds : positions[p].order = o
    PROVE  PlacedInv'
<1>1. \A h \in Handlers : handler'[h].pc = "place" =>
         /\ ~orders'[handler'[h].order].watched /\ orders'[handler'[h].order].status = "new"
         /\ \A g \in Handlers : handler'[g].pc = "place" /\ handler'[g].order = handler'[h].order => g = h
  BY DEF PlacedInv, NoneNew, At
<1>2. PositionIds \subseteq PositionIds' /\ \A p \in PositionIds : positions'[p].order = positions[p].order
  BY Lengths, LenProperties DEF Types, TablesOK, Grow, PositionsGrow, PositionIds
<1>3. \A o \in OrderIds' : orders'[o].watched /\ orders'[o].status # "new" =>
         \E p \in PositionIds' : positions'[p].order = o
  BY <1>2 DEF PlacedInv
<1> QED
  BY <1>1, <1>3 DEF PlacedInv, At

\* Steps that leave the orders alone and open no position.
LEMMA SamePlaced ==
    ASSUME Types, Types', Grow, PlacedInv, NoneNew, UNCHANGED orders, PositionIds' = PositionIds
    PROVE  PlacedInv'
<1>1. OrderIds' = OrderIds
  BY DEF OrderIds
<1>2. \A h \in Handlers : orders'[handler[h].order] = orders[handler[h].order]
  OBVIOUS
<1>3. \A p \in PositionIds' : orders'[positions'[p].order].watched
  BY DEF PlacedInv, Grow, PositionsGrow
<1> QED
  BY <1>1, <1>2, <1>3, KeepPlaced

\* A request that becomes another places nothing.
LEMMA BecomesNone ==
    ASSUME NEW h \in Handlers, \E x : Becomes(h, x) /\ \A n : Request(x, n)
    PROVE  NoneNew /\ handler'[h].pc # "place"
<1>1. PICK x : Becomes(h, x) /\ \A n : Request(x, n)
  OBVIOUS
<1>2. Request(x, 0)
  BY <1>1
<1>3. x.pc # "place"
  BY <1>2 DEF Request
<1> QED
  BY <1>1, <1>3 DEF NoneNew, Becomes

\* An ordinary step places nothing.
LEMMA OrdinaryNone ==
    ASSUME NEW h \in Handlers, Ordinary(h)
    PROVE  NoneNew /\ handler'[h].pc # "place"
  BY BecomesNone DEF Ordinary

\* A new order is its request's alone.
LEMMA CreateOrderPlaced ==
    ASSUME Types, Types', Grow, PlacedInv, NEW h \in Handlers, CreateUserOrder(h)
    PROVE  PlacedInv'
<1>1. /\ Len(orders) \in Nat /\ Len(orders') = Len(orders) + 1
      /\ orders'[Len(orders) + 1] = Order(handler[h].row, OpenSide(handler[h].action),
                                          handler[h].stale, handler[h].calm)
      /\ UNCHANGED positions /\ orders' = Append(orders, orders'[Len(orders) + 1])
      /\ \A o \in OrderIds : orders[o] \in OrderRecord
  BY CreateOrderTables, Lengths DEF Types, CreateUserOrder
<1>2. ~orders'[Len(orders) + 1].watched /\ orders'[Len(orders) + 1].status = "new"
  BY <1>1 DEF Order
<1>3. \A o \in OrderIds : orders'[o] = orders[o]
  <2>1. orders \in Seq(OrderRecord)
    BY DEF Types, TablesOK
  <2>2. Order(handler[h].row, OpenSide(handler[h].action), handler[h].stale, handler[h].calm) \in OrderRecord
    <3>1. orders' \in Seq(OrderRecord) /\ Len(orders) + 1 \in 1 .. Len(orders')
      BY <1>1 DEF Types, TablesOK
    <3> QED
      BY <1>1, <3>1, ElementOfSeq
  <2> QED
    BY <1>1, <2>1, <2>2, AppendProperties DEF OrderIds
<1>4. \A o \in OrderIds' : o \in OrderIds \/ o = Len(orders) + 1
  BY <1>1 DEF OrderIds
<1>5. /\ Others(h) /\ handler'[h].order = Len(orders) + 1
      /\ \A g \in Handlers : handler[g].pc = "place" => handler[g].order \in OrderIds
  BY <1>1, CreateOrderStep, RequestFacts DEF Request, OrderIds
<1>6. \A g \in Handlers : g # h => /\ handler'[g].pc = handler[g].pc
                                   /\ handler'[g].order = handler[g].order
  BY <1>5 DEF Others
<1>7. Len(orders) + 1 \notin OrderIds
  BY <1>1 DEF OrderIds
<1>8. ASSUME NEW g \in Handlers, handler'[g].pc = "place"
      PROVE  /\ ~orders'[handler'[g].order].watched /\ orders'[handler'[g].order].status = "new"
             /\ \A i \in Handlers : handler'[i].pc = "place" /\ handler'[i].order = handler'[g].order => i = g
  <2>1. CASE g = h
    BY <1>2, <1>5, <1>6, <1>7, <1>8, <2>1
  <2>2. CASE g # h
    <3>1. handler[g].pc = "place" /\ handler'[g].order = handler[g].order /\ handler[g].order \in OrderIds
      BY <1>5, <1>6, <1>8, <2>2
    <3>2. ~orders[handler[g].order].watched /\ orders[handler[g].order].status = "new"
      BY <3>1 DEF PlacedInv, At
    <3>3. \A i \in Handlers : handler'[i].pc = "place" /\ handler'[i].order = handler'[g].order => i = g
      BY <1>5, <1>6, <1>7, <2>2, <3>1 DEF PlacedInv, At
    <3> QED
      BY <1>3, <3>1, <3>2, <3>3
  <2> QED
    BY <2>1, <2>2
<1>9. PositionIds' = PositionIds /\ \A p \in PositionIds : orders'[positions[p].order].watched
  BY <1>1, <1>3 DEF PlacedInv, Types, TablesOK, PositionIds
<1>10. \A o \in OrderIds' : orders'[o].watched /\ orders'[o].status # "new" =>
         \E p \in PositionIds : positions[p].order = o
  BY <1>2, <1>3, <1>4 DEF PlacedInv
<1> QED
  BY <1>1, <1>8, <1>9, <1>10 DEF PlacedInv, At

\* An order is placed, or refused.
LEMMA PlaceOrderPlaced ==
    ASSUME Types, Types', Grow, PlacedInv, NEW h \in Handlers, PlaceOrder(h) \/ PlaceFails(h)
    PROVE  PlacedInv'
<1>1. At(h, "place") /\ UNCHANGED positions /\ Ordinary(h)
  BY AnswerOrdinary DEF PlaceOrder, PlaceFails
<1>2. NoneNew /\ handler'[h].pc # "place"
  BY <1>1, OrdinaryNone
<1>3. /\ OrderIds' = OrderIds /\ handler[h].order \in OrderIds
      /\ \A o \in OrderIds : o # handler[h].order => orders'[o] = orders[o]
      /\ \/ orders'[handler[h].order].status = orders[handler[h].order].status
         \/ orders'[handler[h].order].watched = orders[handler[h].order].watched
  BY PlaceTables
<1>4. ~orders[handler[h].order].watched /\ orders[handler[h].order].status = "new"
  BY <1>1 DEF PlacedInv
<1>5. ASSUME NEW g \in Handlers, handler'[g].pc = "place"
      PROVE  orders'[handler[g].order] = orders[handler[g].order]
  <2>1. g # h /\ handler[g].pc = "place"
    BY <1>2, <1>5 DEF NoneNew
  <2>2. handler[g].order # handler[h].order /\ handler[g].order \in OrderIds
    BY <1>1, <2>1, RequestFacts DEF PlacedInv, At, Request, OrderIds
  <2> QED
    BY <1>3, <2>2
<1>6. PositionIds' = PositionIds /\ \A p \in PositionIds : orders'[positions'[p].order].watched
  BY <1>1 DEF PlacedInv, PositionIds, Types, TablesOK, Grow, OrdersGrow
<1>7. \A o \in OrderIds : orders'[o].watched /\ orders'[o].status # "new" =>
        orders[o].watched /\ orders[o].status # "new"
  BY <1>3, <1>4
<1> QED
  BY <1>2, <1>3, <1>5, <1>6, <1>7, KeepPlaced

\* A position is opened, for a watched order.
LEMMA FillPlaced ==
    ASSUME Types, Types', Grow, PlacedInv, NEW o \in OrderIds, Fill(o)
    PROVE  PlacedInv'
<1>1. UNCHANGED <<orders, handler>> /\ orders[o].watched
  BY DEF Fill
<1>2. NoneNew /\ OrderIds' = OrderIds
  BY <1>1 DEF NoneNew, OrderIds
<1>3. /\ Len(positions') = Len(positions) + 1 /\ Len(positions) \in Nat
      /\ \A p \in PositionIds : positions'[p] = positions[p]
      /\ positions'[Len(positions) + 1] = Position(o)
  BY FillTables, Lengths DEF Types
<1>4. \A p \in PositionIds' : p \in PositionIds \/ p = Len(positions) + 1
  BY <1>3 DEF PositionIds
<1>5. Position(o).order = o
  BY DEF Position
<1>6. \A p \in PositionIds' : orders'[positions'[p].order].watched
  BY <1>1, <1>3, <1>4, <1>5 DEF PlacedInv
<1>7. \A h \in Handlers : orders'[handler[h].order] = orders[handler[h].order]
  BY <1>1
<1> QED
  BY <1>1, <1>2, <1>6, <1>7, KeepPlaced

\* A fill is reported, of an order with a position.
LEMMA NotifyPlaced ==
    ASSUME Types, Types', Grow, PlacedInv, NEW p \in PositionIds, NotifyFilled(p)
    PROVE  PlacedInv'
<1>1. PICK row : row = RowOf(p)
  OBVIOUS
<1>2. handler' = Disturb(handler, row, {"pending"}) /\ handler \in [Handlers -> HandlerRecord]
  BY <1>1 DEF NotifyFilled, Types, RequestsOK
<1>3. NoneNew
  BY <1>2, DisturbFacts DEF NoneNew
<1>4. /\ OrderIds' = OrderIds /\ PositionIds' = PositionIds
      /\ \A o \in OrderIds : o # positions[p].order => orders'[o] = orders[o]
      /\ \A o \in OrderIds : orders'[o].watched = orders[o].watched
  BY NotifyTables
<1>5. ASSUME NEW h \in Handlers, handler'[h].pc = "place"
      PROVE  orders'[handler[h].order] = orders[handler[h].order]
  <2>1. handler[h].pc = "place"
    BY <1>3, <1>5 DEF NoneNew
  <2>2. handler[h].order \in OrderIds /\ handler[h].order # positions[p].order
    BY <2>1, RequestFacts DEF PlacedInv, At, Request, OrderIds
  <2> QED
    BY <1>4, <2>2
<1>6. \A j \in PositionIds' : orders'[positions'[j].order].watched
  BY <1>4 DEF PlacedInv, Types, TablesOK, Grow, PositionsGrow
<1>7. \A o \in OrderIds : orders'[o].watched /\ orders'[o].status # "new" =>
        \/ orders[o].watched /\ orders[o].status # "new"
        \/ \E j \in PositionIds : positions[j].order = o
  BY <1>4
<1> QED
  BY <1>3, <1>4, <1>5, <1>6, <1>7, KeepPlaced

\* Every step keeps PlacedInv.
LEMMA PlacedStep ==
    ASSUME Types, Types', Grow, PlacedInv, [Next]_vars
    PROVE  PlacedInv'
<1>1. ASSUME NoneNew, UNCHANGED <<orders, positions>> PROVE PlacedInv'
  BY <1>1, SamePlaced DEF PositionIds
<1>3. ASSUME NEW h \in Handlers, Plain(h) PROVE PlacedInv'
  BY <1>1, <1>3, OrdinaryNone DEF Plain, pms
<1>4. ASSUME NEW h \in Handlers, Special(h) PROVE PlacedInv'
  <2>1. CASE CountActive(h)
    BY <1>1, <2>1, CountActiveStep, BecomesNone DEF pms
  <2>2. CASE CountPending(h)
    BY <1>1, <2>2, CountPendingStep, BecomesNone, OrdinaryNone DEF pms
  <2>3. CASE InvalidateRules(h)
    BY <1>1, <2>3, InvalidateStep, BecomesNone DEF InvalidateRules
  <2>4. CASE CreateUserOrder(h)
    BY <2>4, CreateOrderPlaced
  <2>5. CASE PlaceOrder(h) \/ PlaceFails(h)
    BY <2>5, PlaceOrderPlaced
  <2>6. CASE CreateRule(h)
    BY <1>1, <2>6, CreateRuleOrdinary, OrdinaryNone DEF CreateRule
  <2>7. CASE QueryReverse(h)
    BY <1>1, <2>7, QueryReverseStep, BecomesNone DEF pms
  <2>8. CASE Poll(h)
    BY <1>1, <2>8, PollStep, BecomesNone, OrdinaryNone DEF pms
  <2> QED
    BY <1>4, <2>1, <2>2, <2>3, <2>4, <2>5, <2>6, <2>7, <2>8 DEF Special
<1>5. ASSUME UNCHANGED <<orders, handler>>, PositionIds' = PositionIds PROVE PlacedInv'
  BY <1>5, SamePlaced DEF NoneNew
<1>6. ASSUME NEW p \in PositionIds, LoseNotification(p) \/ FillClose(p) PROVE PlacedInv'
  BY <1>5, <1>6, NotifyTables, FillCloseTables DEF LoseNotification, FillClose
<1>7. CASE Cycle
  <2>1. UNCHANGED <<orders, handler>> /\ PositionIds' = PositionIds
    BY <1>7, PlaceClosesTables
       DEF Cycle, CycleEvaluate, ApplyStart, PlaceCloses, MarkInUse, PositionIds
  <2> QED
    BY <1>5, <2>1
<1>8. ASSUME UNCHANGED <<orders, positions, handler>> PROVE PlacedInv'
  BY <1>5, <1>8 DEF PositionIds
<1> QED
  BY <1>3, <1>4, <1>6, <1>7, <1>8, NextKinds, FillPlaced, NotifyPlaced DEF ResetRules, vars

\* At first there is no order.
LEMMA PlacedInit == Init => PlacedInv
  BY DEF Init, PlacedInv, Idle, At, OrderIds, PositionIds
-----------------------------------------------------------------------------
(* The parts limit.                                                        *)

\* An order with an active position; those of a row that count for its limit,
\* those that only count for their position, and those that respect the limit.
HeldIn(o, P) == \E p \in 1 .. Len(P) : P[p].active /\ P[p].order = o
LiveIn(row, O, P) ==
    {o \in 1 .. Len(O) : O[o].row = row /\ (O[o].status = "new" \/ HeldIn(o, P))}
SettledIn(row, O, P) ==
    {o \in 1 .. Len(O) : O[o].row = row /\ O[o].status # "new" /\ HeldIn(o, P)}
CalmIn(row, O, P) == {o \in LiveIn(row, O, P) : O[o].calm}

\* What an undisturbed request has counted still bounds what there is.
Counting(x, O, P) ==
    x.calm => /\ x.pc = "pending" => Cardinality(SettledIn(x.row, O, P)) <= x.active
              /\ x.pc \in Counted => Cardinality(LiveIn(x.row, O, P)) < Parts

PartsInv ==
    /\ \A row : Cardinality(CalmIn(row, orders, positions)) <= Parts
    /\ \A h \in Handlers : Counting(handler[h], orders, positions)

\* The sets are finite, and grow in number with their elements.
LEMMA FiniteIn ==
    ASSUME NEW row, NEW O, NEW P, Len(O) \in Nat
    PROVE  \A S \in {LiveIn(row, O, P), SettledIn(row, O, P), CalmIn(row, O, P)} :
             IsFiniteSet(S) /\ Cardinality(S) \in Nat
<1>1. IsFiniteSet(1 .. Len(O))
  BY FS_Interval
<1>2. \A S \in SUBSET (1 .. Len(O)) : IsFiniteSet(S) /\ Cardinality(S) \in Nat
  BY <1>1, FS_Subset, FS_CardinalityType
<1> QED
  BY <1>2 DEF LiveIn, SettledIn, CalmIn

\* A subset of a finite set is no larger.
LEMMA FewerIn ==
    ASSUME NEW S, NEW T, IsFiniteSet(T), S \subseteq T
    PROVE  Cardinality(S) <= Cardinality(T) /\ Cardinality(S) \in Nat /\ Cardinality(T) \in Nat
  BY FS_Subset, FS_CardinalityType

\* The orders that count, as the property has them.
LEMMA LiveIs ==
    ASSUME Types, NEW row
    PROVE  Live(row) = LiveIn(row, orders, positions)
<1>1. \A p \in PositionIds : positions[p].order \in OrderIds
  BY DEF Types, TablesOK
<1> QED
  BY <1>1 DEF Live, LiveIn, HeldIn, PendingOf, ActiveOf, RowOf, OrderIds, PositionIds

\* The PMS's count of positions bounds the orders that only count for theirs.
LEMMA SettledBound ==
    ASSUME Types, NEW row
    PROVE  Cardinality(SettledIn(row, orders, positions)) <= Cardinality(ActiveOf(row))
<1> DEFINE T == {positions[p].order : p \in ActiveOf(row)}
           f == [p \in ActiveOf(row) |-> positions[p].order]
<1>1. IsFiniteSet(ActiveOf(row)) /\ Cardinality(ActiveOf(row)) \in Nat
  BY ActiveFinite DEF Types
<1>2. f \in Surjection(ActiveOf(row), T)
  BY DEF Surjection
<1>3. IsFiniteSet(T) /\ Cardinality(T) <= Cardinality(ActiveOf(row))
  BY <1>1, <1>2, FS_Surjection
<1>4. SettledIn(row, orders, positions) \subseteq T
  BY DEF SettledIn, HeldIn, ActiveOf, RowOf, PositionIds
<1> HIDE DEF T
<1> QED
  BY <1>1, <1>3, <1>4, FewerIn

\* No pending order of the row is settled with a position.
NoneSettles(row) ==
    \A o \in OrderIds : orders[o].row = row /\ orders[o].status = "new" /\ orders'[o].status # "new"
                        => ~HeldIn(o, positions')

\* Positions are opened for pending orders only.
NoneOpens == \A o \in OrderIds : HeldIn(o, positions') => HeldIn(o, positions) \/ orders[o].status = "new"

\* A request knows no other counts than before.
Recounts(g) ==
    handler'[g].calm /\ handler'[g].pc \in {"pending"} \cup Counted =>
      /\ handler[g].calm /\ handler'[g].row = handler[g].row
      /\ handler'[g].pc \in Counted => handler[g].pc \in Counted
      /\ handler'[g].pc = "pending" =>
           handler[g].pc = "pending" /\ handler'[g].active = handler[g].active /\ NoneSettles(handler[g].row)

\* Without a new order, fewer orders count.
LEMMA Shrink ==
    ASSUME Types, Types', Grow, OrderIds' = OrderIds, NoneOpens, NEW row
    PROVE  /\ LiveIn(row, orders', positions') \subseteq LiveIn(row, orders, positions)
           /\ CalmIn(row, orders', positions') \subseteq CalmIn(row, orders, positions)
           /\ NoneSettles(row) =>
                SettledIn(row, orders', positions') \subseteq SettledIn(row, orders, positions)
<1>1. 1 .. Len(orders') = 1 .. Len(orders) /\ OrderIds = 1 .. Len(orders)
  BY DEF OrderIds
<1>2. \A o \in 1 .. Len(orders) : /\ orders'[o].row = orders[o].row /\ orders'[o].calm = orders[o].calm
                                  /\ orders[o].status # "new" => orders'[o].status # "new"
  BY <1>1 DEF Grow, OrdersGrow
<1>3. \A o \in 1 .. Len(orders) : HeldIn(o, positions') => HeldIn(o, positions) \/ orders[o].status = "new"
  BY <1>1 DEF NoneOpens
<1>4. LiveIn(row, orders', positions') \subseteq LiveIn(row, orders, positions)
  BY <1>1, <1>2, <1>3 DEF LiveIn
<1>5. CalmIn(row, orders', positions') \subseteq CalmIn(row, orders, positions)
  BY <1>1, <1>2, <1>4 DEF CalmIn, LiveIn
<1>6. NoneSettles(row) => SettledIn(row, orders', positions') \subseteq SettledIn(row, orders, positions)
  BY <1>1, <1>2, <1>3 DEF SettledIn, NoneSettles
<1> QED
  BY <1>4, <1>5, <1>6

\* Steps without a new order keep the limit and the counts.
LEMMA KeepParts ==
    ASSUME Types, Types', Grow, PartsInv, OrderIds' = OrderIds, NoneOpens,
           \A g \in Handlers : Recounts(g) \/ Counting(handler'[g], orders', positions')
    PROVE  PartsInv'
<1>1. Len(orders) \in Nat /\ Parts \in Nat
  BY Lengths, BoundsAssumption DEF Types
<1>2. ASSUME NEW row
      PROVE  Cardinality(CalmIn(row, orders', positions')) <= Parts
  <2>1. IsFiniteSet(CalmIn(row, orders, positions)) /\ Cardinality(CalmIn(row, orders, positions)) <= Parts
    BY <1>1, FiniteIn DEF PartsInv
  <2> QED
    BY <1>1, <2>1, Shrink, FewerIn
<1>3. ASSUME NEW g \in Handlers, Recounts(g)
      PROVE  Counting(handler'[g], orders', positions')
  <2> SUFFICES ASSUME handler'[g].calm, handler'[g].pc \in {"pending"} \cup Counted
               PROVE  Counting(handler'[g], orders', positions')
    BY DEF Counting
  <2>1. PICK row : row = handler[g].row
    OBVIOUS
  <2>2. handler[g].calm /\ handler'[g].row = row /\ Counting(handler[g], orders, positions)
    BY <1>3, <2>1 DEF Recounts, PartsInv
  <2>3. /\ IsFiniteSet(LiveIn(row, orders, positions))
        /\ IsFiniteSet(SettledIn(row, orders, positions))
    BY <1>1, FiniteIn
  <2>4. CASE handler'[g].pc = "pending"
    <3>1. handler[g].pc = "pending" /\ handler'[g].active = handler[g].active /\ NoneSettles(row)
      BY <1>3, <2>1, <2>4 DEF Recounts
    <3>2. Cardinality(SettledIn(row, orders, positions)) <= handler[g].active
      BY <2>1, <2>2, <3>1 DEF Counting
    <3>3. SettledIn(row, orders', positions') \subseteq SettledIn(row, orders, positions)
      BY <3>1, Shrink
    <3>4. /\ Cardinality(SettledIn(row, orders', positions')) <= Cardinality(SettledIn(row, orders, positions))
          /\ Cardinality(SettledIn(row, orders', positions')) \in Nat
          /\ Cardinality(SettledIn(row, orders, positions)) \in Nat
      BY <2>3, <3>3, FewerIn
    <3>5. handler[g].active \in Nat
      BY RequestFacts DEF HandlerRecord
    <3>6. Cardinality(SettledIn(row, orders', positions')) <= handler'[g].active
      BY <3>1, <3>2, <3>4, <3>5
    <3> QED
      BY <2>2, <2>4, <3>6 DEF Counting, Counted
  <2>5. CASE handler'[g].pc \in Counted
    <3>1. handler[g].pc \in Counted
      BY <1>3, <2>5 DEF Recounts
    <3>2. Cardinality(LiveIn(row, orders, positions)) < Parts
      BY <2>1, <2>2, <3>1 DEF Counting
    <3>3. /\ Cardinality(LiveIn(row, orders', positions')) <= Cardinality(LiveIn(row, orders, positions))
          /\ Cardinality(LiveIn(row, orders', positions')) \in Nat
          /\ Cardinality(LiveIn(row, orders, positions)) \in Nat
      BY <2>3, Shrink, FewerIn
    <3>4. Cardinality(LiveIn(row, orders', positions')) < Parts
      BY <1>1, <3>2, <3>3
    <3> QED
      BY <2>2, <2>5, <3>4 DEF Counting, Counted
  <2> QED
    BY <2>4, <2>5
<1> QED
  BY <1>2, <1>3 DEF PartsInv

\* Steps that leave the orders and positions alone.
LEMMA SameParts ==
    ASSUME Types, Types', Grow, PartsInv, UNCHANGED <<orders, positions>>,
           NEW h \in Handlers, \A g \in Handlers \ {h} : handler'[g] = handler[g],
           Recounts(h) \/ Counting(handler'[h], orders, positions)
    PROVE  PartsInv'
<1>1. OrderIds' = OrderIds /\ NoneOpens
  BY DEF OrderIds, NoneOpens
<1>2. \A row : NoneSettles(row)
  BY DEF NoneSettles
<1>3. \A g \in Handlers \ {h} : Recounts(g)
  BY <1>2 DEF Recounts
<1>4. \A g \in Handlers : Recounts(g) \/ Counting(handler'[g], orders', positions')
  BY <1>3
<1> QED
  BY <1>1, <1>4, KeepParts

\* An ordinary step counts nothing.
LEMMA OrdinaryParts ==
    ASSUME NEW h \in Handlers, Ordinary(h)
    PROVE  Recounts(h) /\ \A g \in Handlers \ {h} : handler'[g] = handler[g]
  BY DEF Ordinary, Recounts, Becomes, Same, Counted

\* A request takes the count of the PMS ...
LEMMA CountActiveParts ==
    ASSUME Types, Types', Grow, PartsInv, NEW h \in Handlers, CountActive(h)
    PROVE  PartsInv'
<1>1. UNCHANGED <<orders, positions>>
  BY CountActiveStep DEF pms
<1>2. PICK x : /\ Becomes(h, x) /\ x.pc = "pending" /\ x.row = handler[h].row
               /\ x.calm => x.active = Cardinality(ActiveOf(handler[h].row))
  BY CountActiveStep
<1>3. Cardinality(SettledIn(handler[h].row, orders, positions)) <= Cardinality(ActiveOf(handler[h].row))
  BY SettledBound
<1>4. Counting(x, orders, positions)
  BY <1>2, <1>3 DEF Counting, Counted
<1> QED
  BY <1>1, <1>2, <1>4, SameParts DEF Becomes

\* ... and finds that its pending orders leave room.
LEMMA CountPendingParts ==
    ASSUME Types, Types', Grow, PartsInv, NEW h \in Handlers, CountPending(h)
    PROVE  PartsInv'
<1>1. At(h, "pending") /\ UNCHANGED <<orders, positions>>
  BY CountPendingStep DEF pms
<1>2. CASE Ordinary(h)
  BY <1>1, <1>2, OrdinaryParts, SameParts
<1>3. ASSUME WithinLimit(h), NEW x, Becomes(h, x), x.pc = "invalidate", Same(x, handler[h])
      PROVE  PartsInv'
  <2>1. PICK row : row = handler[h].row
    OBVIOUS
  <2>2. Len(orders) \in Nat /\ handler[h].active \in Nat /\ Parts \in Nat
    BY Lengths, RequestFacts, BoundsAssumption DEF Types, HandlerRecord
  <2>3. IsFiniteSet(PendingOf(row)) /\ IsFiniteSet(SettledIn(row, orders, positions))
    <3>1. IsFiniteSet(1 .. Len(orders))
      BY <2>2, FS_Interval
    <3> QED
      BY <2>2, <3>1, FS_Subset, FiniteIn DEF PendingOf, OrderIds
  <2>4. LiveIn(row, orders, positions) \subseteq PendingOf(row) \cup SettledIn(row, orders, positions)
    BY DEF LiveIn, SettledIn, PendingOf, OrderIds
  <2> DEFINE a == Cardinality(PendingOf(row))
             b == Cardinality(SettledIn(row, orders, positions))
             c == Cardinality(PendingOf(row) \cup SettledIn(row, orders, positions))
             d == Cardinality(LiveIn(row, orders, positions))
  <2>5. a \in Nat /\ b \in Nat /\ c \in Nat
    BY <2>3, FS_CardinalityType, FS_Union
  <2>6. c <= a + b
    <3>1. IsFiniteSet(PendingOf(row) \cap SettledIn(row, orders, positions))
      BY <2>3, FS_Intersection
    <3>2. Cardinality(PendingOf(row) \cap SettledIn(row, orders, positions)) \in Nat
      BY <3>1, FS_CardinalityType
    <3>3. c = a + b - Cardinality(PendingOf(row) \cap SettledIn(row, orders, positions))
      BY <2>3, FS_Union
    <3> HIDE DEF a, b, c
    <3> QED
      BY <2>5, <3>2, <3>3
  <2>7. d <= c /\ d \in Nat
    BY <2>3, <2>4, FS_Union, FewerIn
  <2>8. handler[h].active + a < Parts
    BY <1>3, <2>1 DEF WithinLimit
  <2>9. handler[h].calm => b <= handler[h].active
    BY <1>1, <2>1 DEF PartsInv, Counting, At
  <2> HIDE DEF a, b, c
  <2>10. handler[h].calm => d < Parts
    <3> HIDE DEF d
    <3> QED
      BY <2>2, <2>5, <2>6, <2>7, <2>8, <2>9
  <2>11. Counting(x, orders, positions)
    BY <1>3, <2>1, <2>10 DEF Counting, Same
  <2> QED
    BY <1>1, <1>3, <2>11, SameParts DEF Becomes
<1> QED
  BY <1>2, <1>3, CountPendingStep

\* The order for which there was room.
LEMMA CreateOrderParts ==
    ASSUME Types, Types', Grow, PartsInv, NEW h \in Handlers, CreateUserOrder(h)
    PROVE  PartsInv'
<1> DEFINE n == Len(orders) + 1
           row == handler[h].row
<1>1. /\ Len(orders) \in Nat /\ Len(orders') = n /\ Parts \in Nat
      /\ orders'[n] = Order(row, OpenSide(handler[h].action), handler[h].stale, handler[h].calm)
      /\ UNCHANGED positions
  BY CreateOrderTables, Lengths, BoundsAssumption DEF Types, CreateUserOrder
<1>2. orders'[n].row = row /\ orders'[n].status = "new" /\ orders'[n].calm = handler[h].calm
  BY <1>1 DEF Order
<1>3. \A o \in 1 .. Len(orders) : orders'[o] = orders[o]
  <2>1. orders \in Seq(OrderRecord) /\ orders' \in Seq(OrderRecord) /\ n \in 1 .. Len(orders')
    BY <1>1 DEF Types, TablesOK
  <2>2. Order(row, OpenSide(handler[h].action), handler[h].stale, handler[h].calm) \in OrderRecord
    BY <1>1, <2>1, ElementOfSeq
  <2>3. orders' = Append(orders, Order(row, OpenSide(handler[h].action), handler[h].stale, handler[h].calm))
    BY DEF CreateUserOrder
  <2> HIDE DEF n, row
  <2> QED
    BY <2>1, <2>2, <2>3, AppendProperties
<1>4. 1 .. Len(orders') = 1 .. Len(orders) \cup {n}
  BY <1>1
<1>5. At(h, "order") /\ Others(h) /\ handler'[h].pc = "place"
  BY CreateOrderStep
<1> HIDE DEF n
<1>6. ASSUME NEW r
      PROVE  /\ LiveIn(r, orders', positions') \subseteq LiveIn(r, orders, positions) \cup {n}
             /\ r # row => LiveIn(r, orders', positions') \subseteq LiveIn(r, orders, positions)
             /\ SettledIn(r, orders', positions') \subseteq SettledIn(r, orders, positions)
  BY <1>1, <1>2, <1>3, <1>4 DEF LiveIn, SettledIn
<1>7. ASSUME NEW r
      PROVE  Cardinality(CalmIn(r, orders', positions')) <= Parts
  <2>1. /\ IsFiniteSet(LiveIn(r, orders, positions)) /\ IsFiniteSet(CalmIn(r, orders, positions))
        /\ Cardinality(LiveIn(r, orders, positions)) \in Nat
        /\ Cardinality(CalmIn(r, orders, positions)) \in Nat
    BY <1>1, FiniteIn
  <2>2. Cardinality(CalmIn(r, orders, positions)) <= Parts
    BY DEF PartsInv
  <2>3. CASE r # row \/ ~handler[h].calm
    <3>1. CalmIn(r, orders', positions') \subseteq CalmIn(r, orders, positions)
      <4>1. ASSUME NEW k \in CalmIn(r, orders', positions')
            PROVE  k \in LiveIn(r, orders, positions) /\ orders[k].calm
        BY <1>2, <1>3, <1>4, <1>6, <2>3 DEF CalmIn, LiveIn
      <4> QED
        BY <4>1 DEF CalmIn
    <3> QED
      BY <1>1, <2>1, <2>2, <3>1, FewerIn
  <2>4. CASE r = row /\ handler[h].calm
    <3>1. Cardinality(LiveIn(r, orders, positions)) < Parts
      BY <1>5, <2>4 DEF PartsInv, Counting, Counted, At
    <3>2. CalmIn(r, orders', positions') \subseteq LiveIn(r, orders, positions) \cup {n}
      BY <1>6 DEF CalmIn
    <3>3. /\ IsFiniteSet(LiveIn(r, orders, positions) \cup {n})
          /\ Cardinality(LiveIn(r, orders, positions) \cup {n}) <= Cardinality(LiveIn(r, orders, positions)) + 1
      <4>1. PICK S : S = LiveIn(r, orders, positions)
        OBVIOUS
      <4>2. PICK m : m = n
        OBVIOUS
      <4>3. IsFiniteSet(S) /\ Cardinality(S) \in Nat
        BY <2>1, <4>1
      <4>5. /\ IsFiniteSet(S \cup {m})
            /\ Cardinality(S \cup {m}) = IF m \in S THEN Cardinality(S) ELSE Cardinality(S) + 1
        BY <4>3, FS_AddElement, Zenon
      <4>6. Cardinality(S) <= Cardinality(S) + 1 /\ Cardinality(S) + 1 <= Cardinality(S) + 1
        BY <4>3
      <4>4. IsFiniteSet(S \cup {m}) /\ Cardinality(S \cup {m}) <= Cardinality(S) + 1
        BY <4>5, <4>6
      <4> QED
        BY <4>1, <4>2, <4>4
    <3>4. /\ Cardinality(CalmIn(r, orders', positions')) <= Cardinality(LiveIn(r, orders, positions) \cup {n})
          /\ Cardinality(CalmIn(r, orders', positions')) \in Nat
          /\ Cardinality(LiveIn(r, orders, positions) \cup {n}) \in Nat
      BY <3>2, <3>3, FewerIn
    <3> QED
      BY <1>1, <2>1, <3>1, <3>3, <3>4
  <2> QED
    BY <2>3, <2>4
<1>8. ASSUME NEW g \in Handlers
      PROVE  Counting(handler'[g], orders', positions')
  <2>1. CASE g = h
    BY <1>5, <2>1 DEF Counting, Counted
  <2>2. CASE g # h
    <3> SUFFICES ASSUME handler'[g].calm PROVE Counting(handler'[g], orders', positions')
      BY DEF Counting
    <3>1. PICK r : r = handler[g].row
      OBVIOUS
    <3>2. /\ handler'[g].pc = handler[g].pc /\ handler'[g].row = r
          /\ handler'[g].active = handler[g].active /\ handler[g].calm
          /\ handler[g].pc \in Counted => r # row
      BY <1>5, <2>2, <3>1 DEF Others
    <3>3. /\ handler[g].pc = "pending" => Cardinality(SettledIn(r, orders, positions)) <= handler[g].active
          /\ handler[g].pc \in Counted => Cardinality(LiveIn(r, orders, positions)) < Parts
      BY <3>1, <3>2 DEF PartsInv, Counting
    <3>4. /\ IsFiniteSet(LiveIn(r, orders, positions)) /\ IsFiniteSet(SettledIn(r, orders, positions))
          /\ handler[g].active \in Nat
      BY <1>1, FiniteIn, RequestFacts DEF HandlerRecord
    <3>5. /\ Cardinality(SettledIn(r, orders', positions')) <= Cardinality(SettledIn(r, orders, positions))
          /\ Cardinality(SettledIn(r, orders', positions')) \in Nat
          /\ Cardinality(SettledIn(r, orders, positions)) \in Nat
      BY <1>6, <3>4, FewerIn
    <3>6. r # row => /\ Cardinality(LiveIn(r, orders', positions')) <= Cardinality(LiveIn(r, orders, positions))
                     /\ Cardinality(LiveIn(r, orders', positions')) \in Nat
                     /\ Cardinality(LiveIn(r, orders, positions)) \in Nat
      BY <1>6, <3>4, FewerIn
    <3>7. handler[g].pc = "pending" => Cardinality(SettledIn(r, orders', positions')) <= handler[g].active
      BY <3>3, <3>4, <3>5
    <3>8. handler[g].pc \in Counted => Cardinality(LiveIn(r, orders', positions')) < Parts
      BY <1>1, <3>2, <3>3, <3>6
    <3> QED
      BY <3>2, <3>7, <3>8 DEF Counting
  <2> QED
    BY <2>1, <2>2
<1> QED
  BY <1>7, <1>8 DEF PartsInv

\* An order that is refused has no position.
LEMMA PlaceOrderParts ==
    ASSUME Types, Types', Grow, PlacedInv, PartsInv, NEW h \in Handlers, PlaceOrder(h) \/ PlaceFails(h)
    PROVE  PartsInv'
<1>1. At(h, "place") /\ UNCHANGED positions /\ Ordinary(h)
  BY AnswerOrdinary DEF PlaceOrder, PlaceFails
<1>2. /\ OrderIds' = OrderIds
      /\ \A o \in OrderIds : o # handler[h].order => orders'[o] = orders[o]
  BY PlaceTables
<1>3. ~orders[handler[h].order].watched
  BY <1>1 DEF PlacedInv
<1>4. \A p \in PositionIds : positions[p].order # handler[h].order
  BY <1>3 DEF PlacedInv
<1>5. NoneOpens
  BY <1>1 DEF NoneOpens
<1>6. \A row : NoneSettles(row)
  BY <1>1, <1>2, <1>4 DEF NoneSettles, HeldIn, PositionIds
<1>7. \A g \in Handlers : Recounts(g)
  BY <1>1, <1>6, OrdinaryParts DEF Recounts
<1> QED
  BY <1>2, <1>5, <1>7, KeepParts

\* A position is opened for an order that is still pending.
LEMMA FillParts ==
    ASSUME Types, Types', Grow, PlacedInv, PartsInv, NEW o \in OrderIds, Fill(o)
    PROVE  PartsInv'
<1>1. UNCHANGED <<orders, handler>> /\ orders[o].status = "new"
  BY DEF Fill, PlacedInv
<1>2. /\ Len(positions') = Len(positions) + 1 /\ Len(positions) \in Nat
      /\ \A p \in PositionIds : positions'[p] = positions[p]
      /\ positions'[Len(positions) + 1] = Position(o)
  BY FillTables, Lengths DEF Types
<1>3. \A p \in 1 .. Len(positions') : p \in PositionIds \/ p = Len(positions) + 1
  BY <1>2 DEF PositionIds
<1>4. Position(o).order = o
  BY DEF Position
<1>5. NoneOpens
  BY <1>1, <1>2, <1>3, <1>4 DEF NoneOpens, HeldIn, PositionIds
<1>6. OrderIds' = OrderIds /\ \A row : NoneSettles(row)
  BY <1>1 DEF OrderIds, NoneSettles
<1>7. \A g \in Handlers : Recounts(g)
  BY <1>1, <1>6 DEF Recounts
<1> QED
  BY <1>5, <1>6, <1>7, KeepParts

\* Positions are not opened by a step that keeps their number.
LEMMA NoOpens ==
    ASSUME Types, Types', Grow, PositionIds' = PositionIds
    PROVE  NoneOpens
<1>1. \A o \in OrderIds : HeldIn(o, positions') => HeldIn(o, positions)
  BY DEF Grow, PositionsGrow, HeldIn, PositionIds
<1> QED
  BY <1>1 DEF NoneOpens

\* A fill is reported: who counts the row is disturbed.
LEMMA NotifyParts ==
    ASSUME Types, Types', Grow, PartsInv, NEW p \in PositionIds, NotifyFilled(p)
    PROVE  PartsInv'
<1>1. PICK row : row = RowOf(p)
  OBVIOUS
<1>2. handler' = Disturb(handler, row, {"pending"}) /\ handler \in [Handlers -> HandlerRecord]
  BY <1>1 DEF NotifyFilled, Types, RequestsOK
<1>3. \A g \in Handlers :
        /\ handler'[g].pc = handler[g].pc /\ handler'[g].row = handler[g].row
        /\ handler'[g].active = handler[g].active
        /\ handler'[g].calm => handler[g].calm /\ ~(handler[g].row = row /\ handler[g].pc = "pending")
  BY <1>2, DisturbFacts
<1>4. /\ OrderIds' = OrderIds /\ PositionIds' = PositionIds
      /\ \A o \in OrderIds : o # positions[p].order => orders'[o] = orders[o]
  BY NotifyTables
<1>5. \A r : r # row => NoneSettles(r)
  BY <1>1, <1>4 DEF NoneSettles, RowOf
<1>6. \A g \in Handlers : Recounts(g)
  BY <1>3, <1>5 DEF Recounts
<1> QED
  BY <1>4, <1>6, NoOpens, KeepParts

\* Steps that leave the orders and requests alone, and open no position.
LEMMA ClosingParts ==
    ASSUME Types, Types', Grow, PartsInv, UNCHANGED <<orders, handler>>, PositionIds' = PositionIds
    PROVE  PartsInv'
<1>1. OrderIds' = OrderIds /\ \A row : NoneSettles(row)
  BY DEF OrderIds, NoneSettles
<1>2. \A g \in Handlers : Recounts(g)
  BY <1>1 DEF Recounts
<1> QED
  BY <1>1, <1>2, NoOpens, KeepParts

\* Every step keeps PartsInv.
LEMMA PartsStep ==
    ASSUME Types, Types', Grow, PlacedInv, PartsInv, [Next]_vars
    PROVE  PartsInv'
<1>1. ASSUME NEW h \in Handlers, Ordinary(h), UNCHANGED <<orders, positions>> PROVE PartsInv'
  BY <1>1, OrdinaryParts, SameParts
<1>2. ASSUME NEW h \in Handlers, Plain(h) PROVE PartsInv'
  BY <1>1, <1>2 DEF Plain, pms
<1>3. ASSUME NEW h \in Handlers, Special(h) PROVE PartsInv'
  <2>1. CASE InvalidateRules(h)
    <3>1. /\ UNCHANGED <<orders, positions>> /\ Recounts(h)
          /\ \A g \in Handlers \ {h} : handler'[g] = handler[g]
      BY <2>1, InvalidateStep DEF InvalidateRules, Becomes, Recounts, Counted, At
    <3> QED
      BY <3>1, SameParts
  <2>2. CASE CreateRule(h)
    BY <1>1, <2>2, CreateRuleOrdinary DEF CreateRule
  <2>3. CASE QueryReverse(h)
    <3>1. /\ UNCHANGED <<orders, positions>> /\ Recounts(h)
          /\ \A g \in Handlers \ {h} : handler'[g] = handler[g]
      BY <2>3, QueryReverseStep DEF pms, Becomes, Recounts, Counted
    <3> QED
      BY <3>1, SameParts
  <2>4. CASE Poll(h)
    <3>1. UNCHANGED <<orders, positions>>
      BY <2>4, PollStep DEF pms
    <3>2. CASE \E x : Becomes(h, x) /\ x.pc = "count"
      <4>1. Recounts(h) /\ \A g \in Handlers \ {h} : handler'[g] = handler[g]
        BY <3>2 DEF Becomes, Recounts, Counted
      <4> QED
        BY <3>1, <4>1, SameParts
    <3> QED
      BY <1>1, <2>4, <3>1, <3>2, PollStep
  <2> QED
    BY <1>3, <2>1, <2>2, <2>3, <2>4, CountActiveParts, CountPendingParts,
       CreateOrderParts, PlaceOrderParts DEF Special
<1>4. ASSUME NEW p \in PositionIds, LoseNotification(p) \/ FillClose(p) PROVE PartsInv'
  BY <1>4, ClosingParts, NotifyTables, FillCloseTables DEF LoseNotification, FillClose
<1>5. CASE Cycle
  <2>1. UNCHANGED <<orders, handler>> /\ PositionIds' = PositionIds
    BY <1>5, PlaceClosesTables
       DEF Cycle, CycleEvaluate, ApplyStart, PlaceCloses, MarkInUse, PositionIds
  <2> QED
    BY <2>1, ClosingParts
<1>6. CASE (\E row \in resets : ResetRules(row)) \/ UNCHANGED vars
  BY <1>6, ClosingParts DEF ResetRules, vars, PositionIds
<1> QED
  BY <1>2, <1>3, <1>4, <1>5, <1>6, NextKinds, FillParts, NotifyParts

\* At first nothing counts.
LEMMA PartsInit == Init => PartsInv
<1> SUFFICES ASSUME Init PROVE PartsInv
  OBVIOUS
<1>1. \A row : CalmIn(row, orders, positions) = {}
  BY DEF Init, CalmIn, LiveIn
<1>2. Parts \in Nat /\ Cardinality({}) = 0
  BY BoundsAssumption, FS_EmptySet
<1>3. \A h \in Handlers : handler[h].pc = "idle"
  BY DEF Init, Idle
<1>4. \A h \in Handlers : Counting(handler[h], orders, positions)
  BY <1>3 DEF Counting, Counted
<1>5. \A row : Cardinality(CalmIn(row, orders, positions)) <= Parts
  BY <1>1, <1>2
<1> QED
  BY <1>4, <1>5 DEF PartsInv

\* PartsRespected: at most Parts orders and positions of a strategy
\* (handler.go:802), pending ones included, but for orders let through by a
\* check that was disturbed, however many requests are in service.
THEOREM PartsRespectedInvariant == Spec => []PartsRespected
<1>1. Init => Types /\ PlacedInv /\ PartsInv
  BY TypesInit, PlacedInit, PartsInit
<1>2. (Types /\ PlacedInv /\ PartsInv) /\ [Next]_vars => (Types /\ PlacedInv /\ PartsInv)'
  BY TypesStep, PlacedStep, PartsStep
<1>3. Types /\ PartsInv => PartsRespected
  BY LiveIs DEF PartsInv, PartsRespected, CalmIn
<1> QED
  BY <1>1, <1>2, <1>3, PTL DEF Spec
-----------------------------------------------------------------------------
(* The bounds of the types.  What one table or request says of another is  *)
(* there; and each strategy was created by a signal of its own.            *)

\* Steps of a request before and after it knows its strategy, and its row.
Named == {"findUser", "createUser"}
Resolved == {"count", "pending", "invalidate", "order", "place", "query", "close",
             "rule", "wait"}

\* A request that only speaks of the first s strategies, u user strategies, o
\* orders, p positions and r rules.
Fits(x, s, u, o, p, r) ==
    /\ x.strategy \in 0 .. s /\ x.row \in 0 .. u /\ x.order \in 0 .. o
    /\ x.polls \in 0 .. PollLimit
    /\ x.seen \subseteq 1 .. p /\ x.stale \subseteq 1 .. r
    /\ x.pc \in Named => x.strategy # 0
    /\ x.pc \in Resolved => x.row # 0

FitsNow(x) == Fits(x, strategies, Len(userStrategies), Len(orders), Len(positions), Len(rules))

OrderFits(x, u, r) == x.row \in 1 .. u /\ x.stale \subseteq 1 .. r
RuleFits(x, u, p) == x.row \in 1 .. u /\ x.targets \subseteq 1 .. p

\* The same of the tables.
TablesFit ==
    /\ posType \in PosTypes
    /\ userStrategies \in Seq(1 .. strategies)
    /\ \A o \in OrderIds : OrderFits(orders[o], Len(userStrategies), Len(rules))
    /\ \A p \in PositionIds : positions[p].closing \in 0 .. Len(rules)
    /\ \A r \in RuleIds : RuleFits(rules[r], Len(userStrategies), Len(positions))
    /\ resets \subseteq 1 .. Len(userStrategies)

\* Requests that may still create a strategy.
Nameless == {h \in Handlers : handler[h].pc \in {"find", "create"}}

NamesCounted ==
    /\ IsFiniteSet(Nameless)
    /\ strategies + Cardinality(Nameless) <= signals
    /\ signals \in 0 .. MaxSignals

FitInv == TablesFit /\ (\A h \in Handlers : FitsNow(handler[h])) /\ NamesCounted

\* Another state of a request that differs in what is of no account here.
Alike(x, y) ==
    /\ x.pc = y.pc /\ x.strategy = y.strategy /\ x.row = y.row /\ x.order = y.order
    /\ x.polls = y.polls /\ x.seen = y.seen /\ x.stale = y.stale

\* The lengths, before and after a step.
LEMMA Sizes ==
    ASSUME Types
    PROVE  /\ strategies \in Nat /\ Len(userStrategies) \in Nat /\ Len(orders) \in Nat
           /\ Len(positions) \in Nat /\ Len(rules) \in Nat
  BY LenProperties DEF Types, TablesOK

\* More rows of each table.
LEMMA FitsMore ==
    ASSUME NEW x, NEW s \in Nat, NEW u \in Nat, NEW o \in Nat, NEW p \in Nat, NEW r \in Nat,
           Fits(x, s, u, o, p, r),
           NEW t \in Nat, NEW v \in Nat, NEW n \in Nat, NEW q \in Nat, NEW k \in Nat,
           t >= s, v >= u, n >= o, q >= p, k >= r
    PROVE  Fits(x, t, v, n, q, k)
<1>1. 0 .. s \subseteq 0 .. t /\ 0 .. u \subseteq 0 .. v /\ 0 .. o \subseteq 0 .. n
  OBVIOUS
<1>2. 1 .. p \subseteq 1 .. q /\ 1 .. r \subseteq 1 .. k
  OBVIOUS
<1> QED
  BY <1>1, <1>2 DEF Fits

LEMMA AlikeFits ==
    ASSUME NEW x, NEW y, Alike(x, y), NEW s, NEW u, NEW o, NEW p, NEW r,
           Fits(y, s, u, o, p, r)
    PROVE  Fits(x, s, u, o, p, r)
  BY DEF Alike, Fits

\* No table becomes shorter.
TablesGrow ==
    /\ strategies' >= strategies /\ Len(userStrategies') >= Len(userStrategies)
    /\ Len(orders') >= Len(orders) /\ Len(positions') >= Len(positions)
    /\ Len(rules') >= Len(rules)

\* A step of request h; the others are alike.
LEMMA RequestFits ==
    ASSUME Types, Types', FitInv, TablesGrow, TablesFit', NamesCounted',
           NEW h \in Handlers, FitsNow(handler[h])',
           \A g \in Handlers \ {h} : Alike(handler'[g], handler[g])
    PROVE  FitInv'
<1>1. /\ strategies \in Nat /\ Len(userStrategies) \in Nat /\ Len(orders) \in Nat
      /\ Len(positions) \in Nat /\ Len(rules) \in Nat
  BY Sizes
<1>2. /\ strategies' \in Nat /\ Len(userStrategies') \in Nat /\ Len(orders') \in Nat
      /\ Len(positions') \in Nat /\ Len(rules') \in Nat
  BY LenProperties DEF Types, TablesOK
<1>3. ASSUME NEW g \in Handlers \ {h}
      PROVE  FitsNow(handler[g])'
  <2>1. Fits(handler[g], strategies, Len(userStrategies), Len(orders), Len(positions), Len(rules))
    BY DEF FitInv, FitsNow
  <2>2. Fits(handler[g], strategies', Len(userStrategies'), Len(orders'), Len(positions'), Len(rules'))
    BY <1>1, <1>2, <2>1, FitsMore DEF TablesGrow
  <2>3. Fits(handler'[g], strategies', Len(userStrategies'), Len(orders'), Len(positions'), Len(rules'))
    BY <1>3, <2>2, AlikeFits
  <2> QED
    BY <2>3 DEF FitsNow
<1> QED
  BY <1>3 DEF FitInv

\* No request changes in more than this.
LEMMA AlikeFit ==
    ASSUME Types, Types', FitInv, TablesGrow, TablesFit', UNCHANGED <<strategies, signals>>,
           \A g \in Handlers : Alike(handler'[g], handler[g])
    PROVE  FitInv'
<1>1. Nameless' = Nameless
  BY DEF Nameless, Alike
<1>2. NamesCounted'
  BY <1>1 DEF NamesCounted, FitInv
<1>3. CASE Handlers = {}
  BY <1>2, <1>3 DEF FitInv
<1>4. CASE Handlers # {}
  <2>1. PICK h \in Handlers : TRUE
    BY <1>4
  <2>2. Fits(handler[h], strategies, Len(userStrategies), Len(orders), Len(positions), Len(rules))
    BY DEF FitInv, FitsNow
  <2>3. /\ strategies \in Nat /\ Len(userStrategies) \in Nat /\ Len(orders) \in Nat
        /\ Len(positions) \in Nat /\ Len(rules) \in Nat
    BY Sizes
  <2>4. /\ strategies' \in Nat /\ Len(userStrategies') \in Nat /\ Len(orders') \in Nat
        /\ Len(positions') \in Nat /\ Len(rules') \in Nat
    BY LenProperties DEF Types, TablesOK
  <2>5. Fits(handler[h], strategies', Len(userStrategies'), Len(orders'), Len(positions'), Len(rules'))
    BY <2>2, <2>3, <2>4, FitsMore DEF TablesGrow
  <2>6. FitsNow(handler[h])'
    BY <2>5, AlikeFits DEF FitsNow
  <2> QED
    BY <1>2, <2>6, RequestFits
<1> QED
  BY <1>3, <1>4

\* Fewer requests, or the same, have yet to find their strategy.
LEMMA FewerNames ==
    ASSUME Types, FitInv, UNCHANGED <<strategies, signals>>, Nameless' \subseteq Nameless
    PROVE  NamesCounted'
<1>1. /\ IsFiniteSet(Nameless) /\ strategies + Cardinality(Nameless) <= signals
      /\ signals \in 0 .. MaxSignals /\ strategies \in Nat /\ signals \in Nat
  BY Sizes DEF FitInv, NamesCounted
<1>2. PICK S : S = Nameless'
  OBVIOUS
<1>3. /\ IsFiniteSet(S) /\ Cardinality(S) <= Cardinality(Nameless)
      /\ Cardinality(S) \in Nat /\ Cardinality(Nameless) \in Nat
  BY <1>1, <1>2, FS_Subset, FS_CardinalityType
<1>4. strategies + Cardinality(S) <= signals
  BY <1>1, <1>3
<1> QED
  BY <1>1, <1>2, <1>3, <1>4 DEF NamesCounted

\* A step of one request that changes no table.
LEMMA StepFits ==
    ASSUME Types, Types', FitInv, NEW h \in Handlers, NEW x,
           UNCHANGED <<posType, registry, pms, signals>>,
           handler' = [handler EXCEPT ![h] = x], FitsNow(x),
           x.pc \in {"find", "create"} => handler[h].pc \in {"find", "create"}
    PROVE  FitInv'
<1>1. handler \in [Handlers -> HandlerRecord]
  BY DEF Types, RequestsOK
<1>2. handler'[h] = x /\ \A g \in Handlers \ {h} : handler'[g] = handler[g]
  BY <1>1
<1>3. UNCHANGED <<posType, strategies, userStrategies, orders, positions, rules, resets>>
  BY DEF registry, pms
<1>4. TablesFit'
  BY <1>3 DEF FitInv, TablesFit, OrderIds, PositionIds, RuleIds
<1>5. TablesGrow
  BY <1>3, Sizes DEF TablesGrow
<1>6. Nameless' \subseteq Nameless
  BY <1>2 DEF Nameless
<1>7. NamesCounted'
  BY <1>3, <1>6, FewerNames
<1>8. FitsNow(handler[h])'
  BY <1>2, <1>3 DEF FitsNow
<1>9. \A g \in Handlers \ {h} : Alike(handler'[g], handler[g])
  BY <1>2 DEF Alike
<1> QED
  BY <1>4, <1>5, <1>7, <1>8, <1>9, RequestFits

\* A request answers.
LEMMA IdleFits == ASSUME Types PROVE FitsNow(Idle) /\ Idle.pc = "idle"
<1>1. 0 \in 0 .. PollLimit
  BY BoundsAssumption
<1> QED
  BY <1>1, Sizes DEF FitsNow, Fits, Idle, Named, Resolved

LEMMA AnswerFits ==
    ASSUME Types, Types', FitInv, NEW h \in Handlers, Answer(h),
           UNCHANGED <<posType, registry, pms, signals>>
    PROVE  FitInv'
  BY IdleFits, StepFits DEF Answer

\* A request goes on that knows its row.
LEMMA GotoFits ==
    ASSUME Types, Types', FitInv, NEW h \in Handlers, handler[h].pc \in Resolved,
           NEW pc \in Resolved, Goto(h, pc), UNCHANGED <<posType, registry, pms, signals>>
    PROVE  FitInv'
<1> DEFINE x == [handler[h] EXCEPT !.pc = pc]
<1>1. handler[h] \in HandlerRecord /\ FitsNow(handler[h])
  BY DEF Types, RequestsOK, FitInv
<1>2. /\ x.pc = pc /\ x.strategy = handler[h].strategy /\ x.row = handler[h].row
      /\ x.order = handler[h].order /\ x.polls = handler[h].polls
      /\ x.seen = handler[h].seen /\ x.stale = handler[h].stale
  BY <1>1 DEF HandlerRecord
<1>3. handler' = [handler EXCEPT ![h] = x]
  BY DEF Goto
<1> HIDE DEF x
<1>4. FitsNow(x)
  BY <1>1, <1>2 DEF FitsNow, Fits, Resolved, Named
<1>5. x.pc \notin {"find", "create"}
  BY <1>2 DEF Resolved
<1> QED
  BY <1>3, <1>4, <1>5, StepFits

\* A signal comes in.
LEMMA ReceiveFits ==
    ASSUME Types, Types', FitInv, NEW h \in Handlers, NEW a, Receive(h, a)
    PROVE  FitInv'
<1> DEFINE x == [Idle EXCEPT !.pc = "find", !.action = a]
<1>1. handler \in [Handlers -> HandlerRecord] /\ handler[h].pc = "idle"
  BY DEF Types, RequestsOK, Receive, At
<1>2. handler' = [handler EXCEPT ![h] = x]
  BY DEF Receive
<1>3. /\ x.pc = "find" /\ x.strategy = 0 /\ x.row = 0 /\ x.order = 0
      /\ x.polls = 0 /\ x.seen = {} /\ x.stale = {}
  BY DEF Idle
<1> HIDE DEF x
<1>4. FitsNow(x)
  <2>1. 0 \in 0 .. PollLimit
    BY BoundsAssumption
  <2> QED
    BY <1>3, <2>1, Sizes DEF FitsNow, Fits, Resolved, Named
<1>5. UNCHANGED <<posType, strategies, userStrategies, orders, positions, rules, resets>>
  BY DEF Receive, registry, pms
<1>6. TablesFit' /\ TablesGrow
  BY <1>5, Sizes DEF FitInv, TablesFit, OrderIds, PositionIds, RuleIds, TablesGrow
<1>7. handler'[h] = x /\ \A g \in Handlers \ {h} : handler'[g] = handler[g]
  BY <1>1, <1>2
<1>8. NamesCounted'
  <2>1. Nameless' = Nameless \cup {h} /\ h \notin Nameless
    BY <1>1, <1>3, <1>7 DEF Nameless
  <2>2. /\ IsFiniteSet(Nameless) /\ strategies + Cardinality(Nameless) <= signals
        /\ signals \in Nat /\ strategies \in Nat /\ Cardinality(Nameless) \in Nat
    BY Sizes, FS_CardinalityType, BoundsAssumption DEF FitInv, NamesCounted
  <2>3. /\ IsFiniteSet(Nameless \cup {h})
        /\ Cardinality(Nameless \cup {h}) = Cardinality(Nameless) + 1
    BY <2>1, <2>2, FS_AddElement
  <2>4. signals' = signals + 1 /\ signals' \in 0 .. MaxSignals /\ strategies' = strategies
    BY <1>5, <2>2, BoundsAssumption DEF Receive
  <2>5. strategies + (Cardinality(Nameless) + 1) <= signals + 1
    BY <2>2
  <2> QED
    BY <2>1, <2>3, <2>4, <2>5 DEF NamesCounted
<1>9. FitsNow(handler[h])'
  BY <1>4, <1>5, <1>7 DEF FitsNow
<1>10. \A g \in Handlers \ {h} : Alike(handler'[g], handler[g])
  BY <1>7 DEF Alike
<1> QED
  BY <1>6, <1>8, <1>9, <1>10, RequestFits

\* What a request becomes that knows its row, of u.
LEMMA DispatchFits ==
    ASSUME Types, FitInv, NEW h \in Handlers, handler[h].pc # "idle",
           NEW row \in Nat \ {0}, Dispatch(h, row)
    PROVE  \E x : /\ handler' = [handler EXCEPT ![h] = x]
                  /\ x.pc \in Resolved /\ x.pc \notin {"find", "create"}
                  /\ x.strategy = 0 /\ x.row = row
                  /\ x.order = handler[h].order /\ x.polls = handler[h].polls
                  /\ x.seen = handler[h].seen /\ x.stale = handler[h].stale
<1> DEFINE pc == CASE handler[h].action \in Opening -> "count"
                   [] handler[h].action \in Closing -> "close"
                   [] handler[h].action \in Reversing -> "query"
           x == [handler[h] EXCEPT !.strategy = 0, !.row = row, !.pc = pc]
<1>1. /\ handler \in [Handlers -> HandlerRecord] /\ handler[h] \in HandlerRecord
      /\ handler[h].action \in AllActions
  BY DEF Types, RequestsOK, Request
<1>2. pc \in {"count", "close", "query"}
  BY <1>1 DEF AllActions, Opening, Closing, Reversing
<1>3. handler' = [handler EXCEPT ![h].strategy = 0, ![h].row = row, ![h].pc = pc]
  BY DEF Dispatch
<1> HIDE DEF pc
<1>4. handler' = [handler EXCEPT ![h] = x]
  BY <1>1, <1>3 DEF HandlerRecord
<1>5. /\ x.pc = pc /\ x.strategy = 0 /\ x.row = row
      /\ x.order = handler[h].order /\ x.polls = handler[h].polls
      /\ x.seen = handler[h].seen /\ x.stale = handler[h].stale
  BY <1>1 DEF HandlerRecord
<1> HIDE DEF x
<1> QED
  BY <1>2, <1>4, <1>5 DEF Resolved

\* The user strategy is looked for.
LEMMA LookUpFits ==
    ASSUME Types, Types', FitInv, NEW h \in Handlers, handler[h].pc \in {"find", "findUser"},
           NEW s \in 1 .. strategies, LookUpUserStrategy(h, s),
           UNCHANGED <<posType, registry, pms, signals>>
    PROVE  FitInv'
<1>1. /\ handler \in [Handlers -> HandlerRecord] /\ handler[h] \in HandlerRecord
      /\ FitsNow(handler[h]) /\ strategies \in Nat /\ Len(userStrategies) \in Nat
  BY Sizes DEF Types, RequestsOK, FitInv
<1>2. CASE handler' = [handler EXCEPT ![h].strategy = s, ![h].pc = "createUser"]
  <2> DEFINE x == [handler[h] EXCEPT !.strategy = s, !.pc = "createUser"]
  <2>1. handler' = [handler EXCEPT ![h] = x]
    BY <1>1, <1>2 DEF HandlerRecord
  <2>2. /\ x.pc = "createUser" /\ x.strategy = s /\ x.row = handler[h].row
        /\ x.order = handler[h].order /\ x.polls = handler[h].polls
        /\ x.seen = handler[h].seen /\ x.stale = handler[h].stale
    BY <1>1 DEF HandlerRecord
  <2> HIDE DEF x
  <2>3. s \in 0 .. strategies /\ s # 0
    BY <1>1
  <2>4. FitsNow(x)
    BY <1>1, <2>2, <2>3 DEF FitsNow, Fits, Resolved, Named
  <2> QED
    BY <2>1, <2>2, <2>4, StepFits
<1>3. ASSUME NEW row \in 1 .. Len(userStrategies), Dispatch(h, row)
      PROVE  FitInv'
  <2>1. row \in Nat \ {0} /\ row \in 0 .. Len(userStrategies) /\ 0 \in 0 .. strategies
    BY <1>1
  <2>2. PICK x : /\ handler' = [handler EXCEPT ![h] = x]
                 /\ x.pc \in Resolved /\ x.pc \notin {"find", "create"}
                 /\ x.strategy = 0 /\ x.row = row
                 /\ x.order = handler[h].order /\ x.polls = handler[h].polls
                 /\ x.seen = handler[h].seen /\ x.stale = handler[h].stale
    BY <1>3, <2>1, DispatchFits
  <2>3. FitsNow(x)
    BY <1>1, <2>1, <2>2 DEF FitsNow, Fits, Resolved, Named
  <2> QED
    BY <2>2, <2>3, StepFits
<1> QED
  BY <1>2, <1>3 DEF LookUpUserStrategy

\* The strategy is looked for, and created.
LEMMA FindFits ==
    ASSUME Types, Types', FitInv, NEW h \in Handlers, FindStrategy(h) \/ FindUserStrategy(h)
    PROVE  FitInv'
<1>1. /\ handler[h] \in HandlerRecord /\ FitsNow(handler[h])
      /\ UNCHANGED <<posType, registry, pms, signals>>
  BY DEF Types, RequestsOK, FitInv, FindStrategy, FindUserStrategy, bounds
<1>2. CASE FindStrategy(h) /\ Goto(h, "create")
  <2> DEFINE x == [handler[h] EXCEPT !.pc = "create"]
  <2>1. handler' = [handler EXCEPT ![h] = x] /\ handler[h].pc = "find"
    BY <1>2 DEF Goto, FindStrategy, At
  <2>2. /\ x.pc = "create" /\ x.strategy = handler[h].strategy /\ x.row = handler[h].row
        /\ x.order = handler[h].order /\ x.polls = handler[h].polls
        /\ x.seen = handler[h].seen /\ x.stale = handler[h].stale
    BY <1>1 DEF HandlerRecord
  <2> HIDE DEF x
  <2>3. FitsNow(x)
    BY <1>1, <2>2 DEF FitsNow, Fits, Resolved, Named
  <2> QED
    BY <1>1, <2>1, <2>3, StepFits
<1>3. CASE \E s \in 1 .. strategies : LookUpUserStrategy(h, s) /\ FindStrategy(h)
  BY <1>1, <1>3, LookUpFits DEF FindStrategy, At
<1>4. CASE FindUserStrategy(h)
  <2>1. handler[h].pc = "findUser" /\ LookUpUserStrategy(h, handler[h].strategy)
    BY <1>4 DEF FindUserStrategy, At
  <2>2. handler[h].strategy \in 1 .. strategies
    <3>1. strategies \in Nat
      BY Sizes
    <3> QED
      BY <1>1, <2>1, <3>1 DEF FitsNow, Fits, Named
  <2> QED
    BY <1>1, <2>1, <2>2, LookUpFits
<1> QED
  BY <1>2, <1>3, <1>4 DEF FindStrategy

LEMMA CreateStrategyFits ==
    ASSUME Types, Types', FitInv, NEW h \in Handlers, CreateStrategy(h)
    PROVE  FitInv'
<1> DEFINE s == strategies + 1
           x == [handler[h] EXCEPT !.strategy = s, !.pc = "findUser"]
<1>1. /\ handler \in [Handlers -> HandlerRecord] /\ handler[h] \in HandlerRecord
      /\ FitsNow(handler[h]) /\ handler[h].pc = "create" /\ strategies \in Nat
      /\ Len(userStrategies) \in Nat /\ Len(orders) \in Nat
      /\ Len(positions) \in Nat /\ Len(rules) \in Nat
  BY Sizes DEF Types, RequestsOK, FitInv, CreateStrategy, At
<1>2. strategies' = s /\ s \in Nat /\ s >= strategies /\ s # 0
  BY <1>1 DEF CreateStrategy
<1>3. UNCHANGED <<posType, userStrategies, orders, positions, rules, resets, signals>>
  BY DEF CreateStrategy, pms, bounds
<1>4. handler' = [handler EXCEPT ![h] = x]
  <2>1. handler' = [handler EXCEPT ![h].strategy = s, ![h].pc = "findUser"]
    BY <1>2 DEF CreateStrategy
  <2> HIDE DEF s
  <2> QED
    BY <1>1, <2>1 DEF HandlerRecord
<1>5. /\ x.pc = "findUser" /\ x.strategy = s /\ x.row = handler[h].row
      /\ x.order = handler[h].order /\ x.polls = handler[h].polls
      /\ x.seen = handler[h].seen /\ x.stale = handler[h].stale
  BY <1>1 DEF HandlerRecord
<1> HIDE DEF x
<1>6. handler'[h] = x /\ \A g \in Handlers \ {h} : handler'[g] = handler[g]
  BY <1>1, <1>4
<1>7. TablesFit'
  <2>1. userStrategies \in Seq(1 .. strategies) /\ 1 .. strategies \subseteq 1 .. s
    BY <1>1 DEF FitInv, TablesFit
  <2>2. userStrategies \in Seq(1 .. s)
    BY <2>1, SeqMonotonic
  <2> QED
    BY <1>2, <1>3, <2>2 DEF FitInv, TablesFit, OrderIds, PositionIds, RuleIds
<1>8. TablesGrow
  BY <1>1, <1>2, <1>3 DEF TablesGrow
<1>9. Fits(x, s, Len(userStrategies), Len(orders), Len(positions), Len(rules))
  <2>1. s \in 0 .. s
    BY <1>2
  <2> QED
    BY <1>1, <1>2, <1>5, <2>1 DEF FitsNow, Fits, Named, Resolved
<1>10. NamesCounted'
  <2>1. Nameless' = Nameless \ {h} /\ h \in Nameless
    BY <1>1, <1>5, <1>6 DEF Nameless
  <2>2. /\ IsFiniteSet(Nameless) /\ strategies + Cardinality(Nameless) <= signals
        /\ signals \in 0 .. MaxSignals /\ signals \in Nat /\ Cardinality(Nameless) \in Nat
    BY FS_CardinalityType, BoundsAssumption DEF FitInv, NamesCounted
  <2>3. /\ IsFiniteSet(Nameless \ {h})
        /\ Cardinality(Nameless \ {h}) = Cardinality(Nameless) - 1
    BY <2>1, <2>2, FS_RemoveElement
  <2>4. s + (Cardinality(Nameless) - 1) <= signals
    BY <1>1, <2>2
  <2> QED
    BY <1>2, <1>3, <2>1, <2>2, <2>3, <2>4 DEF NamesCounted
<1>11. FitsNow(handler[h])'
  BY <1>2, <1>3, <1>6, <1>9 DEF FitsNow
<1>12. \A g \in Handlers \ {h} : Alike(handler'[g], handler[g])
  BY <1>6 DEF Alike
<1> QED
  BY <1>7, <1>8, <1>10, <1>11, <1>12, RequestFits

\* A request goes on that knows its row, and may have seen something.
LEMMA MoveFits ==
    ASSUME Types, Types', FitInv, NEW h \in Handlers, handler[h].pc \in Resolved,
           NEW x, x.pc \in Resolved, handler' = [handler EXCEPT ![h] = x],
           x.strategy = handler[h].strategy, x.row = handler[h].row, x.order = handler[h].order,
           x.polls \in 0 .. PollLimit, x.seen \subseteq PositionIds, x.stale = handler[h].stale,
           UNCHANGED <<posType, registry, pms, signals>>
    PROVE  FitInv'
<1>1. FitsNow(handler[h])
  BY DEF FitInv
<1>2. FitsNow(x)
  BY <1>1 DEF FitsNow, Fits, Resolved, Named, PositionIds
<1>3. x.pc \notin {"find", "create"}
  BY DEF Resolved
<1> QED
  BY <1>2, <1>3, StepFits

\* The limit is checked, ...
LEMMA CountFits ==
    ASSUME Types, Types', FitInv, NEW h \in Handlers, CountActive(h) \/ CountPending(h)
    PROVE  FitInv'
<1>1. /\ handler \in [Handlers -> HandlerRecord] /\ handler[h] \in HandlerRecord
      /\ FitsNow(handler[h]) /\ UNCHANGED <<posType, registry, pms, signals>>
      /\ handler[h].pc \in Resolved
  BY DEF Types, RequestsOK, FitInv, CountActive, CountPending, bounds, At, Resolved
<1>2. handler[h].polls \in 0 .. PollLimit /\ handler[h].seen \subseteq PositionIds
  BY <1>1 DEF FitsNow, Fits, PositionIds
<1>3. CASE CountActive(h)
  <2>1. PICK calm, active : handler' = [handler EXCEPT ![h].pc = "pending", ![h].calm = calm,
                                                     ![h].active = active]
    BY <1>3 DEF CountActive
  <2> DEFINE x == [handler[h] EXCEPT !.pc = "pending", !.calm = calm, !.active = active]
  <2>2. handler' = [handler EXCEPT ![h] = x]
    BY <1>1, <2>1 DEF HandlerRecord
  <2>3. /\ x.pc = "pending" /\ x.strategy = handler[h].strategy /\ x.row = handler[h].row
        /\ x.order = handler[h].order /\ x.polls = handler[h].polls
        /\ x.seen = handler[h].seen /\ x.stale = handler[h].stale
    BY <1>1 DEF HandlerRecord
  <2> HIDE DEF x
  <2>4. x.pc \in Resolved /\ x.polls \in 0 .. PollLimit /\ x.seen \subseteq PositionIds
    BY <1>2, <2>3 DEF Resolved
  <2> QED
    BY <1>1, <2>2, <2>3, <2>4, MoveFits
<1>4. CASE CountPending(h) /\ WithinLimit(h)
  <2> DEFINE x == [handler[h] EXCEPT !.active = 0, !.pc = "invalidate"]
  <2>1. handler' = [handler EXCEPT ![h].active = 0, ![h].pc = "invalidate"]
    BY <1>4 DEF CountPending
  <2>2. handler' = [handler EXCEPT ![h] = x]
    BY <1>1, <2>1 DEF HandlerRecord
  <2>3. /\ x.pc = "invalidate" /\ x.strategy = handler[h].strategy /\ x.row = handler[h].row
        /\ x.order = handler[h].order /\ x.polls = handler[h].polls
        /\ x.seen = handler[h].seen /\ x.stale = handler[h].stale
    BY <1>1 DEF HandlerRecord
  <2> HIDE DEF x
  <2>4. x.pc \in Resolved /\ x.polls \in 0 .. PollLimit /\ x.seen \subseteq PositionIds
    BY <1>2, <2>3 DEF Resolved
  <2> QED
    BY <1>1, <2>2, <2>3, <2>4, MoveFits
<1>5. CASE CountPending(h) /\ ~WithinLimit(h)
  BY <1>1, <1>5, AnswerFits DEF CountPending
<1> QED
  BY <1>3, <1>4, <1>5

\* ... the positions on the other side are looked for, ...
LEMMA QueryFits ==
    ASSUME Types, Types', FitInv, NEW h \in Handlers, QueryReverse(h) \/ QueryClose(h)
    PROVE  FitInv'
<1>1. /\ handler \in [Handlers -> HandlerRecord] /\ handler[h] \in HandlerRecord
      /\ FitsNow(handler[h]) /\ UNCHANGED <<posType, registry, pms, signals>>
      /\ handler[h].pc \in Resolved
  BY DEF Types, RequestsOK, FitInv, QueryReverse, QueryClose, bounds, At, Resolved
<1>2. CASE QueryReverse(h)
  <2>1. PICK seen : seen = {p \in ActiveOf(handler[h].row) : SideOf(p) = CloseSide(handler[h].action)}
    OBVIOUS
  <2>2. PICK pc : pc = IF Found(h) = {} THEN "count" ELSE "close"
    OBVIOUS
  <2>3. handler' = [handler EXCEPT ![h].seen = seen, ![h].pc = pc]
    BY <1>2, <2>1, <2>2 DEF QueryReverse
  <2>4. pc \in Resolved /\ seen \subseteq PositionIds
    BY <2>1, <2>2 DEF Resolved, ActiveOf
  <2> DEFINE x == [handler[h] EXCEPT !.seen = seen, !.pc = pc]
  <2>5. handler' = [handler EXCEPT ![h] = x]
    BY <1>1, <2>3 DEF HandlerRecord
  <2>6. /\ x.pc = pc /\ x.strategy = handler[h].strategy /\ x.row = handler[h].row
        /\ x.order = handler[h].order /\ x.polls = handler[h].polls
        /\ x.seen = seen /\ x.stale = handler[h].stale
    BY <1>1 DEF HandlerRecord
  <2> HIDE DEF x
  <2>7. x.pc \in Resolved /\ x.polls \in 0 .. PollLimit /\ x.seen \subseteq PositionIds
    BY <1>1, <2>4, <2>6 DEF FitsNow, Fits
  <2> QED
    BY <1>1, <2>5, <2>6, <2>7, MoveFits
<1>3. CASE QueryClose(h)
  <2>1. Goto(h, "wait") \/ Goto(h, "rule") \/ Answer(h)
    BY <1>3 DEF QueryClose, Closed
  <2>2. "wait" \in Resolved /\ "rule" \in Resolved
    BY DEF Resolved
  <2> QED
    BY <1>1, <2>1, <2>2, GotoFits, AnswerFits
<1> QED
  BY <1>2, <1>3

\* ... and polled, at most as often as there are polls.
LEMMA PollFits ==
    ASSUME Types, Types', FitInv, NEW h \in Handlers, Poll(h)
    PROVE  FitInv'
<1>1. /\ handler \in [Handlers -> HandlerRecord] /\ handler[h] \in HandlerRecord
      /\ FitsNow(handler[h]) /\ UNCHANGED <<posType, registry, pms, signals>>
      /\ handler[h].pc \in Resolved /\ handler[h].pc = "wait"
  BY DEF Types, RequestsOK, FitInv, Poll, bounds, At, Resolved
<1>2. handler[h].polls \in 0 .. PollLimit /\ handler[h].seen \subseteq PositionIds
  BY <1>1 DEF FitsNow, Fits, PositionIds
<1>3. PollLimit \in Nat
  BY BoundsAssumption
<1>4. ASSUME NEW polls \in 0 .. PollLimit, NEW pc \in {"count", "wait"},
             handler' = [handler EXCEPT ![h].polls = polls, ![h].pc = pc]
      PROVE  FitInv'
  <2> DEFINE x == [handler[h] EXCEPT !.polls = polls, !.pc = pc]
  <2>1. handler' = [handler EXCEPT ![h] = x]
    BY <1>1, <1>4 DEF HandlerRecord
  <2>2. /\ x.pc = pc /\ x.strategy = handler[h].strategy /\ x.row = handler[h].row
        /\ x.order = handler[h].order /\ x.polls = polls
        /\ x.seen = handler[h].seen /\ x.stale = handler[h].stale
    BY <1>1 DEF HandlerRecord
  <2> HIDE DEF x
  <2>3. x.pc \in Resolved /\ x.polls \in 0 .. PollLimit /\ x.seen \subseteq PositionIds
    BY <1>2, <2>2 DEF Resolved
  <2> QED
    BY <1>1, <2>1, <2>2, <2>3, MoveFits
<1>5. CASE Found(h) = {}
  <2>1. handler' = [handler EXCEPT ![h].polls = 0, ![h].pc = "count"]
    BY <1>5 DEF Poll
  <2>2. 0 \in 0 .. PollLimit
    BY <1>3
  <2> QED
    BY <1>4, <2>1, <2>2
<1>6. CASE Found(h) # {} /\ handler[h].polls < PollLimit - 1
  <2>1. PICK polls : polls = handler[h].polls + 1
    OBVIOUS
  <2>2. polls \in 0 .. PollLimit
    BY <1>2, <1>3, <1>6, <2>1
  <2>3. handler' = [handler EXCEPT ![h].polls = polls]
    BY <1>6, <2>1 DEF Poll
  <2>4. handler' = [handler EXCEPT ![h].polls = polls, ![h].pc = "wait"]
    BY <1>1, <2>3 DEF HandlerRecord
  <2> QED
    BY <1>4, <2>2, <2>4
<1>7. CASE Found(h) # {} /\ ~(handler[h].polls < PollLimit - 1)
  BY <1>1, <1>7, AnswerFits DEF Poll
<1> QED
  BY <1>5, <1>6, <1>7

\* The user strategy is created.
LEMMA CreateUserStrategyFits ==
    ASSUME Types, Types', FitInv, NEW h \in Handlers, CreateUserStrategy(h)
    PROVE  FitInv'
<1>1. /\ handler \in [Handlers -> HandlerRecord] /\ FitsNow(handler[h])
      /\ handler[h].pc = "createUser" /\ strategies \in Nat
      /\ Len(userStrategies) \in Nat /\ Len(orders) \in Nat
      /\ Len(positions) \in Nat /\ Len(rules) \in Nat
      /\ UNCHANGED <<posType, strategies, orders, positions, rules, resets, signals>>
  BY Sizes DEF Types, RequestsOK, FitInv, CreateUserStrategy, At, pms, bounds
<1>2. PICK s : s = handler[h].strategy
  OBVIOUS
<1>3. s \in 1 .. strategies
  BY <1>1, <1>2 DEF FitsNow, Fits, Named
<1>4. /\ userStrategies' \in Seq(1 .. strategies)
      /\ Len(userStrategies') = Len(userStrategies) + 1
  BY <1>2, <1>3, AppendProperties DEF CreateUserStrategy, FitInv, TablesFit
<1>5. PICK row \in Nat \ {0} : row = Len(userStrategies')
  BY <1>1, <1>4
<1>6. Dispatch(h, row)
  BY <1>5 DEF CreateUserStrategy
<1>7. PICK x : /\ handler' = [handler EXCEPT ![h] = x]
               /\ x.pc \in Resolved /\ x.pc \notin {"find", "create"}
               /\ x.strategy = 0 /\ x.row = row
               /\ x.order = handler[h].order /\ x.polls = handler[h].polls
               /\ x.seen = handler[h].seen /\ x.stale = handler[h].stale
  BY <1>1, <1>6, DispatchFits
<1>8. handler'[h] = x /\ \A g \in Handlers \ {h} : handler'[g] = handler[g]
  BY <1>1, <1>7
<1>9. TablesGrow
  BY <1>1, <1>4 DEF TablesGrow
<1>10. TablesFit'
  <2>1. 1 .. Len(userStrategies) \subseteq 1 .. Len(userStrategies')
    BY <1>1, <1>4
  <2> QED
    BY <1>1, <1>4, <2>1
       DEF FitInv, TablesFit, OrderIds, PositionIds, RuleIds, OrderFits, RuleFits
<1>11. NamesCounted'
  <2>1. Nameless' \subseteq Nameless
    BY <1>7, <1>8 DEF Nameless
  <2> QED
    BY <1>1, <2>1, FewerNames
<1>12. FitsNow(handler[h])'
  <2>1. Fits(x, strategies, Len(userStrategies'), Len(orders), Len(positions), Len(rules))
    <3>1. row \in 0 .. Len(userStrategies') /\ 0 \in 0 .. strategies
      BY <1>1, <1>4, <1>5
    <3> QED
      BY <1>1, <1>5, <1>7, <3>1 DEF FitsNow, Fits, Resolved, Named
  <2> QED
    BY <1>1, <1>8, <2>1 DEF FitsNow
<1>13. \A g \in Handlers \ {h} : Alike(handler'[g], handler[g])
  BY <1>8 DEF Alike
<1> QED
  BY <1>9, <1>10, <1>11, <1>12, <1>13, RequestFits

\* Steps that lengthen no table, and leave the rows, the histories and the targets.
KeepsRules ==
    /\ Len(rules') = Len(rules)
    /\ \A r \in RuleIds : rules'[r].row = rules[r].row /\ rules'[r].targets = rules[r].targets

LEMMA SameLength == ASSUME NEW m \in Nat, NEW n \in Nat, 1 .. m = 1 .. n PROVE m = n
<1>1. m > 0 => m \in 1 .. n
  OBVIOUS
<1>2. n > 0 => n \in 1 .. m
  OBVIOUS
<1> QED
  BY <1>1, <1>2

LEMMA KeepTables ==
    ASSUME Types, Types', FitInv, UNCHANGED <<posType, registry>>,
           OrdersGrow, OrderIds' = OrderIds, PositionIds' = PositionIds,
           \A p \in PositionIds : positions'[p].closing \in 0 .. Len(rules),
           KeepsRules, resets' \subseteq 1 .. Len(userStrategies)
    PROVE  TablesFit' /\ TablesGrow
<1>1. /\ strategies \in Nat /\ Len(userStrategies) \in Nat /\ Len(orders) \in Nat
      /\ Len(positions) \in Nat /\ Len(rules) \in Nat
  BY Sizes
<1>2. Len(orders') \in Nat /\ Len(positions') \in Nat
  BY LenProperties DEF Types, TablesOK
<1>3. Len(orders') = Len(orders) /\ Len(positions') = Len(positions)
  BY <1>1, <1>2, SameLength DEF OrderIds, PositionIds
<1>4. strategies' = strategies /\ userStrategies' = userStrategies /\ posType' = posType
  BY DEF registry
<1>5. RuleIds' = RuleIds /\ Len(rules') = Len(rules)
  BY DEF KeepsRules, RuleIds
<1>6. \A o \in OrderIds : OrderFits(orders'[o], Len(userStrategies), Len(rules))
  BY DEF FitInv, TablesFit, OrdersGrow, OrderFits
<1>7. \A r \in RuleIds : RuleFits(rules'[r], Len(userStrategies), Len(positions))
  BY DEF FitInv, TablesFit, KeepsRules, RuleFits
<1>8. TablesFit'
  BY <1>3, <1>4, <1>5, <1>6, <1>7 DEF FitInv, TablesFit
<1>9. TablesGrow
  BY <1>1, <1>3, <1>4, <1>5 DEF TablesGrow
<1> QED
  BY <1>8, <1>9

LEMMA StatusKeeps ==
    ASSUME TablesOK, NEW row, NEW status, rules' = WithStatus(row, status)
    PROVE  KeepsRules
<1> DEFINE f(r) == IF rules[r].row = row THEN [rules[r] EXCEPT !.status = status] ELSE rules[r]
<1>1. \A r \in RuleIds : /\ f(r).row = rules[r].row /\ f(r).targets = rules[r].targets
  BY Lengths DEF RuleRecord
<1>2. rules' = [r \in 1 .. Len(rules) |-> f(r)]
  BY DEF WithStatus, RuleIds
<1> HIDE DEF f
<1>3. Len(rules') = Len(rules)
  <2>1. PICK n \in Nat : n = Len(rules)
    BY Lengths
  <2>2. rules' \in Seq(Range(rules'))
    BY <1>2, <2>1, SeqDef DEF Range
  <2>3. DOMAIN rules' = 1 .. n
    BY <1>2, <2>1
  <2>4. Len(rules') \in Nat /\ DOMAIN rules' = 1 .. Len(rules')
    BY <2>2, LenProperties
  <2> QED
    BY <2>1, <2>3, <2>4, SameLength
<1>4. \A r \in RuleIds : rules'[r] = f(r)
  BY <1>2 DEF RuleIds
<1> QED
  BY <1>1, <1>3, <1>4 DEF KeepsRules

LEMMA SameRules == ASSUME UNCHANGED rules PROVE KeepsRules
  BY DEF KeepsRules

LEMMA DeactivateKeeps ==
    ASSUME TablesOK, NEW row, rules' = Deactivate(row)
    PROVE  KeepsRules
  BY StatusKeeps, SameRules DEF Deactivate

\* The rules that are stale from now on.
LEMMA InvalidateFits ==
    ASSUME Types, Types', FitInv, NEW h \in Handlers, InvalidateRules(h)
    PROVE  FitInv'
<1>1. /\ handler \in [Handlers -> HandlerRecord] /\ handler[h] \in HandlerRecord /\ TablesOK
      /\ FitsNow(handler[h]) /\ UNCHANGED <<posType, registry, orders, positions, resets, signals>>
      /\ handler[h].pc = "invalidate"
  BY DEF Types, RequestsOK, FitInv, InvalidateRules, bounds, At
<1>2. PICK row : row = handler[h].row
  OBVIOUS
<1>3. KeepsRules
  BY <1>1, <1>2, DeactivateKeeps DEF InvalidateRules
<1>4. OrdersGrow /\ OrderIds' = OrderIds /\ PositionIds' = PositionIds
  BY <1>1, SameTables
<1>5. TablesFit' /\ TablesGrow
  BY <1>1, <1>3, <1>4, KeepTables DEF FitInv, TablesFit
<1>6. PICK stale \in SUBSET RuleIds :
        handler' = [handler EXCEPT ![h].pc = "order", ![h].stale = stale]
  BY DEF InvalidateRules
<1> DEFINE x == [handler[h] EXCEPT !.pc = "order", !.stale = stale]
<1>7. handler' = [handler EXCEPT ![h] = x]
  BY <1>1, <1>6 DEF HandlerRecord
<1>8. /\ x.pc = "order" /\ x.strategy = handler[h].strategy /\ x.row = handler[h].row
      /\ x.order = handler[h].order /\ x.polls = handler[h].polls
      /\ x.seen = handler[h].seen /\ x.stale = stale
  BY <1>1 DEF HandlerRecord
<1> HIDE DEF x
<1>9. handler'[h] = x /\ \A g \in Handlers \ {h} : handler'[g] = handler[g]
  BY <1>1, <1>7
<1>10. NamesCounted'
  <2>1. Nameless' \subseteq Nameless
    BY <1>8, <1>9 DEF Nameless
  <2> QED
    BY <1>1, <2>1, FewerNames DEF registry
<1>11. FitsNow(x)
  BY <1>1, <1>6, <1>8 DEF FitsNow, Fits, Named, Resolved, RuleIds
<1>12. FitsNow(handler[h])'
  <2>1. strategies' = strategies /\ userStrategies' = userStrategies /\ Len(rules') = Len(rules)
    BY <1>1, <1>3 DEF registry, KeepsRules
  <2> QED
    BY <1>1, <1>9, <1>11, <2>1 DEF FitsNow
<1>13. \A g \in Handlers \ {h} : Alike(handler'[g], handler[g])
  BY <1>9 DEF Alike
<1> QED
  BY <1>5, <1>10, <1>12, <1>13, RequestFits

\* What is disturbed stays alike.
LEMMA DisturbAlike ==
    ASSUME handler \in [Handlers -> HandlerRecord], NEW row, NEW pcs
    PROVE  \A g \in Handlers : Alike(Disturb(handler, row, pcs)[g], handler[g])
<1>1. \A g \in Handlers : handler[g] \in HandlerRecord
  OBVIOUS
<1> QED
  BY <1>1 DEF Disturb, Alike, HandlerRecord

\* An order is created, ...
LEMMA CreateOrderFits ==
    ASSUME Types, Types', FitInv, NEW h \in Handlers, CreateUserOrder(h)
    PROVE  FitInv'
<1>1. /\ handler \in [Handlers -> HandlerRecord] /\ handler[h] \in HandlerRecord
      /\ FitsNow(handler[h]) /\ handler[h].pc = "order"
      /\ UNCHANGED <<posType, strategies, userStrategies, positions, rules, resets, signals>>
  BY DEF Types, RequestsOK, FitInv, CreateUserOrder, bounds, At, registry
<1>2. /\ strategies \in Nat /\ Len(userStrategies) \in Nat /\ Len(orders) \in Nat
      /\ Len(positions) \in Nat /\ Len(rules) \in Nat
  BY Sizes
<1>3. /\ OrdersGrow /\ Len(orders') = Len(orders) + 1
      /\ orders'[Len(orders) + 1] = Order(handler[h].row, OpenSide(handler[h].action),
                                          handler[h].stale, handler[h].calm)
  BY CreateOrderTables DEF Grow
<1>4. \A o \in OrderIds : OrderFits(orders'[o], Len(userStrategies), Len(rules))
  BY <1>3 DEF FitInv, TablesFit, OrdersGrow, OrderFits
<1>5. OrderFits(orders'[Len(orders) + 1], Len(userStrategies), Len(rules))
  <2>1. handler[h].row \in 1 .. Len(userStrategies) /\ handler[h].stale \subseteq 1 .. Len(rules)
    BY <1>1, <1>2 DEF FitsNow, Fits, Resolved
  <2> QED
    BY <1>3, <2>1 DEF OrderFits, Order
<1>6. \A o \in OrderIds' : OrderFits(orders'[o], Len(userStrategies), Len(rules))
  BY <1>2, <1>3, <1>4, <1>5 DEF OrderIds
<1>7. TablesFit' /\ TablesGrow
  BY <1>1, <1>2, <1>3, <1>6 DEF FitInv, TablesFit, TablesGrow, PositionIds, RuleIds
<1> DEFINE d == Disturb(handler, handler[h].row, {"invalidate", "order"})
<1>8. PICK n : n = Len(orders')
  OBVIOUS
<1>9. handler' = [d EXCEPT ![h].pc = "place", ![h].order = n, ![h].calm = TRUE, ![h].stale = {}]
  BY <1>8 DEF CreateUserOrder
<1>10. \A g \in Handlers : Alike(d[g], handler[g])
  <2>1. PICK row : row = handler[h].row
    OBVIOUS
  <2> QED
    BY <1>1, <2>1, DisturbAlike
<1>11. d \in [Handlers -> HandlerRecord]
  <2>1. PICK row : row = handler[h].row
    OBVIOUS
  <2> QED
    BY <1>1, <2>1, DisturbFacts
<1> HIDE DEF d
<1> DEFINE x == [d[h] EXCEPT !.pc = "place", !.order = n, !.calm = TRUE, !.stale = {}]
<1>12. handler' = [d EXCEPT ![h] = x]
  BY <1>9, <1>11 DEF HandlerRecord
<1>13. /\ x.pc = "place" /\ x.strategy = handler[h].strategy /\ x.row = handler[h].row
       /\ x.order = n /\ x.polls = handler[h].polls
       /\ x.seen = handler[h].seen /\ x.stale = {}
  <2>1. d[h] \in HandlerRecord
    BY <1>11
  <2> QED
    BY <1>10, <2>1 DEF HandlerRecord, Alike
<1> HIDE DEF x
<1>14. handler'[h] = x /\ \A g \in Handlers \ {h} : handler'[g] = d[g]
  BY <1>11, <1>12
<1>15. NamesCounted'
  <2>1. Nameless' \subseteq Nameless
    BY <1>10, <1>13, <1>14 DEF Nameless, Alike
  <2> QED
    BY <1>1, <2>1, FewerNames
<1>16. FitsNow(handler[h])'
  <2>1. n \in 0 .. n
    BY <1>2, <1>3, <1>8
  <2>2. Fits(x, strategies, Len(userStrategies), n, Len(positions), Len(rules))
    BY <1>1, <1>13, <2>1 DEF FitsNow, Fits, Named, Resolved
  <2> QED
    BY <1>1, <1>8, <1>14, <2>2 DEF FitsNow
<1>17. \A g \in Handlers \ {h} : Alike(handler'[g], handler[g])
  BY <1>10, <1>14
<1> QED
  BY <1>7, <1>15, <1>16, <1>17, RequestFits

\* ... placed, or refused.
LEMMA PlaceFits ==
    ASSUME Types, Types', FitInv, NEW h \in Handlers, PlaceOrder(h) \/ PlaceFails(h)
    PROVE  FitInv'
<1>1. /\ handler \in [Handlers -> HandlerRecord] /\ TablesOK /\ Answer(h)
      /\ UNCHANGED <<posType, registry, positions, rules, resets, signals>>
  BY DEF Types, RequestsOK, PlaceOrder, PlaceFails, bounds
<1>2. OrdersGrow /\ OrderIds' = OrderIds
  BY PlaceTables DEF Grow
<1>3. PositionIds' = PositionIds /\ KeepsRules
  BY <1>1, SameRules DEF PositionIds
<1>4. TablesFit' /\ TablesGrow
  BY <1>1, <1>2, <1>3, KeepTables DEF FitInv, TablesFit
<1>5. handler'[h] = Idle /\ \A g \in Handlers \ {h} : handler'[g] = handler[g]
  BY <1>1 DEF Answer
<1>6. NamesCounted'
  <2>1. Nameless' \subseteq Nameless
    BY <1>5, IdleFits DEF Nameless
  <2> QED
    BY <1>1, <2>1, FewerNames DEF registry
<1>7. FitsNow(handler[h])'
  <2>1. 0 \in 0 .. PollLimit
    BY BoundsAssumption
  <2>2. /\ strategies' \in Nat /\ Len(userStrategies') \in Nat /\ Len(orders') \in Nat
        /\ Len(positions') \in Nat /\ Len(rules') \in Nat
    BY LenProperties DEF Types, TablesOK
  <2> QED
    BY <1>5, <2>1, <2>2 DEF FitsNow, Fits, Idle, Named, Resolved
<1>8. \A g \in Handlers \ {h} : Alike(handler'[g], handler[g])
  BY <1>5 DEF Alike
<1> QED
  BY <1>4, <1>6, <1>7, <1>8, RequestFits

\* A close rule is created.
LEMMA CreateRuleFits ==
    ASSUME Types, Types', FitInv, NEW h \in Handlers, CreateRule(h)
    PROVE  FitInv'
<1>1. /\ handler \in [Handlers -> HandlerRecord] /\ handler[h] \in HandlerRecord /\ TablesOK
      /\ FitsNow(handler[h]) /\ handler[h].pc = "rule"
      /\ UNCHANGED <<posType, strategies, userStrategies, orders, positions, resets, signals>>
  BY DEF Types, RequestsOK, FitInv, CreateRule, bounds, At, registry
<1>2. /\ strategies \in Nat /\ Len(userStrategies) \in Nat /\ Len(orders) \in Nat
      /\ Len(positions) \in Nat /\ Len(rules) \in Nat
  BY Sizes
<1> DEFINE y == Rule(handler[h].row, Found(h))
<1>3. RuleFits(y, Len(userStrategies), Len(positions))
  <2>1. Found(h) \subseteq 1 .. Len(positions)
    BY DEF Found, Queried, ActiveOf, PositionIds
  <2>2. handler[h].row \in 1 .. Len(userStrategies)
    BY <1>1, <1>2 DEF FitsNow, Fits, Resolved
  <2> QED
    BY <2>1, <2>2 DEF RuleFits, Rule
<1>4. rules' = Append(rules, y)
  BY DEF CreateRule
<1> HIDE DEF y
<1>5. /\ Len(rules') = Len(rules) + 1 /\ \A r \in RuleIds : rules'[r] = rules[r]
      /\ rules'[Len(rules) + 1] = y
  <2>1. rules \in Seq(RuleRecord \cup {y})
    BY <1>1, SeqMonotonic DEF TablesOK
  <2> QED
    BY <1>4, <2>1, AppendProperties DEF RuleIds
<1>6. \A r \in RuleIds' : RuleFits(rules'[r], Len(userStrategies), Len(positions))
  BY <1>2, <1>3, <1>5 DEF FitInv, TablesFit, RuleIds
<1>7. 0 .. Len(rules) \subseteq 0 .. Len(rules') /\ 1 .. Len(rules) \subseteq 1 .. Len(rules')
  BY <1>2, <1>5
<1>8. TablesFit' /\ TablesGrow
  BY <1>1, <1>2, <1>5, <1>6, <1>7
     DEF FitInv, TablesFit, TablesGrow, OrderFits, OrderIds, PositionIds
<1>9. PICK x : /\ handler' = [handler EXCEPT ![h] = x]
               /\ FitsNow(x) /\ x.pc \notin {"find", "create"}
  <2>1. CASE Answer(h)
    BY <2>1, IdleFits DEF Answer
  <2>2. CASE Goto(h, "wait")
    <3> DEFINE z == [handler[h] EXCEPT !.pc = "wait"]
    <3>1. handler' = [handler EXCEPT ![h] = z]
      BY <2>2 DEF Goto
    <3>2. /\ z.pc = "wait" /\ z.strategy = handler[h].strategy /\ z.row = handler[h].row
          /\ z.order = handler[h].order /\ z.polls = handler[h].polls
          /\ z.seen = handler[h].seen /\ z.stale = handler[h].stale
      BY <1>1 DEF HandlerRecord
    <3> HIDE DEF z
    <3>3. FitsNow(z)
      BY <1>1, <3>2 DEF FitsNow, Fits, Named, Resolved
    <3> QED
      BY <3>1, <3>2, <3>3
  <2> QED
    BY <2>1, <2>2 DEF CreateRule, Closed
<1>10. handler'[h] = x /\ \A g \in Handlers \ {h} : handler'[g] = handler[g]
  BY <1>1, <1>9
<1>11. NamesCounted'
  <2>1. Nameless' \subseteq Nameless
    BY <1>9, <1>10 DEF Nameless
  <2> QED
    BY <1>1, <2>1, FewerNames
<1>12. FitsNow(handler[h])'
  <2>1. Fits(x, strategies, Len(userStrategies), Len(orders), Len(positions), Len(rules'))
    BY <1>7, <1>9 DEF FitsNow, Fits
  <2> QED
    BY <1>1, <1>10, <2>1 DEF FitsNow
<1>13. \A g \in Handlers \ {h} : Alike(handler'[g], handler[g])
  BY <1>10 DEF Alike
<1> QED
  BY <1>8, <1>11, <1>12, <1>13, RequestFits

\* Steps of the PMS, which leave the requests alike.
LEMMA PmsFits ==
    ASSUME Types, Types', FitInv, UNCHANGED <<posType, registry, signals>>,
           OrdersGrow, OrderIds' = OrderIds, PositionIds' = PositionIds,
           \A p \in PositionIds : positions'[p].closing \in 0 .. Len(rules),
           KeepsRules, resets' \subseteq 1 .. Len(userStrategies),
           \A g \in Handlers : Alike(handler'[g], handler[g])
    PROVE  FitInv'
<1>1. TablesFit' /\ TablesGrow
  BY KeepTables
<1> QED
  BY <1>1, AlikeFit DEF registry

\* A position is opened, ...
LEMMA FillFits ==
    ASSUME Types, Types', FitInv, NEW o \in OrderIds, Fill(o)
    PROVE  FitInv'
<1>1. UNCHANGED <<posType, strategies, userStrategies, orders, rules, resets, handler, signals>>
  BY DEF Fill, registry, bounds
<1>2. /\ strategies \in Nat /\ Len(userStrategies) \in Nat /\ Len(orders) \in Nat
      /\ Len(positions) \in Nat /\ Len(rules) \in Nat
  BY Sizes
<1>3. /\ Len(positions') = Len(positions) + 1
      /\ \A p \in PositionIds : positions'[p] = positions[p]
      /\ positions'[Len(positions) + 1].closing = 0
  <2>1. /\ Len(positions') = Len(positions) + 1
        /\ \A p \in PositionIds : positions'[p] = positions[p]
        /\ positions'[Len(positions) + 1] = Position(o)
    BY FillTables
  <2>2. Position(o).closing = 0
    BY DEF Position
  <2> QED
    BY <2>1, <2>2
<1>4. 1 .. Len(positions) \subseteq 1 .. Len(positions') /\ 0 \in 0 .. Len(rules)
  BY <1>2, <1>3
<1>5. ASSUME NEW p \in PositionIds' PROVE positions'[p].closing \in 0 .. Len(rules)
  <2>1. p \in PositionIds \/ p = Len(positions) + 1
    BY <1>2, <1>3 DEF PositionIds
  <2>2. \A j \in PositionIds : positions[j].closing \in 0 .. Len(rules)
    BY DEF FitInv, TablesFit
  <2> QED
    BY <1>3, <1>4, <2>1, <2>2
<1>6. \A r \in RuleIds : RuleFits(rules[r], Len(userStrategies), Len(positions'))
  BY <1>4 DEF FitInv, TablesFit, RuleFits
<1>7. TablesFit'
  BY <1>1, <1>5, <1>6 DEF FitInv, TablesFit, OrderIds, RuleIds
<1>8. TablesGrow
  BY <1>1, <1>2, <1>3 DEF TablesGrow
<1>9. \A g \in Handlers : Alike(handler'[g], handler[g])
  BY <1>1 DEF Alike
<1> QED
  BY <1>1, <1>7, <1>8, <1>9, AlikeFit

\* ... the UOS told of it, or not, ...
LEMMA NotifyFits ==
    ASSUME Types, Types', FitInv, NEW p \in PositionIds, NotifyFilled(p) \/ LoseNotification(p)
    PROVE  FitInv'
<1>1. UNCHANGED <<posType, registry, rules, resets, signals>>
  BY DEF NotifyFilled, LoseNotification, bounds
<1>2. /\ OrdersGrow /\ OrderIds' = OrderIds /\ PositionIds' = PositionIds
      /\ \A j \in PositionIds : positions'[j].closing = positions[j].closing
  BY NotifyTables DEF Grow
<1>3. \A j \in PositionIds : positions'[j].closing \in 0 .. Len(rules)
  BY <1>2 DEF FitInv, TablesFit
<1>4. handler \in [Handlers -> HandlerRecord]
  BY DEF Types, RequestsOK
<1>5. \A g \in Handlers : Alike(handler'[g], handler[g])
  <2>1. CASE UNCHANGED handler
    BY <2>1 DEF Alike
  <2>2. CASE NotifyFilled(p)
    <3>1. PICK row : row = RowOf(p)
      OBVIOUS
    <3> QED
      BY <1>4, <2>2, <3>1, DisturbAlike DEF NotifyFilled
  <2> QED
    BY <2>1, <2>2 DEF LoseNotification
<1>6. resets' \subseteq 1 .. Len(userStrategies)
  BY <1>1 DEF FitInv, TablesFit
<1> QED
  BY <1>1, <1>2, <1>3, <1>5, <1>6, SameRules, PmsFits

\* ... it is closed, and the rules of its row reset.
LEMMA FillCloseFits ==
    ASSUME Types, Types', FitInv, NEW p \in PositionIds, FillClose(p)
    PROVE  FitInv'
<1>1. UNCHANGED <<posType, registry, orders, rules, handler, signals>> /\ TablesOK
  BY DEF FillClose, bounds, Types
<1>2. /\ PositionIds' = PositionIds
      /\ \A j \in PositionIds : positions'[j].closing = positions[j].closing
  BY FillCloseTables
<1>3. \A j \in PositionIds : positions'[j].closing \in 0 .. Len(rules)
  BY <1>2 DEF FitInv, TablesFit
<1>4. RowOf(p) \in 1 .. Len(userStrategies)
  BY <1>1 DEF RowOf, TablesOK, FitInv, TablesFit, OrderFits
<1>5. resets' \subseteq 1 .. Len(userStrategies)
  BY <1>4 DEF FillClose, FitInv, TablesFit
<1>6. \A g \in Handlers : Alike(handler'[g], handler[g])
  BY <1>1 DEF Alike
<1>7. OrdersGrow /\ OrderIds' = OrderIds
  BY <1>1, SameTables
<1> QED
  BY <1>1, <1>2, <1>3, <1>5, <1>6, <1>7, SameRules, PmsFits

\* Steps that leave the orders and positions alone.
LEMMA RulesFit ==
    ASSUME Types, Types', FitInv, UNCHANGED <<posType, registry, orders, positions, handler, signals>>,
           KeepsRules, resets' \subseteq resets
    PROVE  FitInv'
<1>1. OrdersGrow /\ OrderIds' = OrderIds /\ PositionIds' = PositionIds
  BY SameTables DEF Types
<1>2. \A g \in Handlers : Alike(handler'[g], handler[g])
  BY DEF Alike
<1> QED
  BY <1>1, <1>2, PmsFits DEF FitInv, TablesFit

\* Close orders get the rule that is applied.
LEMMA PlaceClosesFits ==
    ASSUME Types, Types', FitInv, PlaceCloses
    PROVE  FitInv'
<1>1. UNCHANGED <<posType, registry, orders, handler, resets, signals>> /\ TablesOK
  BY DEF PlaceCloses, bounds, Types
<1>2. /\ PositionIds' = PositionIds
      /\ \A j \in PositionIds : \/ positions'[j].closing = positions[j].closing
                                \/ positions'[j].closing = cycle.rule
  BY PlaceClosesTables
<1>3. Len(rules) \in Nat /\ cycle.rule \in RuleIds /\ cycle.rule \in 0 .. Len(rules)
  <2>1. Len(rules) \in Nat /\ CycleOK(cycle, Len(rules)) /\ cycle.pc = "place"
    BY <1>1, Lengths DEF TablesOK, PlaceCloses
  <2>2. cycle.rule \in 1 .. Len(rules)
    BY <2>1, CycleFacts
  <2> QED
    BY <2>1, <2>2 DEF RuleIds
<1>4. \A j \in PositionIds : positions'[j].closing \in 0 .. Len(rules)
  BY <1>2, <1>3 DEF FitInv, TablesFit
<1>5. KeepsRules
  <2>1. CASE UNCHANGED rules
    BY <2>1, SameRules
  <2>2. CASE rules' = [rules EXCEPT ![cycle.rule].used = TRUE]
    <3>1. PICK r \in RuleIds : r = cycle.rule
      BY <1>3
    <3> DEFINE x == [rules[r] EXCEPT !.used = TRUE]
    <3>2. rules' = [rules EXCEPT ![r] = x]
      BY <2>2, <3>1
    <3>3. x \in RuleRecord /\ x.row = rules[r].row /\ x.targets = rules[r].targets
      <4>1. rules[r] \in RuleRecord
        BY <1>1, Lengths
      <4> QED
        BY <4>1 DEF RuleRecord
    <3> HIDE DEF x
    <3>4. /\ Len(rules') = Len(rules)
          /\ \A j \in RuleIds : rules'[j] = IF j = r THEN x ELSE rules[j]
      BY <1>1, <3>2, <3>3, ExceptSeq DEF TablesOK, RuleIds
    <3> QED
      BY <3>3, <3>4 DEF KeepsRules
  <2> QED
    BY <2>1, <2>2 DEF PlaceCloses
<1>6. \A g \in Handlers : Alike(handler'[g], handler[g])
  BY <1>1 DEF Alike
<1>7. OrdersGrow /\ OrderIds' = OrderIds
  BY <1>1, SameTables
<1>8. resets' \subseteq 1 .. Len(userStrategies)
  BY <1>1 DEF FitInv, TablesFit
<1> QED
  BY <1>1, <1>2, <1>4, <1>5, <1>6, <1>7, <1>8, PmsFits

LEMMA CycleFits == ASSUME Types, Types', FitInv, Cycle PROVE FitInv'
<1>1. CASE CycleEvaluate \/ ApplyStart
  <2>1. UNCHANGED <<posType, registry, orders, positions, rules, handler, resets, signals>>
    BY <1>1 DEF CycleEvaluate, ApplyStart, bounds
  <2> QED
    BY <2>1, SameRules, RulesFit
<1>2. CASE MarkInUse
  <2>1. UNCHANGED <<posType, registry, orders, positions, handler, resets, signals>>
    BY <1>2 DEF MarkInUse, bounds
  <2>2. PICK row : row = rules[cycle.rule].row
    OBVIOUS
  <2>3. rules' = WithStatus(row, "in_use")
    BY <1>2, <2>2 DEF MarkInUse
  <2> QED
    BY <2>1, <2>3, StatusKeeps, RulesFit DEF Types
<1> QED
  BY <1>1, <1>2, PlaceClosesFits DEF Cycle

LEMMA ResetFits ==
    ASSUME Types, Types', FitInv, NEW row, ResetRules(row)
    PROVE  FitInv'
<1>1. /\ UNCHANGED <<posType, registry, orders, positions, handler, signals>>
      /\ rules' = WithStatus(row, "inactive") /\ resets' \subseteq resets
  BY DEF ResetRules, bounds
<1> QED
  BY <1>1, StatusKeeps, RulesFit DEF Types

\* Every step keeps the bounds of the types.
LEMMA FitStep == Types /\ FitInv /\ [Next]_vars => FitInv'
<1> SUFFICES ASSUME Types, FitInv, [Next]_vars
             PROVE  FitInv'
  OBVIOUS
<1>1. Types'
  BY TypesStep
<1>2. ASSUME NEW h \in Handlers, RefuseOpen(h) \/ RegisterFails(h) \/ CallFails(h)
      PROVE  FitInv'
  <2>1. UNCHANGED <<posType, registry, pms, signals>> /\ Answer(h)
    BY <1>2 DEF RefuseOpen, RegisterFails, CallFails, bounds
  <2> QED
    BY <1>1, <2>1, AnswerFits
<1>3. ASSUME NEW h \in Handlers, InvalidateFails(h)
      PROVE  FitInv'
  <2>1. /\ UNCHANGED <<posType, registry, pms, signals>> /\ Goto(h, "order")
        /\ handler[h].pc \in Resolved /\ "order" \in Resolved
    BY <1>3 DEF InvalidateFails, At, Resolved
  <2> QED
    BY <1>1, <2>1, GotoFits
<1>4. ASSUME NEW h \in Handlers, Open(h) PROVE FitInv'
  BY <1>1, <1>2, <1>3, <1>4, CountFits, InvalidateFits, CreateOrderFits, PlaceFits DEF Open
<1>5. ASSUME NEW h \in Handlers, Close(h) PROVE FitInv'
  BY <1>1, <1>2, <1>5, QueryFits, CreateRuleFits, PollFits DEF Close
<1>6. ASSUME NEW h \in Handlers, (\E a \in Incoming : Receive(h, a)) \/ Resolve(h)
      PROVE  FitInv'
  BY <1>1, <1>6, ReceiveFits, FindFits, CreateStrategyFits, CreateUserStrategyFits DEF Resolve
<1>7. CASE UNCHANGED vars
  <2>1. UNCHANGED <<posType, registry, orders, positions, rules, handler, resets, signals>>
    BY <1>7 DEF vars, registry
  <2> QED
    BY <1>1, <2>1, SameRules, RulesFit
<1> QED
  BY <1>1, <1>4, <1>5, <1>6, <1>7, FillFits, NotifyFits, FillCloseFits, CycleFits, ResetFits DEF Next

\* At first the tables are empty and the requests idle.
LEMMA FitInit == Init => FitInv
<1> SUFFICES ASSUME Init PROVE FitInv
  OBVIOUS
<1>1. /\ Len(userStrategies) = 0 /\ Len(orders) = 0 /\ Len(positions) = 0 /\ Len(rules) = 0
      /\ userStrategies \in Seq(1 .. strategies)
  BY EmptySeq DEF Init
<1>2. TablesFit
  BY <1>1 DEF Init, TablesFit, OrderIds, PositionIds, RuleIds
<1>3. \A h \in Handlers : handler[h] = Idle
  BY DEF Init
<1>4. \A h \in Handlers : FitsNow(handler[h])
  BY <1>3, IdleFits, TypesInit
<1>5. Nameless = {}
  BY <1>3, IdleFits, TypesInit DEF Nameless
<1>6. NamesCounted
  BY <1>5, FS_EmptySet, BoundsAssumption DEF Init, NamesCounted
<1> QED
  BY <1>2, <1>4, <1>6 DEF FitInv

\* A sequence whose elements are in a smaller set.
LEMMA Narrow ==
    ASSUME NEW S, NEW T, NEW s \in Seq(S), \A i \in 1 .. Len(s) : s[i] \in T
    PROVE  s \in Seq(T)
<1>1. s \in [1 .. Len(s) -> S] /\ Len(s) \in Nat
  BY LenProperties
<1>2. s \in [1 .. Len(s) -> T]
  BY <1>1
<1> QED
  BY <1>1, <1>2, SeqDef

\* The types and their bounds are those of TypeOK.
LEMMA FitTypes == ASSUME Types, FitInv PROVE TypeOK
<1>1. /\ strategies \in Nat /\ Len(userStrategies) \in Nat /\ Len(orders) \in Nat
      /\ Len(positions) \in Nat /\ Len(rules) \in Nat /\ TablesOK
  BY Sizes DEF Types
<1>2. strategies \in 0 .. MaxSignals
  <2>1. /\ Cardinality(Nameless) \in Nat /\ strategies + Cardinality(Nameless) <= signals
        /\ signals \in Nat /\ signals <= MaxSignals /\ MaxSignals \in Nat
    BY FS_CardinalityType, BoundsAssumption DEF FitInv, NamesCounted
  <2> QED
    BY <1>1, <2>1
<1> DEFINE O == [row : 1 .. Len(userStrategies), side : Sides,
                 status : {"new", "filled", "failed"}, watched : BOOLEAN,
                 stale : SUBSET RuleIds, calm : BOOLEAN]
           P == [order : OrderIds, active : BOOLEAN, closing : RuleIds \cup {0}, told : BOOLEAN]
           R == [row : 1 .. Len(userStrategies), used : BOOLEAN,
                 status : {"active", "in_use", "inactive"}, targets : SUBSET PositionIds]
           H == [pc : Pcs, action : AllActions \cup {"none"}, strategy : 0 .. strategies,
                 row : 0 .. Len(userStrategies), active : Nat, order : 0 .. Len(orders),
                 polls : 0 .. PollLimit, calm : BOOLEAN, seen : SUBSET PositionIds,
                 stale : SUBSET RuleIds]
<1>3. orders \in Seq(O)
  <2>1. \A o \in 1 .. Len(orders) : orders[o] \in OrderRecord
    BY <1>1, Lengths DEF OrderIds
  <2>2. \A o \in 1 .. Len(orders) : orders[o] \in O
    BY <2>1 DEF FitInv, TablesFit, OrderFits, OrderRecord, OrderIds, RuleIds
  <2> HIDE DEF O
  <2> QED
    BY <1>1, <2>2, Narrow DEF TablesOK
<1>4. positions \in Seq(P)
  <2>1. \A p \in 1 .. Len(positions) : positions[p] \in PositionRecord /\ positions[p].order \in OrderIds
    BY <1>1, Lengths DEF PositionIds, TablesOK
  <2>2. 0 .. Len(rules) \subseteq RuleIds \cup {0}
    BY <1>1 DEF RuleIds
  <2>3. \A p \in 1 .. Len(positions) : positions[p].closing \in RuleIds \cup {0}
    BY <2>2 DEF FitInv, TablesFit, PositionIds
  <2>4. \A p \in 1 .. Len(positions) : positions[p] \in P
    BY <2>1, <2>3 DEF PositionRecord
  <2> HIDE DEF P
  <2> QED
    BY <1>1, <2>4, Narrow DEF TablesOK
<1>5. rules \in Seq(R)
  <2>1. \A r \in 1 .. Len(rules) : rules[r] \in RuleRecord
    BY <1>1, Lengths DEF RuleIds
  <2>2. \A r \in 1 .. Len(rules) : rules[r] \in R
    BY <2>1 DEF FitInv, TablesFit, RuleFits, RuleRecord, PositionIds, RuleIds
  <2> HIDE DEF R
  <2> QED
    BY <1>1, <2>2, Narrow DEF TablesOK
<1>6. handler \in [Handlers -> H]
  <2>1. handler \in [Handlers -> HandlerRecord]
    BY DEF Types, RequestsOK
  <2>2. ASSUME NEW h \in Handlers PROVE handler[h] \in H
    <3>1. handler[h] \in HandlerRecord /\ FitsNow(handler[h])
      BY <2>1 DEF FitInv
    <3> QED
      BY <3>1 DEF FitsNow, Fits, HandlerRecord, PositionIds, RuleIds
  <2> HIDE DEF H
  <2> QED
    BY <2>1, <2>2
<1>7. cycle.pc \in {"idle", "apply", "place", "mark"}
  BY <1>1 DEF TablesOK, CycleOK
<1> QED
  BY <1>2, <1>3, <1>4, <1>5, <1>6, <1>7 DEF TypeOK, FitInv, TablesFit

\* TypeOK: whatever a table or a request refers to is there, from the strategy
\* that a user strategy belongs to, which another request may have created
\* (handler.go:331), to the rule that a close order was placed for; and no two
\* strategies are created by one signal.
THEOREM TypeInvariant == Spec => []TypeOK
<1>1. Init => Types /\ FitInv
  BY TypesInit, FitInit
<1>2. (Types /\ FitInv) /\ [Next]_vars => (Types /\ FitInv)'
  BY TypesStep, FitStep
<1> QED
  BY <1>1, <1>2, FitTypes, PTL DEF Spec
=============================================================================
