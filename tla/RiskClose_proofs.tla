-------------------------- MODULE RiskClose_proofs --------------------------
(***************************************************************************)
(* Proofs about RiskClose for every set of rules, with any conditions and  *)
(* targets, and any number of positions, close orders, signals and faults. *)
(*                                                                         *)
(* First, a rule that is in use has a close order.  A status "in_use" lies *)
(* in three places, the rules in memory, the file, and what the sync loop  *)
(* has read of the file; each of them may overwrite another.  All three    *)
(* only ever have it for rules with an order, and an order that is         *)
(* recorded stays.                                                         *)
(*                                                                         *)
(* Then, what the books hold and what the exchange does: each position     *)
(* that is taken out of the books is taken out by an order that has        *)
(* executed as much, and no order does so twice.                           *)
(***************************************************************************)
EXTENDS RiskClose, FoldLemmas

OrderRecords(D) ==
    [rule : Rules, pos : D, holding : D, qty : D, status : {"absent"} \cup Statuses,
     exch : {"open"} \cup EndStates, done : D, heard : BOOLEAN]

\* What the close orders are, but for their numbers.
OrdersOK == \E D : orders \in Seq(OrderRecords(D))

\* A close order was recorded for the rule or one with its condition.
HasOrder(r) ==
    \E o \in 1 .. Len(orders) : /\ orders[o].status # "absent"
                                /\ Condition[orders[o].rule] = Condition[r]

\* Statuses of the rules, in_use only of those that have an order.
Acted(statuses) ==
    /\ statuses \in [Rules -> RuleStatuses]
    /\ \A r \in Rules : statuses[r] = "in_use" => HasOrder(r)

\* The sync loop's copy of the file, and how far it is with a rule's orders.
CycleOK(c) ==
    /\ "pc" \in DOMAIN c
    /\ c.pc \in {"replace", "evaluate"} => "cfg" \in DOMAIN c /\ Acted(c.cfg)
    /\ c.pc \in {"place", "record", "mark"} => "rule" \in DOMAIN c /\ c.rule \in Rules
    /\ c.pc = "record" => Len(orders) # 0 /\ orders[Len(orders)].rule = c.rule
    /\ c.pc = "mark" => HasOrder(c.rule)

HandlerStates(n) ==
    {Idle} \cup [pc : {"compare"}, order : 1 .. n, info : Statuses] \cup
    [pc : {"status", "filled", "closeOrderPosition", "closeUserPosition", "reset"},
     order : 1 .. n, status : Statuses]

\* The inductive invariant.
UseInv ==
    /\ venue \in AllVenues
    /\ OrdersOK
    /\ Acted(rules) /\ Acted(file)
    /\ CycleOK(cycle)
    /\ handler \in [Handlers -> HandlerStates(Len(orders))]
-----------------------------------------------------------------------------
(* The orders.                                                             *)

\* An order that has a status of an exchange is recorded.
LEMMA StatusFacts == "absent" \notin Statuses /\ {"NEW", "FILLED"} \subseteq Statuses
  BY DEF Statuses

\* What the adapters answer is a status.
LEMMA StatusTypes ==
    ASSUME NEW v \in AllVenues, NEW s \in {"open"} \cup EndStates
    PROVE  WsStatus(v, s) \in Statuses /\ RestStatuses(v, s) \subseteq Statuses
  BY DEF AllVenues, OpenStates, EndStates, WsStatus, RestStatuses, Statuses,
         BinanceStatus, DeribitStatus, HyperliquidWsStatus, HyperliquidRestStatus

\* Records over more numbers.
LEMMA MoreRecords ==
    ASSUME NEW C, NEW D, C \subseteq D
    PROVE  OrderRecords(C) \subseteq OrderRecords(D)
  BY DEF OrderRecords

\* The fields that the proof looks at.
LEMMA OrderFacts ==
    ASSUME OrdersOK
    PROVE  /\ Len(orders) \in Nat
           /\ \A o \in 1 .. Len(orders) : /\ orders[o].rule \in Rules
                                          /\ orders[o].status \in {"absent"} \cup Statuses
                                          /\ orders[o].exch \in {"open"} \cup EndStates
<1>1. PICK D : orders \in Seq(OrderRecords(D))
  BY DEF OrdersOK
<1>2. Len(orders) \in Nat
  BY <1>1, LenProperties
<1>3. \A o \in 1 .. Len(orders) : orders[o] \in OrderRecords(D)
  BY <1>1, ElementOfSeq
<1> QED
  BY <1>2, <1>3 DEF OrderRecords

\* Orders are kept: those there were have their rules, and stay recorded.
Keep ==
    /\ Len(orders') \in Nat /\ Len(orders') >= Len(orders)
    /\ \A o \in 1 .. Len(orders) :
         /\ orders'[o].rule = orders[o].rule
         /\ orders[o].status # "absent" => orders'[o].status # "absent"

\* One order in another state.
LEMMA OneOrder ==
    ASSUME OrdersOK, NEW o \in 1 .. Len(orders), NEW D, NEW x \in OrderRecords(D),
           x.rule = orders[o].rule, orders[o].status # "absent" => x.status # "absent",
           orders' = [orders EXCEPT ![o] = x]
    PROVE  /\ OrdersOK' /\ Keep /\ Len(orders') = Len(orders)
           /\ \A j \in 1 .. Len(orders) : orders'[j] = IF j = o THEN x ELSE orders[j]
<1>1. PICK C : orders \in Seq(OrderRecords(C))
  BY DEF OrdersOK
<1> DEFINE E == C \cup D
<1>2. orders \in Seq(OrderRecords(E)) /\ x \in OrderRecords(E)
  BY <1>1, MoreRecords, SeqMonotonic
<1> HIDE DEF E
<1>3. /\ orders' \in Seq(OrderRecords(E)) /\ Len(orders') = Len(orders)
      /\ \A j \in 1 .. Len(orders) : orders'[j] = IF j = o THEN x ELSE orders[j]
  BY <1>2, ExceptSeq
<1>4. OrdersOK'
  BY <1>3 DEF OrdersOK
<1> QED
  BY <1>3, <1>4, OrderFacts DEF Keep

\* One order more.
LEMMA NewOrder ==
    ASSUME OrdersOK, NEW D, NEW x \in OrderRecords(D), orders' = Append(orders, x)
    PROVE  /\ OrdersOK' /\ Keep /\ Len(orders') = Len(orders) + 1
           /\ orders'[Len(orders) + 1] = x
<1>1. PICK C : orders \in Seq(OrderRecords(C))
  BY DEF OrdersOK
<1> DEFINE E == C \cup D
<1>2. orders \in Seq(OrderRecords(E)) /\ x \in OrderRecords(E)
  BY <1>1, MoreRecords, SeqMonotonic
<1> HIDE DEF E
<1>3. /\ orders' \in Seq(OrderRecords(E)) /\ Len(orders') = Len(orders) + 1
      /\ \A j \in 1 .. Len(orders) : orders'[j] = orders[j]
      /\ orders'[Len(orders) + 1] = x
  BY <1>2, AppendProperties
<1>4. OrdersOK'
  BY <1>3 DEF OrdersOK
<1> QED
  BY <1>3, <1>4, OrderFacts DEF Keep

\* No order changes.
LEMMA NoOrder ==
    ASSUME OrdersOK, UNCHANGED orders
    PROVE  OrdersOK' /\ Keep
  BY OrderFacts DEF OrdersOK, Keep

\* With the orders, what relies on them is kept: that a rule has one, ...
LEMMA KeepHasOrder ==
    ASSUME OrdersOK, Keep, NEW r, HasOrder(r)
    PROVE  HasOrder(r)'
<1>1. PICK o \in 1 .. Len(orders) : /\ orders[o].status # "absent"
                                    /\ Condition[orders[o].rule] = Condition[r]
  BY DEF HasOrder
<1>2. o \in 1 .. Len(orders')
  BY <1>1, OrderFacts DEF Keep
<1>3. orders'[o].status # "absent" /\ orders'[o].rule = orders[o].rule
  BY <1>1 DEF Keep
<1> QED
  BY <1>1, <1>2, <1>3 DEF HasOrder

\* ... that statuses are those of rules with an order, ...
ActedThen(statuses) ==
    /\ statuses \in [Rules -> RuleStatuses]
    /\ \A r \in Rules : statuses[r] = "in_use" => HasOrder(r)'

\* ... whether they are from before the step or from after it, ...
LEMMA KeepActed ==
    ASSUME OrdersOK, Keep, NEW statuses, Acted(statuses)
    PROVE  ActedThen(statuses)
  BY KeepHasOrder DEF Acted, ActedThen

\* ... and how far the sync loop is, when it does not move.
LEMMA CycleWaits ==
    ASSUME OrdersOK, Keep, CycleOK(cycle), cycle' = cycle,
           Len(orders') = Len(orders)
    PROVE  CycleOK(cycle)'
<1>1. cycle.pc \in {"replace", "evaluate"} => Acted(cycle.cfg)'
  BY KeepActed DEF CycleOK, Acted, ActedThen
<1>2. cycle.pc = "record" => orders'[Len(orders')].rule = cycle.rule
  BY OrderFacts DEF CycleOK, Keep
<1>3. ASSUME cycle.pc = "mark"
      PROVE  HasOrder(cycle.rule)'
  <2>1. PICK r \in Rules : r = cycle.rule
    BY <1>3 DEF CycleOK
  <2>2. HasOrder(r)'
    BY <1>3, <2>1, KeepHasOrder DEF CycleOK
  <2> QED
    BY <2>1, <2>2 DEF HasOrder
<1> QED
  BY <1>1, <1>2, <1>3 DEF CycleOK

\* What is known of the loop before its step, when the orders stay.
LEMMA CycleMoves ==
    ASSUME UNCHANGED orders, CycleOK(cycle')
    PROVE  CycleOK(cycle)'
  BY DEF CycleOK, Acted, HasOrder

\* A handler may be at any order there is.
LEMMA MoreHandlerStates ==
    ASSUME NEW m \in Nat, NEW n \in Nat, m <= n
    PROVE  HandlerStates(m) \subseteq HandlerStates(n)
<1>1. 1 .. m \subseteq 1 .. n
  OBVIOUS
<1> QED
  BY <1>1 DEF HandlerStates

\* The parts of the invariant after a step.
LEMMA Assemble ==
    ASSUME UseInv, venue' = venue, OrdersOK', Keep, Acted(rules'), Acted(file'),
           CycleOK(cycle)', handler' \in [Handlers -> HandlerStates(Len(orders))]
    PROVE  UseInv'
<1>1. Acted(rules)' /\ Acted(file)'
  BY KeepActed DEF UseInv, Acted, ActedThen
<1>2. HandlerStates(Len(orders)) \subseteq HandlerStates(Len(orders'))
  BY MoreHandlerStates, OrderFacts DEF UseInv, Keep
<1>3. handler' \in [Handlers -> HandlerStates(Len(orders'))]
  BY <1>2
<1> QED
  BY <1>1, <1>3 DEF UseInv, HandlerStates
-----------------------------------------------------------------------------
(* The rules.                                                              *)

\* Writing the rules brings back what only the file has.
LEMMA WriteRulesActed ==
    ASSUME Acted(file), NEW new, Acted(new), WriteRules(new)
    PROVE  Acted(rules') /\ Acted(file')
  BY DEF Acted, WriteRules

\* UpdateRuleStatus, whose rules have the condition of one that has an order.
LEMMA SetStatusActed ==
    ASSUME Acted(rules), Acted(file), NEW r, NEW s \in RuleStatuses,
           s = "in_use" => HasOrder(r), SetStatus(r, s)
    PROVE  Acted(rules') /\ Acted(file')
<1> DEFINE new == [x \in Rules |->
                     IF rules[x] # "absent" /\ Condition[x] = Condition[r] THEN s
                                                                           ELSE rules[x]]
<1>1. Acted(new)
  BY DEF Acted, HasOrder
<1>2. CASE WriteRules(new)
  <2> HIDE DEF new
  <2> QED
    BY <1>1, <1>2, WriteRulesActed
<1>3. CASE UNCHANGED <<rules, file>>
  BY <1>3 DEF Acted
<1> QED
  BY <1>2, <1>3 DEF SetStatus

\* ResetRulesForStrategy makes no rule in_use.
LEMMA ResetActed ==
    ASSUME Acted(rules), Acted(file), Reset
    PROVE  Acted(rules') /\ Acted(file')
<1> DEFINE new == [r \in Rules |-> IF rules[r] = "absent" THEN "absent" ELSE "inactive"]
<1>1. Acted(new)
  BY DEF Acted, RuleStatuses
<1>2. CASE WriteRules(new)
  <2> HIDE DEF new
  <2> QED
    BY <1>1, <1>2, WriteRulesActed
<1>3. CASE UNCHANGED <<rules, file>>
  BY <1>3 DEF Acted
<1> QED
  BY <1>2, <1>3 DEF Reset

\* Signals, which create a rule or invalidate some.
LEMMA SignalStep ==
    ASSUME UseInv,
           \/ InvalidateList \/ InvalidateNext
           \/ \E r \in Rules : CreateRule(r)
    PROVE  UseInv'
<1>1. UNCHANGED <<venue, orders, cycle, handler>>
  BY DEF InvalidateList, InvalidateNext, CreateRule
<1>2. OrdersOK' /\ Keep /\ CycleOK(cycle)'
  BY <1>1, NoOrder, CycleWaits DEF UseInv
<1>3. Acted(rules') /\ Acted(file')
  <2>1. CASE InvalidateList
    BY <2>1 DEF InvalidateList, UseInv, Acted
  <2>2. CASE InvalidateNext
    BY <2>2, SetStatusActed DEF InvalidateNext, UseInv, RuleStatuses
  <2>3. ASSUME NEW r \in Rules, CreateRule(r)
        PROVE  Acted(rules') /\ Acted(file')
    <3>1. Acted([rules EXCEPT ![r] = "active"])
      BY DEF UseInv, Acted, RuleStatuses
    <3> QED
      BY <2>3, <3>1, WriteRulesActed DEF CreateRule, UseInv
  <2> QED
    BY <2>1, <2>2, <2>3
<1> QED
  BY <1>1, <1>2, <1>3, Assemble DEF UseInv
-----------------------------------------------------------------------------
(* The sync loop.                                                          *)

\* Steps of the loop that neither touch the orders nor the handlers.
LEMMA CycleOnly ==
    ASSUME UseInv, UNCHANGED <<venue, orders, handler>>, CycleOK(cycle'),
           Acted(rules') /\ Acted(file')
    PROVE  UseInv'
<1>1. OrdersOK' /\ Keep /\ CycleOK(cycle)'
  BY NoOrder, CycleMoves DEF UseInv
<1> QED
  BY <1>1, Assemble DEF UseInv

\* The loop goes on after a rule.
LEMMA CycleNextOK ==
    ASSUME NEW r
    PROVE  CycleOK(CycleNext(r))
  BY DEF CycleOK, CycleNext, Idle

\* The loop aggregates, refreshes the user position, and reads the file.
LEMMA AggregateStep ==
    ASSUME UseInv, CycleAggregate \/ CycleSyncRead \/ CycleSyncWrite \/ CycleLoad
    PROVE  UseInv'
<1>1. UNCHANGED <<venue, orders, handler, rules, file>>
  BY DEF CycleAggregate, CycleSyncRead, CycleSyncWrite, CycleLoad
<1>2. CycleOK(cycle')
  BY DEF CycleAggregate, CycleSyncRead, CycleSyncWrite, CycleLoad, CycleOK, UseInv
<1> QED
  BY <1>1, <1>2, CycleOnly DEF UseInv

\* Default rules are born active or inactive.
LEMMA GenerateStep ==
    ASSUME UseInv, CycleGenerate
    PROVE  UseInv'
<1>1. UNCHANGED <<venue, orders, handler>> /\ cycle' = [cycle EXCEPT !.pc = "load"]
  BY DEF CycleGenerate
<1>2. CycleOK(cycle')
  <2>1. "pc" \in DOMAIN cycle' /\ cycle'.pc = "load"
    BY <1>1 DEF UseInv, CycleOK
  <2> QED
    BY <2>1 DEF CycleOK
<1>3. Acted(rules') /\ Acted(file')
  <2>1. CASE UNCHANGED <<rules, file>>
    BY <2>1 DEF UseInv, Acted
  <2>2. ASSUME NEW batch,
               WriteRules([r \in Rules |-> IF r \in batch THEN Born(r) ELSE rules[r]])
        PROVE  Acted(rules') /\ Acted(file')
    <3> DEFINE new == [r \in Rules |-> IF r \in batch THEN Born(r) ELSE rules[r]]
    <3>1. \A r \in Rules : Born(r) \in {"inactive", "active"}
      BY DEF Born
    <3>2. Acted(new)
      BY <3>1 DEF Acted, UseInv, RuleStatuses
    <3> HIDE DEF new
    <3> QED
      BY <2>2, <3>2, WriteRulesActed DEF UseInv, new
  <2> QED
    BY <2>1, <2>2 DEF CycleGenerate
<1> QED
  BY <1>1, <1>2, <1>3, CycleOnly

\* What the loop has read of the file replaces the rules in memory.
LEMMA ReplaceStep ==
    ASSUME UseInv, CycleReplace
    PROVE  UseInv'
<1>1. /\ UNCHANGED <<venue, orders, handler, file>> /\ rules' = cycle.cfg
      /\ cycle' = [cycle EXCEPT !.pc = "evaluate"]
  BY DEF CycleReplace
<1>2. "pc" \in DOMAIN cycle /\ "cfg" \in DOMAIN cycle /\ Acted(cycle.cfg)
  BY DEF CycleReplace, UseInv, CycleOK
<1>3. "pc" \in DOMAIN cycle' /\ cycle'.pc = "evaluate"
  BY <1>1, <1>2
<1>4. "cfg" \in DOMAIN cycle' /\ cycle'.cfg = cycle.cfg
  BY <1>1, <1>2
<1>5. CycleOK(cycle')
  BY <1>2, <1>3, <1>4 DEF CycleOK
<1> QED
  BY <1>1, <1>2, <1>5, CycleOnly DEF UseInv

\* Rules that others activate become active.
LEMMA EvaluateStep ==
    ASSUME UseInv, CycleEvaluate
    PROVE  UseInv'
<1>1. UNCHANGED <<venue, orders, handler>>
  BY DEF CycleEvaluate
<1>2. PICK todo, total, holding :
        cycle' \in {Idle, [pc |-> "apply", total |-> total, holding |-> holding, todo |-> todo]}
  <2>1. PICK reduce : cycle' = IF reduce = {} THEN Idle
                               ELSE [pc |-> "apply", total |-> cycle.total,
                                     holding |-> cycle.holding, todo |-> reduce]
    BY DEF CycleEvaluate
  <2> QED
    BY <2>1
<1>3. CycleOK(cycle')
  BY <1>2 DEF CycleOK, Idle
<1>4. PICK waiting :
        \/ UNCHANGED <<rules, file>>
        \/ WriteRules([r \in Rules |-> IF r \in waiting THEN "active" ELSE rules[r]])
  BY DEF CycleEvaluate
<1> DEFINE new == [r \in Rules |-> IF r \in waiting THEN "active" ELSE rules[r]]
<1>5. Acted(new)
  BY DEF UseInv, Acted, RuleStatuses
<1>6. CASE UNCHANGED <<rules, file>>
  BY <1>1, <1>3, <1>6, CycleOnly DEF UseInv
<1>7. CASE WriteRules(new)
  <2> HIDE DEF new
  <2>1. Acted(rules') /\ Acted(file')
    BY <1>5, <1>7, WriteRulesActed DEF UseInv
  <2> QED
    BY <1>1, <1>3, <2>1, CycleOnly
<1> QED
  BY <1>4, <1>6, <1>7

\* A triggered rule is passed over, or its positions are selected.
LEMMA ApplyStep ==
    ASSUME UseInv, NEW r \in Rules, ApplyStart(r)
    PROVE  UseInv'
<1>1. UNCHANGED <<venue, orders, handler, rules, file>>
  BY DEF ApplyStart
<1>2. PICK todo, total, holding, selected, left :
        cycle' \in {CycleNext(r),
                    [pc |-> "place", total |-> total, holding |-> holding, todo |-> todo,
                     rule |-> r, selected |-> selected, left |-> left]}
  BY DEF ApplyStart
<1>3. CycleOK(cycle')
  <2>1. CASE cycle' = CycleNext(r)
    BY <2>1, CycleNextOK
  <2>2. CASE cycle' # CycleNext(r)
    BY <1>2, <2>2 DEF CycleOK
  <2> QED
    BY <2>1, <2>2
<1> QED
  BY <1>1, <1>3, CycleOnly DEF UseInv

\* An order is placed: it is the last one, and not recorded yet.
LEMMA PlaceStep ==
    ASSUME UseInv, PlaceClose
    PROVE  UseInv'
<1> DEFINE i == Min(cycle.selected)
           q == IF positions[i].qty > cycle.left THEN cycle.left ELSE positions[i].qty
           x == CloseOrder(cycle.rule, i, cycle.holding, q)
           l == cycle.left - q
           sel == cycle.selected \ {i}
           c == [cycle EXCEPT !.pc = "record"]
           d == [c EXCEPT !.left = l]
           e == [d EXCEPT !.selected = sel]
           D == {i, cycle.holding, q, 0}
<1>1. {"pc", "rule"} \subseteq DOMAIN cycle /\ cycle.rule \in Rules
  BY DEF PlaceClose, UseInv, CycleOK
<1>2. x \in OrderRecords(D) /\ x.rule = cycle.rule
  BY <1>1 DEF CloseOrder, OrderRecords
<1>3. /\ orders' = Append(orders, x) /\ cycle' = e
      /\ UNCHANGED <<venue, rules, file, handler>>
  BY DEF PlaceClose
<1> HIDE DEF x, D
<1>4. /\ OrdersOK' /\ Keep /\ Len(orders') = Len(orders) + 1
      /\ orders'[Len(orders) + 1] = x
  BY <1>2, <1>3, NewOrder DEF UseInv
<1>5. Len(orders') # 0 /\ orders'[Len(orders')].rule = cycle.rule
  BY <1>2, <1>4, OrderFacts DEF UseInv
<1> HIDE DEF i, q, l, sel
<1>6. {"pc", "rule"} \subseteq DOMAIN c /\ c.pc = "record" /\ c.rule = cycle.rule
  BY <1>1
<1> HIDE DEF c
<1>7. {"pc", "rule"} \subseteq DOMAIN d /\ d.pc = "record" /\ d.rule = cycle.rule
  BY <1>6
<1> HIDE DEF d
<1>8. {"pc", "rule"} \subseteq DOMAIN e /\ e.pc = "record" /\ e.rule = cycle.rule
  BY <1>7
<1> HIDE DEF e
<1>9. CycleOK(cycle)'
  BY <1>1, <1>3, <1>5, <1>8 DEF CycleOK
<1> QED
  BY <1>3, <1>4, <1>9, Assemble DEF UseInv

\* An order is refused.
LEMMA PlaceFailsStep ==
    ASSUME UseInv, PlaceCloseFails
    PROVE  UseInv'
<1>1. /\ UNCHANGED <<venue, rules, file, orders, handler>>
      /\ cycle' = CycleNext(cycle.rule)
  BY DEF PlaceCloseFails
<1> QED
  BY <1>1, CycleNextOK, CycleOnly DEF UseInv

\* An order that changes its status, its outcome or whether it was heard of.
LEMMA OrderChanges ==
    ASSUME OrdersOK, NEW o \in 1 .. Len(orders), NEW status \in Statuses
    PROVE  /\ orders' = [orders EXCEPT ![o].status = status]
              => /\ OrdersOK' /\ Keep /\ Len(orders') = Len(orders)
                 /\ orders'[o].status = status /\ orders'[o].rule = orders[o].rule
           /\ orders' = [orders EXCEPT ![o].heard = TRUE]
              => OrdersOK' /\ Keep /\ Len(orders') = Len(orders)
<1>1. PICK D : orders \in Seq(OrderRecords(D))
  BY DEF OrdersOK
<1> DEFINE x == [orders[o] EXCEPT !.status = status]
           y == [orders[o] EXCEPT !.heard = TRUE]
<1>2. orders[o] \in OrderRecords(D)
  BY <1>1, ElementOfSeq
<1>3. /\ x \in OrderRecords(D) /\ x.rule = orders[o].rule /\ x.status = status
      /\ y \in OrderRecords(D) /\ y.rule = orders[o].rule /\ y.status = orders[o].status
  BY <1>2 DEF OrderRecords
<1>4. status # "absent"
  BY StatusFacts
<1>5. ASSUME orders' = [orders EXCEPT ![o].status = status]
      PROVE  /\ OrdersOK' /\ Keep /\ Len(orders') = Len(orders)
             /\ orders'[o].status = status /\ orders'[o].rule = orders[o].rule
  <2>1. orders' = [orders EXCEPT ![o] = x]
    BY <1>5
  <2> HIDE DEF x
  <2>2. /\ OrdersOK' /\ Keep /\ Len(orders') = Len(orders)
        /\ \A j \in 1 .. Len(orders) : orders'[j] = IF j = o THEN x ELSE orders[j]
    BY <1>3, <1>4, <2>1, OneOrder
  <2>3. orders'[o] = x
    BY <2>2
  <2> QED
    BY <1>3, <2>2, <2>3
<1>6. ASSUME orders' = [orders EXCEPT ![o].heard = TRUE]
      PROVE  OrdersOK' /\ Keep /\ Len(orders') = Len(orders)
  <2>1. orders' = [orders EXCEPT ![o] = y]
    BY <1>6
  <2> HIDE DEF y
  <2> QED
    BY <1>3, <2>1, OneOrder
<1> QED
  BY <1>5, <1>6

\* The order just placed is recorded, so that the rule has an order.
LEMMA RecordStep ==
    ASSUME UseInv, RecordClose
    PROVE  UseInv'
<1> DEFINE n == Len(orders)
           pc == IF cycle.left = 0 \/ cycle.selected = {} THEN "mark" ELSE "place"
<1>1. /\ {"pc", "rule"} \subseteq DOMAIN cycle /\ cycle.rule \in Rules
      /\ n # 0 /\ orders[n].rule = cycle.rule
  BY DEF RecordClose, UseInv, CycleOK
<1>2. n \in 1 .. Len(orders)
  BY <1>1, OrderFacts DEF UseInv
<1>3. /\ orders' = [orders EXCEPT ![n].status = "NEW"]
      /\ cycle' = [cycle EXCEPT !.pc = pc]
      /\ UNCHANGED <<venue, rules, file, handler>>
  BY DEF RecordClose
<1>4. /\ OrdersOK' /\ Keep /\ Len(orders') = n
      /\ orders'[n].status = "NEW" /\ orders'[n].rule = cycle.rule
  BY <1>1, <1>2, <1>3, OrderChanges, StatusFacts DEF UseInv
<1>5. HasOrder(cycle.rule)'
  <2>1. PICK r \in Rules : r = cycle.rule
    BY <1>1
  <2>2. \E o \in 1 .. Len(orders') : /\ orders'[o].status # "absent"
                                     /\ Condition[orders'[o].rule] = Condition[r]
    BY <1>2, <1>4, <2>1
  <2>3. cycle'.rule = r
    BY <1>1, <1>3, <2>1
  <2> QED
    BY <2>2, <2>3 DEF HasOrder
<1>6. pc \in {"mark", "place"}
  OBVIOUS
<1> HIDE DEF pc
<1>7. {"pc", "rule"} \subseteq DOMAIN cycle' /\ cycle'.pc = pc /\ cycle'.rule = cycle.rule
  BY <1>1, <1>3
<1>8. CycleOK(cycle)'
  BY <1>1, <1>5, <1>6, <1>7 DEF CycleOK
<1> QED
  BY <1>3, <1>4, <1>8, Assemble DEF UseInv

\* A rule with an order becomes in_use.
LEMMA MarkStep ==
    ASSUME UseInv, MarkInUse
    PROVE  UseInv'
<1>1. /\ SetStatus(cycle.rule, "in_use") /\ cycle' = CycleNext(cycle.rule)
      /\ UNCHANGED <<venue, orders, handler>>
  BY DEF MarkInUse
<1>2. HasOrder(cycle.rule)
  BY DEF MarkInUse, UseInv, CycleOK
<1>3. Acted(rules') /\ Acted(file')
  BY <1>1, <1>2, SetStatusActed DEF UseInv, RuleStatuses
<1> QED
  BY <1>1, <1>3, CycleNextOK, CycleOnly
-----------------------------------------------------------------------------
(* The exchange and the handlers.                                          *)

\* Steps that leave the rules and the sync loop alone.
LEMMA OutsideStep ==
    ASSUME UseInv, UNCHANGED <<venue, rules, file, cycle>>, OrdersOK', Keep,
           Len(orders') = Len(orders),
           handler' \in [Handlers -> HandlerStates(Len(orders))]
    PROVE  UseInv'
<1>1. CycleOK(cycle)'
  BY CycleWaits DEF UseInv
<1> QED
  BY <1>1, Assemble DEF UseInv

\* The exchange ends an order, or its message is lost.
LEMMA ExchangeStep ==
    ASSUME UseInv, NEW o \in 1 .. Len(orders), ExchangeEnds(o) \/ LoseMessage(o)
    PROVE  UseInv'
<1>1. UNCHANGED <<venue, rules, file, cycle, handler>>
  BY DEF ExchangeEnds, LoseMessage
<1>2. OrdersOK' /\ Keep /\ Len(orders') = Len(orders)
  <2>1. CASE LoseMessage(o)
    BY <2>1, OrderChanges, StatusFacts DEF LoseMessage, UseInv
  <2>2. CASE ExchangeEnds(o)
    <3>1. PICK s \in Outcomes, q \in 0 .. orders[o].qty :
            orders' = [orders EXCEPT ![o].exch = s, ![o].done = q]
      BY <2>2 DEF ExchangeEnds
    <3>2. PICK D : orders \in Seq(OrderRecords(D))
      BY DEF UseInv, OrdersOK
    <3> DEFINE E == D \cup {q}
               x == [orders[o] EXCEPT !.exch = s, !.done = q]
    <3>3. orders[o] \in OrderRecords(D)
      BY <3>2, ElementOfSeq
    <3>4. /\ x \in OrderRecords(E) /\ x.rule = orders[o].rule
          /\ x.status = orders[o].status
      BY <3>3, BoundsAssumption DEF OrderRecords
    <3>5. orders' = [orders EXCEPT ![o] = x]
      BY <3>1
    <3> HIDE DEF x
    <3> QED
      BY <3>4, <3>5, OneOrder DEF UseInv
  <2> QED
    BY <2>1, <2>2
<1> QED
  BY <1>1, <1>2, OutsideStep DEF UseInv

\* Work with a status.
LEMMA WorkType ==
    ASSUME NEW n, NEW status \in Statuses, NEW o \in 1 .. n
    PROVE  Work(status, o) \in HandlerStates(n)
  BY DEF Work, HandlerStates

\* A handler takes up an order.
LEMMA TakeStep ==
    ASSUME UseInv, NEW o \in 1 .. Len(orders), WsTake(o) \/ ScanQuery(o)
    PROVE  UseInv'
<1>1. /\ UNCHANGED <<venue, rules, file, cycle>>
      /\ orders[o].exch \in {"open"} \cup EndStates /\ venue \in AllVenues
  BY OrderFacts DEF WsTake, ScanQuery, UseInv
<1>2. CASE WsTake(o)
  <2>1. OrdersOK' /\ Keep /\ Len(orders') = Len(orders)
    BY <1>2, OrderChanges, StatusFacts DEF WsTake, UseInv
  <2> DEFINE status == WsStatus(venue, orders[o].exch)
  <2>2. status \in Statuses
    BY <1>1, StatusTypes
  <2> HIDE DEF status
  <2>3. Work(status, o) \in HandlerStates(Len(orders)) /\ Idle \in HandlerStates(Len(orders))
    BY <2>2, WorkType DEF HandlerStates
  <2>4. handler' \in {[handler EXCEPT !["ws"] = Idle],
                      [handler EXCEPT !["ws"] = Work(status, o)]}
    BY <1>2 DEF WsTake, status
  <2>5. handler' \in [Handlers -> HandlerStates(Len(orders))]
    BY <2>3, <2>4 DEF UseInv
  <2> QED
    BY <1>1, <2>1, <2>5, OutsideStep
<1>3. CASE ScanQuery(o)
  <2>1. PICK info \in RestStatuses(venue, orders[o].exch) :
          handler' = [handler EXCEPT !["scan"] = [pc |-> "compare", order |-> o, info |-> info]]
    BY <1>3 DEF ScanQuery
  <2>2. info \in Statuses
    BY <1>1, <2>1, StatusTypes
  <2>3. [pc |-> "compare", order |-> o, info |-> info] \in HandlerStates(Len(orders))
    BY <2>2 DEF HandlerStates
  <2>4. handler' \in [Handlers -> HandlerStates(Len(orders))]
    BY <2>1, <2>3 DEF UseInv
  <2>5. OrdersOK' /\ Keep /\ Len(orders') = Len(orders)
    BY <1>3, NoOrder DEF ScanQuery, UseInv
  <2> QED
    BY <1>1, <2>4, <2>5, OutsideStep
<1> QED
  BY <1>2, <1>3

\* What a handler at work has in hand.
LEMMA HandlerFacts ==
    ASSUME UseInv, NEW h \in Handlers
    PROVE  /\ handler[h] \in HandlerStates(Len(orders))
           /\ handler[h].pc = "compare" =>
                handler[h].order \in 1 .. Len(orders) /\ handler[h].info \in Statuses
           /\ handler[h].pc \in {"status", "filled", "closeOrderPosition",
                                 "closeUserPosition", "reset"} =>
                /\ handler[h].order \in 1 .. Len(orders) /\ handler[h].status \in Statuses
                /\ \A pc \in {"closeOrderPosition", "closeUserPosition", "reset"} :
                     [handler[h] EXCEPT !.pc = pc] \in HandlerStates(Len(orders))
           /\ Idle \in HandlerStates(Len(orders))
  BY DEF UseInv, HandlerStates, Idle

\* The scanner looks at the order again.
LEMMA CompareStep ==
    ASSUME UseInv, ScanCompare
    PROVE  UseInv'
<1>1. handler["scan"].pc = "compare" /\ "scan" \in Handlers
  BY DEF ScanCompare, Handlers
<1> DEFINE o == handler["scan"].order
           info == handler["scan"].info
<1>2. Work(info, o) \in HandlerStates(Len(orders)) /\ Idle \in HandlerStates(Len(orders))
  BY <1>1, HandlerFacts, WorkType
<1>3. handler' \in {[handler EXCEPT !["scan"] = Idle],
                    [handler EXCEPT !["scan"] = Work(info, o)]}
  BY DEF ScanCompare
<1>4. handler' \in [Handlers -> HandlerStates(Len(orders))]
  BY <1>2, <1>3 DEF UseInv
<1>5. OrdersOK' /\ Keep /\ Len(orders') = Len(orders)
  BY NoOrder DEF ScanCompare, UseInv
<1> QED
  BY <1>4, <1>5, OutsideStep DEF ScanCompare

\* A status is stored, and may make the order's rule active again.
LEMMA StatusStep ==
    ASSUME UseInv, NEW h \in Handlers, HandleStatus(h)
    PROVE  UseInv'
<1> DEFINE o == handler[h].order
           status == handler[h].status
<1>1. o \in 1 .. Len(orders) /\ status \in Statuses /\ Idle \in HandlerStates(Len(orders))
  BY HandlerFacts DEF HandleStatus
<1>2. /\ orders' = [orders EXCEPT ![o].status = status]
      /\ handler' = [handler EXCEPT ![h] = Idle]
      /\ UNCHANGED <<venue, cycle>>
      /\ SetStatus(orders[o].rule, "active") \/ UNCHANGED <<rules, file>>
  BY DEF HandleStatus
<1> HIDE DEF o, status
<1>3. OrdersOK' /\ Keep /\ Len(orders') = Len(orders)
  BY <1>1, <1>2, OrderChanges DEF UseInv
<1>4. Acted(rules') /\ Acted(file')
  <2>1. CASE SetStatus(orders[o].rule, "active")
    BY <2>1, SetStatusActed DEF UseInv, RuleStatuses
  <2>2. CASE UNCHANGED <<rules, file>>
    BY <2>2 DEF UseInv, Acted
  <2> QED
    BY <1>2, <2>1, <2>2
<1>5. handler' \in [Handlers -> HandlerStates(Len(orders))]
  BY <1>1, <1>2 DEF UseInv
<1>6. CycleOK(cycle)'
  BY <1>2, <1>3, CycleWaits DEF UseInv
<1> QED
  BY <1>2, <1>3, <1>4, <1>5, <1>6, Assemble

\* The steps of a handler of a filled order.
LEMMA FilledStep ==
    ASSUME UseInv, NEW h \in Handlers,
           HandleFilled(h) \/ CloseOrderPosition(h) \/ CloseUserPosition(h)
    PROVE  UseInv'
<1>1. UNCHANGED <<venue, rules, file, cycle>>
  BY DEF HandleFilled, CloseOrderPosition, CloseUserPosition
<1>2. /\ handler[h].pc \in {"filled", "closeOrderPosition", "closeUserPosition"}
      /\ \/ handler' = [handler EXCEPT ![h] = Idle]
         \/ \E pc \in {"closeOrderPosition", "closeUserPosition", "reset"} :
              handler' = [handler EXCEPT ![h] = [handler[h] EXCEPT !.pc = pc]]
  BY DEF HandleFilled, CloseOrderPosition, CloseUserPosition
<1>3. handler' \in [Handlers -> HandlerStates(Len(orders))]
  BY <1>2, HandlerFacts DEF UseInv
<1>4. OrdersOK' /\ Keep /\ Len(orders') = Len(orders)
  <2>1. CASE UNCHANGED orders
    BY <2>1, NoOrder DEF UseInv
  <2>2. CASE HandleFilled(h)
    <3> DEFINE o == handler[h].order
    <3>1. o \in 1 .. Len(orders)
      BY <2>2, HandlerFacts DEF HandleFilled
    <3>2. orders' = [orders EXCEPT ![o].status = "FILLED"]
      BY <2>2 DEF HandleFilled
    <3> HIDE DEF o
    <3> QED
      BY <3>1, <3>2, OrderChanges, StatusFacts DEF UseInv
  <2> QED
    BY <2>1, <2>2 DEF CloseOrderPosition, CloseUserPosition
<1> QED
  BY <1>1, <1>3, <1>4, OutsideStep

\* A handler resets the rules.
LEMMA ResetStep ==
    ASSUME UseInv, NEW h \in Handlers, ResetRules(h)
    PROVE  UseInv'
<1>1. /\ Reset /\ handler' = [handler EXCEPT ![h] = Idle]
      /\ UNCHANGED <<venue, orders, cycle>>
  BY DEF ResetRules
<1>2. Acted(rules') /\ Acted(file')
  BY <1>1, ResetActed DEF UseInv
<1>3. handler' \in [Handlers -> HandlerStates(Len(orders))]
  BY <1>1, HandlerFacts DEF UseInv
<1>4. OrdersOK' /\ Keep /\ CycleOK(cycle)'
  BY <1>1, NoOrder, CycleWaits DEF UseInv
<1> QED
  BY <1>1, <1>2, <1>3, <1>4, Assemble
-----------------------------------------------------------------------------
(* The invariant and what follows from it.                                 *)

\* It holds at the start ...
LEMMA UseInit == Init => UseInv
<1> SUFFICES ASSUME Init
             PROVE  UseInv
  OBVIOUS
<1>1. venue \in AllVenues
  BY BoundsAssumption DEF Init
<1>2. OrdersOK
  <2>1. orders \in Seq(OrderRecords({}))
    BY EmptySeq DEF Init
  <2> QED
    BY <2>1 DEF OrdersOK
<1>3. Acted(rules) /\ Acted(file)
  BY DEF Init, Acted, RuleStatuses, Born
<1>4. CycleOK(cycle)
  BY DEF Init, CycleOK, Idle
<1>5. handler \in [Handlers -> HandlerStates(Len(orders))]
  BY DEF Init, HandlerStates
<1> QED
  BY <1>1, <1>2, <1>3, <1>4, <1>5 DEF UseInv

\* ... and every step keeps it.
LEMMA UseStep == UseInv /\ [Next]_vars => UseInv'
<1> SUFFICES ASSUME UseInv, [Next]_vars
             PROVE  UseInv'
  OBVIOUS
<1>1. CASE Cycle
  BY <1>1, AggregateStep, GenerateStep, ReplaceStep, EvaluateStep, ApplyStep,
     PlaceStep, PlaceFailsStep, RecordStep, MarkStep DEF Cycle
<1>2. ASSUME NEW h \in Handlers, Handle(h)
      PROVE  UseInv'
  BY <1>2, StatusStep, FilledStep, ResetStep DEF Handle
<1>3. CASE Scan \/ Ws
  BY <1>2, <1>3, CompareStep, TakeStep DEF Scan, Ws, Handlers
<1>4. CASE InvalidateList \/ InvalidateNext \/ \E r \in Rules : CreateRule(r)
  BY <1>4, SignalStep
<1>5. CASE \E o \in 1 .. Len(orders) : ExchangeEnds(o) \/ LoseMessage(o)
  BY <1>5, ExchangeStep
<1>6. CASE UNCHANGED vars
  <2>1. UNCHANGED <<venue, rules, file, cycle, handler, orders>>
    BY <1>6 DEF vars
  <2>2. OrdersOK' /\ Keep
    BY <2>1, NoOrder DEF UseInv
  <2> QED
    BY <2>1, <2>2, OutsideStep DEF UseInv
<1> QED
  BY <1>1, <1>3, <1>4, <1>5, <1>6 DEF Next

\* The invariant holds of every reachable state.
THEOREM UseInvariant == Spec => []UseInv
<1>1. Init => UseInv
  BY UseInit
<1>2. UseInv /\ [Next]_vars => UseInv'
  BY UseStep
<1> QED
  BY <1>1, <1>2, PTL DEF Spec

\* A rule is in_use only when a close order was placed and recorded for it or
\* for a rule with the same condition.
THEOREM InUseHasOrderInvariant == Spec => []InUseHasOrder
<1>1. UseInv => InUseHasOrder
  BY DEF UseInv, Acted, HasOrder, InUseHasOrder
<1> QED
  BY <1>1, UseInvariant, PTL
-----------------------------------------------------------------------------
(* The tables of positions: what closing rows does to their total.         *)

\* The total of a table is a natural number.
LEMMA TotalType ==
    ASSUME NEW D, NEW table \in Seq(Position(D))
    PROVE  /\ Len(table) \in Nat
           /\ IsFiniteSet(Active(table)) /\ Active(table) \subseteq 1 .. Len(table)
           /\ Quantities(table) \in [1 .. Len(table) -> Nat]
           /\ Total(table) \in Nat
<1>1. Len(table) \in Nat /\ \A i \in 1 .. Len(table) : table[i] \in Position(D)
  BY LenProperties, ElementOfSeq
<1>2. Active(table) \subseteq 1 .. Len(table)
  BY DEF Active
<1>3. IsFiniteSet(Active(table))
  <2>1. IsFiniteSet(1 .. Len(table))
    BY <1>1, FS_Interval
  <2> QED
    BY <1>2, <2>1, FS_Subset
<1>4. Quantities(table) \in [1 .. Len(table) -> Nat]
  BY <1>1 DEF Quantities, Position
<1>5. \A i \in Active(table) : Quantities(table)[i] \in Nat
  BY <1>2, <1>4
<1>6. Total(table) \in Nat
  BY <1>3, <1>5, SumNat DEF Total
<1> QED
  BY <1>1, <1>2, <1>3, <1>4, <1>6

\* A table after one row, which was not deleted by then, has been taken out of
\* its total; the row keeps its quantity.
LEMMA MarkTotal ==
    ASSUME NEW D, NEW table \in Seq(Position(D)), NEW i \in 1 .. Len(table)
    PROVE  LET m == MarkClosed(table, i)
           IN /\ m \in Seq(Position(D)) /\ Len(m) = Len(table)
              /\ m[i] = [table[i] EXCEPT !.deleted = TRUE]
              /\ \A j \in 1 .. Len(table) : j # i => m[j] = table[j]
              /\ Total(table) = Total(m) + (IF table[i].deleted THEN 0 ELSE table[i].qty)
<1> DEFINE x == [table[i] EXCEPT !.deleted = TRUE]
           m == MarkClosed(table, i)
<1>1. Len(table) \in Nat /\ \A j \in 1 .. Len(table) : table[j] \in Position(D)
  BY LenProperties, ElementOfSeq
<1>2. x \in Position(D) /\ x.qty = table[i].qty /\ x.deleted = TRUE
  BY <1>1 DEF Position
<1>3. m = [table EXCEPT ![i] = x]
  BY DEF MarkClosed
<1> HIDE DEF m, x
<1>4. /\ m \in Seq(Position(D)) /\ Len(m) = Len(table)
      /\ \A j \in 1 .. Len(table) : m[j] = IF j = i THEN x ELSE table[j]
  BY <1>2, <1>3, ExceptSeq
<1>5. Quantities(m) = Quantities(table)
  BY <1>2, <1>4 DEF Quantities
<1>6. Active(m) = Active(table) \ {i}
  BY <1>2, <1>4 DEF Active
<1>7. Total(m) \in Nat /\ Total(table) \in Nat
  BY <1>4, TotalType
<1>8. CASE table[i].deleted
  <2>1. Active(m) = Active(table)
    BY <1>6, <1>8 DEF Active
  <2>2. Total(table) = Total(m)
    BY <1>5, <2>1 DEF Total
  <2>3. Total(table) = Total(m) + (IF table[i].deleted THEN 0 ELSE table[i].qty)
    BY <1>7, <1>8, <2>2
  <2> QED
    BY <1>4, <2>3 DEF x, m
<1>9. CASE ~table[i].deleted
  <2>1. i \in Active(table) /\ IsFiniteSet(Active(table))
    BY <1>9, TotalType DEF Active
  <2>2. \A j \in Active(table) : Quantities(table)[j] \in Int
    BY TotalType
  <2>3. SumFunctionOnSet(Quantities(table), Active(table))
          = Quantities(table)[i] + SumFunctionOnSet(Quantities(table), Active(table) \ {i})
    BY <2>1, <2>2, SumRemove
  <2>4. Quantities(table)[i] = table[i].qty /\ table[i].qty \in Nat
    BY <1>1 DEF Quantities, Position
  <2>5. Total(table) = Total(m) + table[i].qty
    BY <1>5, <1>6, <1>7, <2>3, <2>4 DEF Total
  <2>6. Total(table) = Total(m) + (IF table[i].deleted THEN 0 ELSE table[i].qty)
    BY <1>9, <2>5
  <2> QED
    BY <1>4, <2>6 DEF x, m
<1> QED
  BY <1>8, <1>9

\* A new row adds its quantity.
LEMMA NewRowTotal ==
    ASSUME NEW D, NEW table \in Seq(Position(D)), NEW d \in D, NEW q \in Nat
    PROVE  LET m == Append(table, NewPosition(d, q))
           IN /\ m \in Seq(Position(D)) /\ Len(m) = Len(table) + 1
              /\ \A j \in 1 .. Len(table) : m[j] = table[j]
              /\ m[Len(table) + 1] = NewPosition(d, q)
              /\ Total(m) = Total(table) + q
<1> DEFINE x == NewPosition(d, q)
           m == Append(table, x)
<1>1. x \in Position(D) /\ x.qty = q /\ x.deleted = FALSE
  BY DEF NewPosition, Position
<1> HIDE DEF x
<1>2. /\ m \in Seq(Position(D)) /\ Len(m) = Len(table) + 1
      /\ \A j \in 1 .. Len(table) : m[j] = table[j]
      /\ m[Len(table) + 1] = x
  BY <1>1, AppendProperties
<1> HIDE DEF m
<1>3. PICK n \in Nat : n = Len(table) + 1
  BY TotalType
<1>4. /\ Len(m) = n /\ m[n] = x /\ Len(table) \in Nat /\ n \notin 1 .. Len(table)
      /\ 1 .. n = (1 .. Len(table)) \cup {n}
  BY <1>2, <1>3, TotalType
<1>5. Active(m) = Active(table) \cup {n} /\ n \notin Active(table)
  BY <1>1, <1>2, <1>4 DEF Active
<1>6. Quantities(m)[n] = q
  BY <1>1, <1>4 DEF Quantities
<1>7. \A j \in Active(table) : /\ Quantities(table)[j] \in Int
                               /\ Quantities(m)[j] = Quantities(table)[j]
  <2>1. \A j \in 1 .. Len(table) : Quantities(m)[j] = Quantities(table)[j]
    BY <1>2, <1>4 DEF Quantities
  <2> QED
    BY <2>1, TotalType
<1>8. IsFiniteSet(Active(table))
  BY TotalType
<1>9. SumFunctionOnSet(Quantities(table), Active(table))
        = SumFunctionOnSet(Quantities(m), Active(table))
  BY <1>7, <1>8, SumEqual
<1>10. \A j \in Active(table) : Quantities(m)[j] \in Int
  BY <1>7
<1>11. Quantities(m)[n] \in Int
  BY <1>6
<1>12. SumFunctionOnSet(Quantities(m), Active(table) \cup {n})
         = Quantities(m)[n] + SumFunctionOnSet(Quantities(m), Active(table))
  BY <1>5, <1>8, <1>10, <1>11, SumAdd
<1>13. Total(m) = q + Total(table)
  BY <1>5, <1>6, <1>9, <1>12 DEF Total
<1>14. Total(m) = Total(table) + q
  BY <1>13, TotalType
<1> QED
  BY <1>2, <1>14 DEF x, m

\* The effect of closing a row with its remainder: rows stay, none that was
\* deleted comes back, and the total loses the closed quantity at most, and
\* nothing when the row was deleted before.
Closes(table, new, i, q) ==
    /\ Len(new) \in Nat /\ Len(new) >= Len(table)
    /\ \A j \in 1 .. Len(table) : table[j].deleted => new[j].deleted
    /\ new[i].deleted
    /\ Total(new) \in Nat
    /\ Total(new) >= Total(table) - (IF table[i].deleted THEN 0 ELSE q)

LEMMA CloseTotal ==
    ASSUME NEW D, NEW table \in Seq(Position(D)), NEW i \in 1 .. Len(table),
           NEW q \in Nat, ~CloseRefused(table, i, q)
    PROVE  LET new == CloseAndCreateRemaining(table, i, q)
           IN new \in Seq(Position(D)) /\ Closes(table, new, i, q)
<1> DEFINE m == MarkClosed(table, i)
<1>1. /\ Len(table) \in Nat /\ table[i] \in Position(D) /\ Total(table) \in Nat
  BY TotalType, ElementOfSeq
<1>2. /\ m \in Seq(Position(D)) /\ Len(m) = Len(table)
      /\ m[i] = [table[i] EXCEPT !.deleted = TRUE]
      /\ \A j \in 1 .. Len(table) : j # i => m[j] = table[j]
      /\ Total(table) = Total(m) + (IF table[i].deleted THEN 0 ELSE table[i].qty)
  BY MarkTotal
<1>3. m[i].deleted = TRUE
  BY <1>1, <1>2 DEF Position
<1>4. Total(m) \in Nat
  BY <1>2, TotalType
<1>5. PICK d \in D, t \in Nat : d = table[i].order /\ t = table[i].qty
  BY <1>1 DEF Position
<1> HIDE DEF m
<1>6. CASE q < table[i].qty
  <2> DEFINE new == Append(m, NewPosition(d, t - q))
  <2>1. t - q \in Nat
    BY <1>5, <1>6
  <2>2. /\ new \in Seq(Position(D)) /\ Len(new) = Len(m) + 1
        /\ \A j \in 1 .. Len(m) : new[j] = m[j]
        /\ Total(new) = Total(m) + (t - q)
    BY <1>2, <2>1, NewRowTotal
  <2>3. CloseAndCreateRemaining(table, i, q) = new
    BY <1>5, <1>6 DEF CloseAndCreateRemaining, m
  <2> HIDE DEF new
  <2>4. new[i].deleted
    BY <1>2, <1>3, <2>2
  <2>5. \A j \in 1 .. Len(table) : table[j].deleted => new[j].deleted
    BY <1>2, <1>3, <2>2
  <2>6. Total(new) \in Nat
    BY <1>4, <2>1, <2>2
  <2>7. Total(new) >= Total(table) - (IF table[i].deleted THEN 0 ELSE q)
    BY <1>1, <1>2, <1>4, <1>5, <2>1, <2>2
  <2> QED
    BY <1>1, <1>2, <2>2, <2>3, <2>4, <2>5, <2>6, <2>7 DEF Closes
<1>7. CASE ~(q < table[i].qty)
  <2>1. q = t
    BY <1>5, <1>7 DEF CloseRefused
  <2>2. CloseAndCreateRemaining(table, i, q) = m
    BY <1>7 DEF CloseAndCreateRemaining, m
  <2>3. \A j \in 1 .. Len(table) : table[j].deleted => m[j].deleted
    BY <1>2, <1>3
  <2>4. Total(m) >= Total(table) - (IF table[i].deleted THEN 0 ELSE q)
    BY <1>1, <1>2, <1>4, <1>5, <2>1
  <2>5. Closes(table, m, i, q)
    BY <1>1, <1>2, <1>3, <1>4, <2>3, <2>4 DEF Closes
  <2> QED
    BY <1>2, <2>2, <2>5
<1> QED
  BY <1>6, <1>7
-----------------------------------------------------------------------------
(* The books and the exchange.                                             *)

\* What the exchange has executed of each order, and the orders whose position
\* is closed in the books.
Done(os) == [k \in 1 .. Len(os) |-> os[k].done]
Settled(ps, os) == {k \in 1 .. Len(os) : ps[os[k].pos].deleted}
SettledDone(ps, os) == SumFunctionOnSet(Done(os), Settled(ps, os))

\* The books still hold what the orders on closed positions have not taken.
Covered(ps, os) == Total(ps) + SettledDone(ps, os) >= NumPositions * PosQty

\* The tables, with orders on positions and user positions that exist; an open
\* order has not executed anything yet.
Tables(ps, hs, os) ==
    /\ ps \in Seq(Position(1 .. NumPositions))
    /\ hs \in Seq(Position({0}))
    /\ os \in Seq(CloseOrders)
    /\ \A k \in 1 .. Len(os) : /\ os[k].pos \in 1 .. Len(ps)
                               /\ os[k].holding \in 1 .. Len(hs)
                               /\ os[k].exch = "open" => os[k].done = 0

\* The inductive invariant of the books.
BooksInv ==
    /\ Tables(positions, holdings, orders)
    /\ Covered(positions, orders)
    /\ cycle \in CycleStates(Len(positions), Len(holdings))
    /\ cycle.pc = "place" => cycle.selected # {}

\* The orders of the tables.
LEMMA OrdersOfTables ==
    ASSUME NEW os \in Seq(CloseOrders)
    PROVE  /\ Len(os) \in Nat /\ IsFiniteSet(1 .. Len(os))
           /\ \A k \in 1 .. Len(os) : os[k] \in CloseOrders /\ os[k].done \in Nat
           /\ Done(os) \in [1 .. Len(os) -> Nat]
<1>1. Len(os) \in Nat
  BY LenProperties
<1>2. \A k \in 1 .. Len(os) : os[k] \in CloseOrders
  BY ElementOfSeq
<1>3. IsFiniteSet(1 .. Len(os))
  BY <1>1, FS_Interval
<1> QED
  BY <1>1, <1>2, <1>3 DEF CloseOrders, Done

\* Any part of what was executed is a natural number.
LEMMA SettledType ==
    ASSUME NEW os \in Seq(CloseOrders), NEW S \in SUBSET (1 .. Len(os))
    PROVE  /\ IsFiniteSet(S)
           /\ SumFunctionOnSet(Done(os), S) \in Nat
           /\ SumFunctionOnSet(Done(os), S) <= SumFunctionOnSet(Done(os), 1 .. Len(os))
<1>1. IsFiniteSet(1 .. Len(os)) /\ \A k \in 1 .. Len(os) : Done(os)[k] \in Nat
  BY OrdersOfTables
<1>2. IsFiniteSet(S) /\ \A k \in S : Done(os)[k] \in Nat
  BY <1>1, FS_Subset
<1>3. SumFunctionOnSet(Done(os), S) \in Nat
  BY <1>2, SumNat
<1>4. SumFunctionOnSet(Done(os), S) <= SumFunctionOnSet(Done(os), 1 .. Len(os))
  BY <1>1, SumGrows
<1> QED
  BY <1>2, <1>3, <1>4

\* Orders stay on their positions, and what they have executed does not shrink.
DoneGrows(os, new) ==
    /\ new \in Seq(CloseOrders) /\ Len(new) >= Len(os)
    /\ \A k \in 1 .. Len(os) : /\ new[k].pos = os[k].pos /\ new[k].holding = os[k].holding
                               /\ new[k].done >= os[k].done

\* Closed positions stay closed.
ClosedStay(ps, new) ==
    /\ Len(new) \in Nat /\ Len(new) >= Len(ps)
    /\ \A j \in 1 .. Len(ps) : ps[j].deleted => new[j].deleted

\* Then what is executed of settled orders does not shrink.
LEMMA SettledGrows ==
    ASSUME NEW ps, NEW hs, NEW os, Tables(ps, hs, os), NEW qs, NEW new,
           DoneGrows(os, new), ClosedStay(ps, qs)
    PROVE  /\ SettledDone(ps, os) \in Nat /\ SettledDone(qs, new) \in Nat
           /\ SettledDone(qs, new) >= SettledDone(ps, os)
<1> DEFINE S == Settled(ps, os)
           T == Settled(qs, new)
<1>1. os \in Seq(CloseOrders) /\ new \in Seq(CloseOrders)
  BY DEF Tables, DoneGrows
<1>2. /\ Len(os) \in Nat /\ Len(new) \in Nat /\ Len(new) >= Len(os)
      /\ Done(os) \in [1 .. Len(os) -> Nat] /\ Done(new) \in [1 .. Len(new) -> Nat]
  BY <1>1, OrdersOfTables DEF DoneGrows
<1>3. S \subseteq 1 .. Len(os) /\ T \subseteq 1 .. Len(new)
  BY DEF Settled
<1>4. S \subseteq T
  <2>1. ASSUME NEW k \in S PROVE k \in T
    <3>1. k \in 1 .. Len(os) /\ k \in 1 .. Len(new) /\ ps[os[k].pos].deleted
      BY <1>2 DEF Settled
    <3>2. os[k].pos \in 1 .. Len(ps) /\ new[k].pos = os[k].pos
      BY <3>1 DEF Tables, DoneGrows
    <3>3. qs[new[k].pos].deleted
      BY <3>1, <3>2 DEF ClosedStay
    <3> QED
      BY <3>1, <3>3 DEF Settled
  <2> QED
    BY <2>1
<1>5. \A k \in S : /\ Done(os)[k] \in Int /\ Done(new)[k] \in Int
                   /\ Done(os)[k] <= Done(new)[k]
  BY <1>2, <1>3 DEF Done, DoneGrows
<1>6. IsFiniteSet(S) /\ SumFunctionOnSet(Done(os), S) \in Nat
  BY <1>1, <1>3, SettledType
<1>7. IsFiniteSet(T) /\ SumFunctionOnSet(Done(new), T) \in Nat
  BY <1>1, <1>3, SettledType
<1>8. S \subseteq 1 .. Len(new)
  BY <1>3, <1>4
<1>9. SumFunctionOnSet(Done(new), S) \in Nat
  BY <1>1, <1>8, SettledType
<1>10. SumFunctionOnSet(Done(os), S) <= SumFunctionOnSet(Done(new), S)
  <2> HIDE DEF S
  <2> QED
    BY <1>5, <1>6, SumMonotone
<1>11. SumFunctionOnSet(Done(new), S) <= SumFunctionOnSet(Done(new), T)
  <2>1. \A k \in T : Done(new)[k] \in Nat
    BY <1>2, <1>3
  <2> HIDE DEF S, T
  <2> QED
    BY <1>4, <1>7, <2>1, SumGrows
<1> QED
  BY <1>6, <1>7, <1>9, <1>10, <1>11 DEF SettledDone

\* When an order's position is closed, the order is settled.
LEMMA SettledMore ==
    ASSUME NEW ps, NEW hs, NEW os, Tables(ps, hs, os), NEW qs, ClosedStay(ps, qs),
           NEW k \in 1 .. Len(os), ~ps[os[k].pos].deleted, qs[os[k].pos].deleted
    PROVE  /\ SettledDone(ps, os) \in Nat /\ SettledDone(qs, os) \in Nat
           /\ SettledDone(qs, os) >= SettledDone(ps, os) + os[k].done
<1> DEFINE S == Settled(ps, os)
           T == Settled(qs, os)
<1>1. os \in Seq(CloseOrders)
  BY DEF Tables
<1>2. Len(os) \in Nat /\ Done(os) \in [1 .. Len(os) -> Nat] /\ Done(os)[k] = os[k].done
  BY <1>1, OrdersOfTables DEF Done
<1>3. S \subseteq 1 .. Len(os) /\ T \subseteq 1 .. Len(os)
  BY DEF Settled
<1>4. S \cup {k} \subseteq T /\ k \notin S
  BY <1>2 DEF Settled, ClosedStay, Tables
<1>5. IsFiniteSet(S) /\ SumFunctionOnSet(Done(os), S) \in Nat
  BY <1>1, <1>3, SettledType
<1>6. IsFiniteSet(T) /\ SumFunctionOnSet(Done(os), T) \in Nat
  BY <1>1, <1>3, SettledType
<1> HIDE DEF S, T
<1>7. Done(os)[k] \in Int /\ \A j \in S : Done(os)[j] \in Int
  BY <1>2, <1>3
<1>8. SumFunctionOnSet(Done(os), S \cup {k})
        = Done(os)[k] + SumFunctionOnSet(Done(os), S)
  BY <1>4, <1>5, <1>7, SumAdd
<1>9. \A j \in T : Done(os)[j] \in Nat
  BY <1>2, <1>3
<1>10. SumFunctionOnSet(Done(os), S \cup {k}) <= SumFunctionOnSet(Done(os), T)
  BY <1>4, <1>6, <1>9, SumGrows
<1> QED
  BY <1>2, <1>5, <1>6, <1>8, <1>10 DEF SettledDone, S, T

\* Orders change, the books do not.
LEMMA OrdersCovered ==
    ASSUME NEW ps, NEW hs, NEW os, Tables(ps, hs, os), Covered(ps, os),
           NEW new, DoneGrows(os, new)
    PROVE  Covered(ps, new)
<1>1. Total(ps) \in Nat /\ ClosedStay(ps, ps)
  BY TotalType DEF Tables, ClosedStay
<1>2. /\ SettledDone(ps, os) \in Nat /\ SettledDone(ps, new) \in Nat
      /\ SettledDone(ps, new) >= SettledDone(ps, os)
  BY <1>1, SettledGrows
<1>3. NumPositions * PosQty \in Nat
  BY BoundsAssumption
<1> QED
  BY <1>1, <1>2, <1>3 DEF Covered

\* The position of an order is closed with what was executed.
LEMMA CloseCovered ==
    ASSUME NEW ps, NEW hs, NEW os, Tables(ps, hs, os), Covered(ps, os),
           NEW k \in 1 .. Len(os), NEW qs, Closes(ps, qs, os[k].pos, os[k].done)
    PROVE  Covered(qs, os)
<1>1. os \in Seq(CloseOrders) /\ Total(ps) \in Nat /\ Total(qs) \in Nat
  BY TotalType DEF Tables, Closes
<1>2. os[k].done \in Nat /\ Len(os) \in Nat
  BY <1>1, OrdersOfTables
<1>3. ClosedStay(ps, qs) /\ DoneGrows(os, os)
  BY <1>1, OrdersOfTables DEF Closes, ClosedStay, DoneGrows
<1>4. NumPositions * PosQty \in Nat
  BY BoundsAssumption
<1>5. CASE ps[os[k].pos].deleted
  <2>1. Total(qs) >= Total(ps)
    BY <1>1, <1>5 DEF Closes
  <2>2. /\ SettledDone(ps, os) \in Nat /\ SettledDone(qs, os) \in Nat
        /\ SettledDone(qs, os) >= SettledDone(ps, os)
    BY <1>3, SettledGrows
  <2> QED
    BY <1>1, <1>4, <2>1, <2>2 DEF Covered
<1>6. CASE ~ps[os[k].pos].deleted
  <2>1. Total(qs) >= Total(ps) - os[k].done
    BY <1>1, <1>6 DEF Closes
  <2>2. qs[os[k].pos].deleted
    BY DEF Closes
  <2>3. /\ SettledDone(ps, os) \in Nat /\ SettledDone(qs, os) \in Nat
        /\ SettledDone(qs, os) >= SettledDone(ps, os) + os[k].done
    BY <1>3, <1>6, <2>2, SettledMore
  <2> QED
    BY <1>1, <1>2, <1>4, <2>1, <2>3 DEF Covered
<1> QED
  BY <1>5, <1>6
-----------------------------------------------------------------------------
(* The sync loop's record at each step.                                    *)

\* What it has in hand once orders are placed.
Placing(np, nh) ==
    [pc : {"place", "record", "mark"}, total : Nat, holding : 1 .. nh,
     todo : SUBSET Rules, rule : Rules, selected : SUBSET (1 .. np), left : Nat]

LEMMA CycleFacts ==
    ASSUME NEW np \in Nat, NEW nh \in Nat, NEW c \in CycleStates(np, nh)
    PROVE  /\ c.pc # "idle" => c.total \in Nat /\ c.holding \in 0 .. nh
           /\ c.pc = "write" => c.quantity \in Nat /\ c.synced \in 0 .. nh
           /\ c.pc = "generate" => [c EXCEPT !.pc = "load"] \in CycleStates(np, nh)
           /\ c.pc = "replace" => [c EXCEPT !.pc = "evaluate"] \in CycleStates(np, nh)
           /\ c.pc = "apply" => c.todo \in SUBSET Rules
           /\ c.pc \in {"place", "record", "mark"} => c \in Placing(np, nh)
<1>1. c.pc # "idle" => c.total \in Nat /\ c.holding \in 0 .. nh
  BY DEF CycleStates, Idle
<1>2. c.pc = "write" => c.quantity \in Nat /\ c.synced \in 0 .. nh
  BY DEF CycleStates, Idle
<1>3. c.pc = "generate" => [c EXCEPT !.pc = "load"] \in CycleStates(np, nh)
  BY DEF CycleStates, Idle
<1>4. c.pc = "replace" => [c EXCEPT !.pc = "evaluate"] \in CycleStates(np, nh)
  BY DEF CycleStates, Idle
<1>5. c.pc = "apply" => c.todo \in SUBSET Rules
  BY DEF CycleStates, Idle
<1>6. c.pc \in {"place", "record", "mark"} => c \in Placing(np, nh)
  BY DEF CycleStates, Idle, Placing
<1> QED
  BY <1>1, <1>2, <1>3, <1>4, <1>5, <1>6

\* Tables that grow leave room for it.
LEMMA CycleGrows ==
    ASSUME NEW np \in Nat, NEW nh \in Nat, NEW mp \in Nat, NEW mh \in Nat,
           np <= mp, nh <= mh
    PROVE  CycleStates(np, nh) \subseteq CycleStates(mp, mh)
<1>1. 0 .. nh \subseteq 0 .. mh /\ 1 .. nh \subseteq 1 .. mh /\ 1 .. np \subseteq 1 .. mp
  OBVIOUS
<1> QED
  BY <1>1 DEF CycleStates

\* The loop goes on after a rule of its list.
LEMMA CycleNextType ==
    ASSUME NEW np \in Nat, NEW nh \in Nat, cycle \in CycleStates(np, nh),
           cycle.pc \in {"apply", "place", "record", "mark"}, NEW r
    PROVE  CycleNext(r) \in CycleStates(np, nh) /\ CycleNext(r).pc # "place"
<1>1. cycle.total \in Nat /\ cycle.holding \in 0 .. nh
  BY CycleFacts
<1>2. cycle.todo \in SUBSET Rules
  BY CycleFacts DEF Placing
<1>3. [pc |-> "apply", total |-> cycle.total, holding |-> cycle.holding,
       todo |-> cycle.todo \ {r}] \in CycleStates(np, nh)
  BY <1>1, <1>2 DEF CycleStates
<1>4. Idle \in CycleStates(np, nh)
  BY DEF CycleStates
<1> QED
  BY <1>3, <1>4 DEF CycleNext, Idle

\* The lengths of the tables, and their active rows.
LEMMA TableFacts ==
    ASSUME BooksInv
    PROVE  /\ Len(positions) \in Nat /\ Len(holdings) \in Nat
           /\ Total(positions) \in Nat
           /\ Active(positions) \subseteq 1 .. Len(positions)
           /\ Existing \subseteq 0 .. Len(holdings)
<1>1. Len(holdings) \in Nat /\ Active(holdings) \subseteq 1 .. Len(holdings)
  BY TotalType DEF BooksInv, Tables
<1>2. Existing \subseteq 0 .. Len(holdings)
  BY <1>1 DEF Existing
<1> QED
  BY <1>1, <1>2, TotalType DEF BooksInv, Tables

\* The loop moves on by itself.
LEMMA CycleMoved ==
    ASSUME BooksInv, UNCHANGED <<positions, holdings, orders>>,
           cycle' \in CycleStates(Len(positions), Len(holdings)),
           cycle'.pc = "place" => cycle'.selected # {}
    PROVE  BooksInv'
  BY DEF BooksInv, Tables, Covered, Total, Active, Quantities, SettledDone, Settled, Done

\* The steps that read the books, the rules or the market.
LEMMA ReadingSteps ==
    ASSUME BooksInv, UseInv,
           \/ CycleAggregate \/ CycleSyncRead \/ CycleGenerate \/ CycleLoad
           \/ CycleReplace \/ CycleEvaluate
    PROVE  BooksInv'
<1> DEFINE States == CycleStates(Len(positions), Len(holdings))
<1>1. /\ Len(positions) \in Nat /\ Len(holdings) \in Nat /\ Total(positions) \in Nat
      /\ Existing \subseteq 0 .. Len(holdings) /\ cycle \in States
  BY TableFacts DEF BooksInv
<1>2. UNCHANGED <<positions, holdings, orders>>
  BY DEF CycleAggregate, CycleSyncRead, CycleGenerate, CycleLoad, CycleReplace,
         CycleEvaluate
<1>3. CASE CycleAggregate
  <2>1. cycle' \in States /\ cycle'.pc # "place"
    BY <1>1, <1>3 DEF CycleAggregate, CycleStates
  <2> QED
    BY <1>2, <2>1, CycleMoved
<1>4. CASE CycleSyncRead
  <2>1. cycle.total \in Nat /\ cycle.holding \in 0 .. Len(holdings)
    BY <1>1, <1>4, CycleFacts DEF CycleSyncRead
  <2>2. cycle' \in States /\ cycle'.pc # "place"
    BY <1>1, <1>4, <2>1 DEF CycleSyncRead, CycleStates
  <2> QED
    BY <1>2, <2>2, CycleMoved
<1>5. CASE CycleGenerate
  <2>1. cycle.pc = "generate" /\ cycle' = [cycle EXCEPT !.pc = "load"]
    BY <1>5 DEF CycleGenerate
  <2>2. cycle' \in States
    BY <1>1, <2>1, CycleFacts
  <2>3. cycle'.pc # "place"
    BY <2>1 DEF UseInv, CycleOK
  <2> QED
    BY <1>2, <2>2, <2>3, CycleMoved
<1>6. CASE CycleLoad
  <2>1. cycle.total \in Nat /\ cycle.holding \in 0 .. Len(holdings)
    BY <1>1, <1>6, CycleFacts DEF CycleLoad
  <2>2. file \in [Rules -> RuleStatuses]
    BY DEF UseInv, Acted
  <2>3. cycle' \in States /\ cycle'.pc # "place"
    BY <1>1, <1>6, <2>1, <2>2 DEF CycleLoad, CycleStates
  <2> QED
    BY <1>2, <2>3, CycleMoved
<1>7. CASE CycleReplace
  <2>1. cycle.pc = "replace" /\ cycle' = [cycle EXCEPT !.pc = "evaluate"]
    BY <1>7 DEF CycleReplace
  <2>2. cycle' \in States
    BY <1>1, <2>1, CycleFacts
  <2>3. cycle'.pc # "place"
    BY <2>1 DEF UseInv, CycleOK
  <2> QED
    BY <1>2, <2>2, <2>3, CycleMoved
<1>8. CASE CycleEvaluate
  <2>1. cycle.pc = "evaluate"
    BY <1>8 DEF CycleEvaluate
  <2>2. cycle.total \in Nat /\ cycle.holding \in 0 .. Len(holdings)
    BY <1>1, <2>1, CycleFacts
  <2>3. PICK todo \in SUBSET Rules :
          cycle' \in {Idle, [pc |-> "apply", total |-> cycle.total,
                             holding |-> cycle.holding, todo |-> todo]}
    BY <1>8 DEF CycleEvaluate
  <2>4. cycle' \in States /\ cycle'.pc # "place"
    BY <2>2, <2>3 DEF CycleStates, Idle
  <2> QED
    BY <1>2, <2>4, CycleMoved
<1> QED
  BY <1>3, <1>4, <1>5, <1>6, <1>7, <1>8

\* The rule's positions are selected, among those there are.
LEMMA SelectingStep ==
    ASSUME BooksInv, NEW r \in Rules, ApplyStart(r)
    PROVE  BooksInv'
<1> DEFINE States == CycleStates(Len(positions), Len(holdings))
           q == ReduceQty(r, cycle.total)
           new == [pc |-> "place", total |-> cycle.total,
                   holding |-> cycle.holding, todo |-> cycle.todo,
                   rule |-> r, selected |-> Select(q), left |-> q]
<1>1. /\ Len(positions) \in Nat /\ Len(holdings) \in Nat /\ cycle \in States
      /\ Active(positions) \subseteq 1 .. Len(positions)
  BY TableFacts DEF BooksInv
<1>2. cycle.pc = "apply" /\ UNCHANGED <<positions, holdings, orders>>
  BY DEF ApplyStart
<1>3. /\ cycle.total \in Nat /\ cycle.holding \in 0 .. Len(holdings)
      /\ cycle.todo \in SUBSET Rules
  BY <1>1, <1>2, CycleFacts
<1>4. q \in Nat
  BY <1>3 DEF ReduceQty
<1>5. Select(q) \subseteq 1 .. Len(positions)
  BY <1>1 DEF Select
<1>6. CASE cycle' = CycleNext(r)
  <2>1. cycle' \in States /\ cycle'.pc # "place"
    BY <1>1, <1>2, <1>6, CycleNextType
  <2> QED
    BY <1>2, <2>1, CycleMoved
<1>7. CASE cycle' = new /\ cycle.holding # 0 /\ Select(q) # {}
  <2> HIDE DEF q
  <2>1. cycle.holding \in 1 .. Len(holdings)
    BY <1>1, <1>3, <1>7
  <2>2. cycle' \in States /\ cycle'.selected # {}
    BY <1>3, <1>4, <1>5, <1>7, <2>1 DEF CycleStates
  <2> QED
    BY <1>2, <2>2, CycleMoved
<1> QED
  BY <1>6, <1>7 DEF ApplyStart

\* An order is refused, or all are placed and the rule is marked.
LEMMA LeavingSteps ==
    ASSUME BooksInv, PlaceCloseFails \/ MarkInUse
    PROVE  BooksInv'
<1>1. /\ Len(positions) \in Nat /\ Len(holdings) \in Nat
      /\ cycle \in CycleStates(Len(positions), Len(holdings))
  BY TableFacts DEF BooksInv
<1>2. /\ UNCHANGED <<positions, holdings, orders>>
      /\ cycle.pc \in {"place", "mark"} /\ cycle' = CycleNext(cycle.rule)
  BY DEF PlaceCloseFails, MarkInUse
<1>3. PICK r : r = cycle.rule
  OBVIOUS
<1>4. cycle' \in CycleStates(Len(positions), Len(holdings)) /\ cycle'.pc # "place"
  BY <1>1, <1>2, <1>3, CycleNextType
<1> QED
  BY <1>2, <1>4, CycleMoved
-----------------------------------------------------------------------------
(* The orders.                                                             *)

\* An order is in another state.
LEMMA OrdersChanged ==
    ASSUME BooksInv, UNCHANGED <<positions, holdings>>, NEW k \in 1 .. Len(orders),
           NEW x \in CloseOrders, x.pos = orders[k].pos, x.holding = orders[k].holding,
           x.done >= orders[k].done, x.exch = "open" => x.done = 0,
           orders' = [orders EXCEPT ![k] = x],
           cycle' \in CycleStates(Len(positions), Len(holdings)),
           cycle'.pc = "place" => cycle'.selected # {}
    PROVE  BooksInv'
<1>1. orders \in Seq(CloseOrders) /\ Tables(positions, holdings, orders)
  BY DEF BooksInv, Tables
<1>2. /\ orders' \in Seq(CloseOrders) /\ Len(orders') = Len(orders)
      /\ \A j \in 1 .. Len(orders) : orders'[j] = IF j = k THEN x ELSE orders[j]
  BY <1>1, ExceptSeq
<1>3. Len(orders) \in Nat /\ \A j \in 1 .. Len(orders) : orders[j].done \in Nat
  BY <1>1, OrdersOfTables
<1>4. DoneGrows(orders, orders')
  BY <1>2, <1>3 DEF DoneGrows
<1>5. Covered(positions, orders')
  BY <1>1, <1>4, OrdersCovered DEF BooksInv
<1>6. Tables(positions, holdings, orders')
  BY <1>1, <1>2, <1>4 DEF Tables, DoneGrows
<1>7. positions' = positions /\ holdings' = holdings
  OBVIOUS
<1>8. Tables(positions', holdings', orders') /\ Covered(positions', orders')
  BY <1>5, <1>6, <1>7
<1>9. cycle' \in CycleStates(Len(positions'), Len(holdings'))
  BY <1>7
<1>10. (Tables(positions, holdings, orders) /\ Covered(positions, orders))'
  BY <1>8 DEF Tables, Covered, Total, Active, Quantities, SettledDone, Settled, Done
<1> QED
  BY <1>9, <1>10 DEF BooksInv

\* An order with another status, or heard of.
OtherStates(k, s) == {[orders[k] EXCEPT !.status = s], [orders[k] EXCEPT !.heard = TRUE]}

LEMMA OrderStates ==
    ASSUME BooksInv, NEW k \in 1 .. Len(orders), NEW s \in Statuses,
           NEW x \in OtherStates(k, s)
    PROVE  /\ x \in CloseOrders /\ x.pos = orders[k].pos
           /\ x.holding = orders[k].holding /\ x.done >= orders[k].done
           /\ x.exch = "open" => x.done = 0
<1>1. orders \in Seq(CloseOrders) /\ (orders[k].exch = "open" => orders[k].done = 0)
  BY DEF BooksInv, Tables
<1>2. orders[k] \in CloseOrders
  BY <1>1, OrdersOfTables
<1>3. CASE x = [orders[k] EXCEPT !.status = s]
  <2>1. /\ x \in CloseOrders /\ x.pos = orders[k].pos /\ x.holding = orders[k].holding
        /\ x.done = orders[k].done /\ x.exch = orders[k].exch /\ x.done \in Nat
    BY <1>2, <1>3 DEF CloseOrders
  <2> QED
    BY <1>1, <2>1
<1>4. CASE x = [orders[k] EXCEPT !.heard = TRUE]
  <2>1. /\ x \in CloseOrders /\ x.pos = orders[k].pos /\ x.holding = orders[k].holding
        /\ x.done = orders[k].done /\ x.exch = orders[k].exch /\ x.done \in Nat
    BY <1>2, <1>4 DEF CloseOrders
  <2> QED
    BY <1>1, <2>1
<1> QED
  BY <1>3, <1>4 DEF OtherStates

\* Handlers, the exchange and lost messages change one order and no position.
LEMMA StatusSteps ==
    ASSUME BooksInv, NEW k \in 1 .. Len(orders), NEW s \in Statuses,
           UNCHANGED <<positions, holdings>>,
           cycle' \in CycleStates(Len(positions), Len(holdings)),
           cycle'.pc = "place" => cycle'.selected # {},
           \/ orders' = [orders EXCEPT ![k].status = s]
           \/ orders' = [orders EXCEPT ![k].heard = TRUE]
    PROVE  BooksInv'
<1>1. PICK x \in OtherStates(k, s) :
        orders' = [orders EXCEPT ![k] = x]
  <2> DEFINE y == [orders[k] EXCEPT !.status = s]
             z == [orders[k] EXCEPT !.heard = TRUE]
  <2>1. \/ orders' = [orders EXCEPT ![k] = y]
        \/ orders' = [orders EXCEPT ![k] = z]
    OBVIOUS
  <2> HIDE DEF y, z
  <2>2. \E x \in {y, z} : orders' = [orders EXCEPT ![k] = x]
    BY <2>1
  <2> QED
    BY <2>2 DEF y, z, OtherStates
<1>2. /\ x \in CloseOrders /\ x.pos = orders[k].pos
      /\ x.holding = orders[k].holding /\ x.done >= orders[k].done
      /\ x.exch = "open" => x.done = 0
  BY <1>1, OrderStates
<1>3. /\ x \in CloseOrders /\ x.pos = orders[k].pos
      /\ x.holding = orders[k].holding
  BY <1>2
<1>4. x.done >= orders[k].done /\ (x.exch = "open" => x.done = 0)
  BY <1>2
<1>5. orders' = [orders EXCEPT ![k] = x]
  BY <1>1
<1> QED
  BY <1>3, <1>4, <1>5, OrdersChanged

\* The exchange ends an order.
LEMMA EndingStep ==
    ASSUME BooksInv, NEW k \in 1 .. Len(orders), ExchangeEnds(k)
    PROVE  BooksInv'
<1>1. PICK s \in Outcomes, q \in 0 .. orders[k].qty :
        orders' = [orders EXCEPT ![k].exch = s, ![k].done = q]
  BY DEF ExchangeEnds
<1> DEFINE x == [orders[k] EXCEPT !.exch = s, !.done = q]
<1>2. orders[k] \in CloseOrders /\ orders[k].done = 0
  BY OrdersOfTables DEF BooksInv, Tables, ExchangeEnds
<1>3. q \in Nat /\ s \in EndStates /\ "open" \notin EndStates
  BY <1>1, <1>2, BoundsAssumption DEF CloseOrders, EndStates
<1>4. /\ x \in CloseOrders /\ x.pos = orders[k].pos
      /\ x.holding = orders[k].holding /\ x.done = q /\ x.exch = s
  BY <1>2, <1>3 DEF CloseOrders
<1>5. orders' = [orders EXCEPT ![k] = x]
  BY <1>1
<1>6. UNCHANGED <<positions, holdings, cycle>>
  BY DEF ExchangeEnds
<1>7. /\ cycle' \in CycleStates(Len(positions), Len(holdings))
      /\ cycle'.pc = "place" => cycle'.selected # {}
  BY <1>6 DEF BooksInv
<1> HIDE DEF x
<1>8. x.done >= orders[k].done /\ (x.exch = "open" => x.done = 0)
  BY <1>2, <1>3, <1>4
<1> QED
  BY <1>4, <1>5, <1>6, <1>7, <1>8, OrdersChanged

\* An order is placed for the first selected position.
LEMMA PlacingStep ==
    ASSUME BooksInv, PlaceClose
    PROVE  BooksInv'
<1>1. cycle \in CycleStates(Len(positions), Len(holdings)) /\ cycle.pc = "place"
  BY DEF BooksInv, PlaceClose
<1>2. Len(positions) \in Nat /\ Len(holdings) \in Nat
  BY TableFacts
<1>3. cycle \in Placing(Len(positions), Len(holdings))
  BY <1>1, <1>2, CycleFacts
<1> DEFINE i == Min(cycle.selected)
           q == IF positions[i].qty > cycle.left THEN cycle.left ELSE positions[i].qty
           x == CloseOrder(cycle.rule, i, cycle.holding, q)
<1>4. i \in cycle.selected /\ i \in 1 .. Len(positions)
  <2>1. cycle.selected \in SUBSET (1 .. Len(positions)) /\ cycle.selected # {}
    BY <1>1, <1>3 DEF Placing, BooksInv
  <2>2. cycle.selected \in SUBSET Nat
    BY <2>1
  <2>3. i \in cycle.selected
    BY <2>1, <2>2, SmallestElement
  <2> QED
    BY <2>1, <2>3
<1>5. positions[i].qty \in Nat
  <2>1. positions \in Seq(Position(1 .. NumPositions))
    BY DEF BooksInv, Tables
  <2>2. positions[i] \in Position(1 .. NumPositions)
    BY <1>4, <2>1, ElementOfSeq
  <2> QED
    BY <2>2 DEF Position
<1> HIDE DEF i
<1>6. q \in Nat /\ cycle.left - q \in Nat
  BY <1>3, <1>5 DEF Placing
<1>7. /\ orders' = Append(orders, x)
      /\ cycle' = [cycle EXCEPT !.pc = "record", !.left = cycle.left - q,
                                !.selected = cycle.selected \ {i}]
      /\ UNCHANGED <<positions, holdings>>
  BY DEF PlaceClose, i
<1> HIDE DEF q
<1>8. /\ x \in CloseOrders /\ x.pos = i /\ x.holding \in 1 .. Len(holdings)
      /\ x.exch = "open" /\ x.done = 0
  BY <1>2, <1>3, <1>4, <1>6 DEF Placing, CloseOrder, CloseOrders
<1> HIDE DEF x
<1>9. Tables(positions, holdings, orders) /\ orders \in Seq(CloseOrders)
  BY DEF BooksInv, Tables
<1>10. /\ orders' \in Seq(CloseOrders) /\ Len(orders') = Len(orders) + 1
       /\ \A j \in 1 .. Len(orders) : orders'[j] = orders[j]
       /\ orders'[Len(orders) + 1] = x
  BY <1>7, <1>8, <1>9, AppendProperties
<1>11. Len(orders) \in Nat /\ \A j \in 1 .. Len(orders) : orders[j].done \in Nat
  BY <1>9, OrdersOfTables
<1>12. DoneGrows(orders, orders')
  BY <1>10, <1>11 DEF DoneGrows
<1>13. Covered(positions, orders')
  BY <1>9, <1>12, OrdersCovered DEF BooksInv
<1>14. Tables(positions, holdings, orders')
  <2>1. ASSUME NEW j \in 1 .. Len(orders')
        PROVE  /\ orders'[j].pos \in 1 .. Len(positions)
               /\ orders'[j].holding \in 1 .. Len(holdings)
               /\ orders'[j].exch = "open" => orders'[j].done = 0
    <3>1. CASE j \in 1 .. Len(orders)
      BY <1>9, <1>10, <3>1 DEF Tables
    <3>2. CASE j = Len(orders) + 1
      BY <1>4, <1>8, <1>10, <3>2
    <3> QED
      BY <1>10, <1>11, <3>1, <3>2
  <2> QED
    BY <1>9, <1>10, <2>1 DEF Tables
<1>15. cycle' \in Placing(Len(positions), Len(holdings)) /\ cycle'.pc = "record"
  <2>1. PICK l \in Nat, sel \in SUBSET (1 .. Len(positions)) :
          l = cycle.left - q /\ sel = cycle.selected \ {i}
    BY <1>3, <1>6 DEF Placing
  <2>2. cycle' = [cycle EXCEPT !.pc = "record", !.left = l, !.selected = sel]
    BY <1>7, <2>1
  <2> QED
    BY <1>3, <2>2 DEF Placing
<1>16. /\ cycle' \in CycleStates(Len(positions'), Len(holdings'))
       /\ cycle'.pc = "place" => cycle'.selected # {}
  <2>1. cycle' \in CycleStates(Len(positions), Len(holdings))
    BY <1>15 DEF CycleStates, Placing
  <2> QED
    BY <1>7, <1>15, <2>1
<1>17. Tables(positions', holdings', orders') /\ Covered(positions', orders')
  BY <1>7, <1>13, <1>14
<1>18. (Tables(positions, holdings, orders) /\ Covered(positions, orders))'
  BY <1>17 DEF Tables, Covered, Total, Active, Quantities, SettledDone, Settled, Done
<1> QED
  BY <1>16, <1>18 DEF BooksInv

\* The order placed is recorded.
LEMMA RecordingStep ==
    ASSUME BooksInv, UseInv, RecordClose
    PROVE  BooksInv'
<1> DEFINE n == Len(orders)
           pc == IF cycle.left = 0 \/ cycle.selected = {} THEN "mark" ELSE "place"
<1>1. cycle \in CycleStates(Len(positions), Len(holdings)) /\ cycle.pc = "record"
  BY DEF BooksInv, RecordClose
<1>2. Len(positions) \in Nat /\ Len(holdings) \in Nat
  BY TableFacts
<1>3. cycle \in Placing(Len(positions), Len(holdings))
  BY <1>1, <1>2, CycleFacts
<1>4. n \in 1 .. Len(orders)
  BY <1>1, OrderFacts DEF UseInv, CycleOK
<1>5. /\ orders' = [orders EXCEPT ![n].status = "NEW"] /\ cycle' = [cycle EXCEPT !.pc = pc]
      /\ UNCHANGED <<positions, holdings>>
  BY DEF RecordClose
<1>6. pc \in {"mark", "place"} /\ (pc = "place" => cycle.selected # {})
  OBVIOUS
<1> HIDE DEF pc, n
<1>7. /\ cycle' \in Placing(Len(positions), Len(holdings))
      /\ cycle'.pc = "place" => cycle'.selected # {}
  BY <1>3, <1>5, <1>6 DEF Placing
<1>8. cycle' \in CycleStates(Len(positions), Len(holdings))
  BY <1>7 DEF CycleStates, Placing
<1>9. "NEW" \in Statuses
  BY StatusFacts
<1> QED
  BY <1>4, <1>5, <1>7, <1>8, <1>9, StatusSteps
-----------------------------------------------------------------------------
(* The tables.                                                             *)

\* The user positions change, or more of them are there.
LEMMA HoldingsStep ==
    ASSUME BooksInv, UNCHANGED <<positions, orders>>,
           holdings' \in Seq(Position({0})), Len(holdings') >= Len(holdings),
           cycle' \in CycleStates(Len(positions), Len(holdings)),
           cycle'.pc = "place" => cycle'.selected # {}
    PROVE  BooksInv'
<1>1. Tables(positions, holdings, orders) /\ Covered(positions, orders)
  BY DEF BooksInv
<1>2. Len(positions) \in Nat /\ Len(holdings) \in Nat /\ Len(holdings') \in Nat
  BY TableFacts, LenProperties
<1>3. cycle' \in CycleStates(Len(positions), Len(holdings'))
  BY <1>2, CycleGrows
<1>4. Tables(positions, holdings', orders)
  BY <1>1, <1>2 DEF Tables
<1>5. Tables(positions', holdings', orders') /\ Covered(positions', orders')
  BY <1>1, <1>4
<1>6. (Tables(positions, holdings, orders) /\ Covered(positions, orders))'
  BY <1>5 DEF Tables, Covered, Total, Active, Quantities, SettledDone, Settled, Done
<1>7. cycle' \in CycleStates(Len(positions'), Len(holdings'))
  BY <1>3
<1> QED
  BY <1>6, <1>7 DEF BooksInv

\* The loop writes the user positions.
LEMMA WritingStep ==
    ASSUME BooksInv, CycleSyncWrite
    PROVE  BooksInv'
<1> DEFINE table == Refreshed(holdings)
<1>1. /\ holdings \in Seq(Position({0})) /\ Len(holdings) \in Nat /\ Len(positions) \in Nat
      /\ Active(holdings) \subseteq 1 .. Len(holdings)
      /\ cycle \in CycleStates(Len(positions), Len(holdings)) /\ cycle.pc = "write"
  BY TableFacts, TotalType DEF BooksInv, Tables, CycleSyncWrite
<1>2. /\ cycle.total \in Nat /\ cycle.holding \in 0 .. Len(holdings)
      /\ cycle.quantity \in Nat
  BY <1>1, CycleFacts
<1>3. table \in Seq(Position({0})) /\ Len(table) >= Len(holdings)
  <2>1. CASE cycle.quantity = 0
    BY <1>1, <2>1 DEF Refreshed
  <2>2. CASE cycle.quantity # 0 /\ cycle.synced \in Active(holdings)
    <3> DEFINE k == cycle.synced
               y == [holdings[k] EXCEPT !.qty = cycle.quantity]
    <3>1. k \in 1 .. Len(holdings) /\ holdings[k] \in Position({0})
      BY <1>1, <2>2, ElementOfSeq
    <3>2. y \in Position({0})
      BY <1>2, <3>1 DEF Position
    <3>3. table = [holdings EXCEPT ![k] = y]
      BY <2>2 DEF Refreshed
    <3> HIDE DEF y, k, table
    <3>4. table \in Seq(Position({0})) /\ Len(table) = Len(holdings)
      BY <1>1, <3>1, <3>2, <3>3, ExceptSeq
    <3> QED
      BY <1>1, <3>4
  <2>3. CASE cycle.quantity # 0 /\ cycle.synced \notin Active(holdings)
    <3>1. PICK x \in Position({0}) : x = NewPosition(0, cycle.quantity)
      BY <1>2 DEF NewPosition, Position
    <3>2. table = Append(holdings, x)
      BY <2>3, <3>1 DEF Refreshed
    <3>3. Append(holdings, x) \in Seq(Position({0})) /\ Len(Append(holdings, x)) = Len(holdings) + 1
      BY <1>1, AppendProperties
    <3> HIDE DEF table
    <3> QED
      BY <1>1, <3>2, <3>3
  <2> QED
    BY <2>1, <2>2, <2>3
<1>4. PICK orphans :
        holdings' = [i \in 1 .. Len(table) |->
                       IF i \in orphans THEN MarkClosed(table, i)[i] ELSE table[i]]
  BY DEF CycleSyncWrite
<1> HIDE DEF table
<1>5. Len(table) \in Nat /\ \A i \in 1 .. Len(table) : table[i] \in Position({0})
  BY <1>3, LenProperties, ElementOfSeq
<1>6. \A i \in 1 .. Len(table) : MarkClosed(table, i)[i] \in Position({0})
  <2> TAKE i \in 1 .. Len(table)
  <2>1. MarkClosed(table, i) \in Seq(Position({0})) /\ Len(MarkClosed(table, i)) = Len(table)
    BY <1>3, MarkTotal
  <2> QED
    BY <2>1, ElementOfSeq
<1>7. \A i \in 1 .. Len(table) : holdings'[i] \in Position({0})
  BY <1>4, <1>5, <1>6
<1>8. holdings' \in Seq(Position({0})) /\ Len(holdings') = Len(table)
  BY <1>4, <1>5, <1>7, IsASeq, LenProperties
<1>9. /\ UNCHANGED <<positions, orders>>
      /\ cycle' = [pc |-> "generate", total |-> cycle.total, holding |-> cycle.holding]
  BY DEF CycleSyncWrite
<1>10. cycle' \in CycleStates(Len(positions), Len(holdings)) /\ cycle'.pc # "place"
  BY <1>2, <1>9 DEF CycleStates
<1>11. Len(holdings') >= Len(holdings)
  BY <1>3, <1>8
<1> QED
  BY <1>8, <1>9, <1>10, <1>11, HoldingsStep

\* What a handler at work knows of its order.
LEMMA HandledOrder ==
    ASSUME BooksInv, UseInv, NEW h \in Handlers,
           handler[h].pc \in {"closeOrderPosition", "closeUserPosition"}
    PROVE  LET o == handler[h].order
           IN /\ o \in 1 .. Len(orders) /\ orders[o].done \in Nat
              /\ orders[o].pos \in 1 .. Len(positions)
              /\ orders[o].holding \in 1 .. Len(holdings)
<1>1. handler[h].order \in 1 .. Len(orders)
  BY HandlerFacts
<1>2. orders \in Seq(CloseOrders)
  BY DEF BooksInv, Tables
<1> QED
  BY <1>1, <1>2, OrdersOfTables DEF BooksInv, Tables

\* A handler closes the order position, with its remainder.
LEMMA ClosingStep ==
    ASSUME BooksInv, UseInv, NEW h \in Handlers, CloseOrderPosition(h)
    PROVE  BooksInv'
<1> DEFINE o == handler[h].order
           i == orders[o].pos
           q == orders[o].done
           new == CloseAndCreateRemaining(positions, i, q)
<1>1. UNCHANGED <<holdings, orders, cycle>>
  BY DEF CloseOrderPosition
<1>2. CASE UNCHANGED positions
  BY <1>1, <1>2, CycleMoved DEF BooksInv
<1>3. CASE positions' = new /\ ~CloseRefused(positions, i, q)
  <2>1. o \in 1 .. Len(orders) /\ q \in Nat /\ i \in 1 .. Len(positions)
    BY HandledOrder DEF CloseOrderPosition
  <2>2. Tables(positions, holdings, orders) /\ positions \in Seq(Position(1 .. NumPositions))
    BY DEF BooksInv, Tables
  <2> HIDE DEF o
  <2>3. new \in Seq(Position(1 .. NumPositions)) /\ Closes(positions, new, i, q)
    BY <1>3, <2>1, <2>2, CloseTotal
  <2>4. Covered(new, orders)
    BY <2>1, <2>2, <2>3, CloseCovered DEF BooksInv
  <2> HIDE DEF new
  <2>5. Len(new) \in Nat /\ Len(new) >= Len(positions) /\ Len(positions) \in Nat
        /\ Len(holdings) \in Nat
    BY <2>3, TableFacts DEF Closes
  <2>6. Tables(new, holdings, orders)
    BY <2>2, <2>3, <2>5 DEF Tables
  <2>7. Tables(positions', holdings', orders') /\ Covered(positions', orders')
    BY <1>1, <1>3, <2>4, <2>6
  <2>8. (Tables(positions, holdings, orders) /\ Covered(positions, orders))'
    BY <2>7 DEF Tables, Covered, Total, Active, Quantities, SettledDone, Settled, Done
  <2>9. cycle \in CycleStates(Len(new), Len(holdings))
    BY <2>5, CycleGrows DEF BooksInv
  <2>10. /\ cycle' \in CycleStates(Len(positions'), Len(holdings'))
         /\ cycle'.pc = "place" => cycle'.selected # {}
    BY <1>1, <1>3, <2>9 DEF BooksInv
  <2> QED
    BY <2>8, <2>10 DEF BooksInv
<1> QED
  BY <1>2, <1>3 DEF CloseOrderPosition

\* A handler closes the user position, with its remainder.
LEMMA ClosingUserStep ==
    ASSUME BooksInv, UseInv, NEW h \in Handlers, CloseUserPosition(h)
    PROVE  BooksInv'
<1> DEFINE o == handler[h].order
           u == orders[o].holding
           q == orders[o].done
           new == CloseAndCreateRemaining(holdings, u, q)
<1>1. UNCHANGED <<positions, orders, cycle>>
  BY DEF CloseUserPosition
<1>2. CASE UNCHANGED holdings
  BY <1>1, <1>2, CycleMoved DEF BooksInv
<1>3. CASE holdings' = new /\ ~CloseRefused(holdings, u, q)
  <2>1. u \in 1 .. Len(holdings) /\ q \in Nat /\ holdings \in Seq(Position({0}))
    BY HandledOrder DEF CloseUserPosition, BooksInv, Tables
  <2>2. new \in Seq(Position({0})) /\ Closes(holdings, new, u, q)
    BY <1>3, <2>1, CloseTotal
  <2> HIDE DEF new
  <2>3. Len(holdings') >= Len(holdings) /\ holdings' \in Seq(Position({0}))
    BY <1>3, <2>2 DEF Closes
  <2>4. /\ cycle' \in CycleStates(Len(positions), Len(holdings))
        /\ cycle'.pc = "place" => cycle'.selected # {}
    BY <1>1 DEF BooksInv
  <2> QED
    BY <1>1, <2>3, <2>4, HoldingsStep
<1> QED
  BY <1>2, <1>3 DEF CloseUserPosition
-----------------------------------------------------------------------------
(* The invariant of the books and what follows from it.                    *)

\* At the start the books hold what the exchange does.
LEMMA BooksInit == Init => BooksInv
<1> SUFFICES ASSUME Init
             PROVE  BooksInv
  OBVIOUS
<1> DEFINE N == NumPositions
           D == 1 .. N
<1>1. N \in Nat \ {0} /\ PosQty \in Nat \ {0} /\ N * PosQty \in Nat
  BY BoundsAssumption
<1>2. positions = [i \in 1 .. N |-> NewPosition(i, PosQty)]
  BY DEF Init
<1>3. \A i \in 1 .. N : positions[i] \in Position(D) /\ ~positions[i].deleted
                        /\ positions[i].qty = PosQty
  BY <1>1, <1>2 DEF NewPosition, Position
<1>4. positions \in Seq(Position(D)) /\ Len(positions) = N
  BY <1>1, <1>2, <1>3, IsASeq, LenProperties
<1>5. holdings \in Seq(Position({0})) /\ Len(holdings) = 1
  <2>1. PICK x \in Position({0}) : holdings = <<x>>
    BY <1>1 DEF Init, NewPosition, Position
  <2> QED
    BY <2>1
<1>6. orders = << >> /\ orders \in Seq(CloseOrders) /\ Len(orders) = 0
  BY EmptySeq DEF Init
<1>7. Tables(positions, holdings, orders)
  BY <1>4, <1>5, <1>6 DEF Tables
<1>8. Active(positions) = 1 .. N
  BY <1>3, <1>4 DEF Active
<1>9. \A i \in 1 .. N : Quantities(positions)[i] = PosQty
  BY <1>3, <1>4 DEF Quantities
<1>10. N \in Nat /\ PosQty \in Int
  BY <1>1
<1>11. SumFunctionOnSet(Quantities(positions), 1 .. N) = N * PosQty
  <2> HIDE DEF N
  <2> QED
    BY <1>9, <1>10, SumConstant
<1>12. Total(positions) = N * PosQty
  BY <1>8, <1>11 DEF Total
<1>13. Settled(positions, orders) = {}
  BY <1>6 DEF Settled
<1>14. SettledDone(positions, orders) = 0
  BY <1>13, SumEmpty DEF SettledDone
<1>15. Covered(positions, orders)
  BY <1>1, <1>12, <1>14 DEF Covered
<1>16. cycle = Idle /\ cycle \in CycleStates(Len(positions), Len(holdings))
  BY DEF Init, CycleStates
<1> QED
  BY <1>7, <1>15, <1>16 DEF BooksInv, Idle

\* Every step keeps the books.
LEMMA BooksStep == UseInv /\ BooksInv /\ [Next]_vars => BooksInv'
<1> SUFFICES ASSUME UseInv, BooksInv, [Next]_vars
             PROVE  BooksInv'
  OBVIOUS
<1>1. ASSUME UNCHANGED <<positions, holdings, orders, cycle>>
      PROVE  BooksInv'
  BY <1>1, CycleMoved DEF BooksInv
<1>2. ASSUME NEW k \in 1 .. Len(orders), NEW s \in Statuses,
             UNCHANGED <<positions, holdings, cycle>>,
             \/ orders' = [orders EXCEPT ![k].status = s]
             \/ orders' = [orders EXCEPT ![k].heard = TRUE]
      PROVE  BooksInv'
  <2>1. /\ cycle' \in CycleStates(Len(positions), Len(holdings))
        /\ cycle'.pc = "place" => cycle'.selected # {}
    BY <1>2 DEF BooksInv
  <2> QED
    BY <1>2, <2>1, StatusSteps
<1>3. CASE Cycle
  BY <1>3, ReadingSteps, SelectingStep, LeavingSteps, PlacingStep, RecordingStep,
     WritingStep DEF Cycle
<1>4. ASSUME NEW h \in Handlers, Handle(h)
      PROVE  BooksInv'
  <2>1. CASE HandleStatus(h)
    <3>1. PICK k, s : /\ k = handler[h].order /\ s = handler[h].status
                      /\ orders' = [orders EXCEPT ![k].status = s]
                      /\ UNCHANGED <<positions, holdings, cycle>>
      BY <2>1 DEF HandleStatus
    <3>2. k \in 1 .. Len(orders) /\ s \in Statuses
      BY <2>1, <3>1, HandlerFacts DEF HandleStatus
    <3> QED
      BY <1>2, <3>1, <3>2
  <2>2. CASE HandleFilled(h)
    <3>1. PICK k : /\ k = handler[h].order
                   /\ orders' = [orders EXCEPT ![k].status = "FILLED"]
                   /\ UNCHANGED <<positions, holdings, cycle>>
      BY <2>2 DEF HandleFilled
    <3>2. k \in 1 .. Len(orders) /\ "FILLED" \in Statuses
      BY <2>2, <3>1, HandlerFacts, StatusFacts DEF HandleFilled
    <3> QED
      BY <1>2, <3>1, <3>2
  <2>3. CASE CloseOrderPosition(h) \/ CloseUserPosition(h)
    BY <2>3, ClosingStep, ClosingUserStep
  <2>4. CASE ResetRules(h)
    BY <1>1, <2>4 DEF ResetRules
  <2> QED
    BY <1>4, <2>1, <2>2, <2>3, <2>4 DEF Handle
<1>5. ASSUME NEW k \in 1 .. Len(orders),
             WsTake(k) \/ ScanQuery(k) \/ LoseMessage(k) \/ ExchangeEnds(k)
      PROVE  BooksInv'
  <2>1. CASE WsTake(k) \/ LoseMessage(k)
    <3>1. /\ orders' = [orders EXCEPT ![k].heard = TRUE]
          /\ UNCHANGED <<positions, holdings, cycle>>
      BY <2>1 DEF WsTake, LoseMessage
    <3>2. PICK s \in Statuses : TRUE
      BY StatusFacts
    <3> QED
      BY <1>2, <3>1, <3>2
  <2>2. CASE ScanQuery(k)
    BY <1>1, <2>2 DEF ScanQuery
  <2>3. CASE ExchangeEnds(k)
    BY <2>3, EndingStep
  <2> QED
    BY <1>5, <2>1, <2>2, <2>3
<1>6. CASE ScanCompare \/ InvalidateList \/ InvalidateNext
  BY <1>1, <1>6 DEF ScanCompare, InvalidateList, InvalidateNext
<1>7. ASSUME NEW r \in Rules, CreateRule(r)
      PROVE  BooksInv'
  BY <1>1, <1>7 DEF CreateRule
<1>8. CASE UNCHANGED vars
  BY <1>1, <1>8 DEF vars
<1>9. CASE Scan \/ Ws
  BY <1>4, <1>5, <1>6, <1>9 DEF Scan, Ws, Handlers
<1> QED
  BY <1>3, <1>5, <1>6, <1>7, <1>8, <1>9 DEF Next

\* The invariant of the books holds of every reachable state.
THEOREM BooksInvariant == Spec => []BooksInv
<1>1. Init => BooksInv
  BY BooksInit
<1>2. UseInv /\ BooksInv /\ [Next]_vars => BooksInv'
  BY BooksStep
<1> QED
  BY <1>1, <1>2, UseInvariant, PTL DEF Spec

\* However often a fill is handled, and whichever positions two close orders
\* share, the books never hold less than the exchange does.
THEOREM BooksCoverExchangeInvariant == Spec => []BooksCoverExchange
<1>1. ASSUME BooksInv
      PROVE  BooksCoverExchange
  <2> DEFINE S == Settled(positions, orders)
  <2>1. orders \in Seq(CloseOrders) /\ Total(positions) \in Nat
    BY <1>1, TableFacts DEF BooksInv, Tables
  <2>2. S \subseteq 1 .. Len(orders)
    BY DEF Settled
  <2>3. 1 .. Len(orders) \subseteq 1 .. Len(orders)
    OBVIOUS
  <2>4. SumFunctionOnSet(Done(orders), 1 .. Len(orders)) \in Nat
    BY <2>1, <2>3, SettledType
  <2> HIDE DEF S
  <2>5. /\ SumFunctionOnSet(Done(orders), S) \in Nat
        /\ SumFunctionOnSet(Done(orders), S)
             <= SumFunctionOnSet(Done(orders), 1 .. Len(orders))
    BY <2>1, <2>2, SettledType
  <2>6. ExchangeHeld = NumPositions * PosQty
                       - SumFunctionOnSet(Done(orders), 1 .. Len(orders))
    BY DEF ExchangeHeld, SumFunction, Done
  <2>7. Total(positions) + SumFunctionOnSet(Done(orders), S) >= NumPositions * PosQty
    BY <1>1 DEF BooksInv, Covered, SettledDone, S
  <2>8. NumPositions * PosQty \in Nat
    BY BoundsAssumption
  <2> QED
    BY <2>1, <2>4, <2>5, <2>6, <2>7, <2>8 DEF BooksCoverExchange
<1>2. BooksInv => BooksCoverExchange
  BY <1>1
<1> QED
  BY <1>2, BooksInvariant, PTL

\* The venue stays, and the counters within their bounds.
Bounded ==
    /\ venue \in Venues
    /\ invalidating \subseteq Rules
    /\ requests \in 0 .. MaxRequests
    /\ faults \in 0 .. MaxFaults

LEMMA BoundedStep == Bounded /\ [Next]_vars => Bounded'
<1> SUFFICES ASSUME Bounded, [Next]_vars
             PROVE  Bounded'
  OBVIOUS
<1>1. venue' = venue
  BY DEF Next, Cycle, CycleAggregate, CycleSyncRead, CycleSyncWrite, CycleGenerate,
     CycleLoad, CycleReplace, CycleEvaluate, ApplyStart, PlaceClose, PlaceCloseFails,
     RecordClose, MarkInUse, Scan, Ws, Handle, HandleStatus, HandleFilled,
     CloseOrderPosition, CloseUserPosition, ResetRules, ScanCompare, ScanQuery, WsTake,
     InvalidateList, InvalidateNext, CreateRule, ExchangeEnds, LoseMessage, vars
<1>2. invalidating' \subseteq Rules
  BY DEF Bounded, Next, Cycle, CycleAggregate, CycleSyncRead, CycleSyncWrite,
     CycleGenerate, CycleLoad, CycleReplace, CycleEvaluate, ApplyStart, PlaceClose,
     PlaceCloseFails, RecordClose, MarkInUse, Scan, Ws, Handle, HandleStatus,
     HandleFilled, CloseOrderPosition, CloseUserPosition, ResetRules, ScanCompare,
     ScanQuery, WsTake, InvalidateList, InvalidateNext, CreateRule, ExchangeEnds,
     LoseMessage, vars
<1>3. requests' = requests \/ Request
  BY DEF Next, Cycle, CycleAggregate, CycleSyncRead, CycleSyncWrite,
     CycleGenerate, CycleLoad, CycleReplace, CycleEvaluate, ApplyStart, PlaceClose,
     PlaceCloseFails, RecordClose, MarkInUse, Scan, Ws, Handle, HandleStatus,
     HandleFilled, CloseOrderPosition, CloseUserPosition, ResetRules, ScanCompare,
     ScanQuery, WsTake, InvalidateList, InvalidateNext, CreateRule, ExchangeEnds,
     LoseMessage, vars
<1>4. faults' = faults \/ Fault
  BY DEF Next, Cycle, CycleAggregate, CycleSyncRead, CycleSyncWrite,
     CycleGenerate, CycleLoad, CycleReplace, CycleEvaluate, ApplyStart, PlaceClose,
     PlaceCloseFails, RecordClose, MarkInUse, Scan, Ws, Handle, HandleStatus,
     HandleFilled, CloseOrderPosition, CloseUserPosition, ResetRules, ScanCompare,
     ScanQuery, WsTake, InvalidateList, InvalidateNext, CreateRule, ExchangeEnds,
     LoseMessage, vars
<1>5. requests' \in 0 .. MaxRequests /\ faults' \in 0 .. MaxFaults
  BY <1>3, <1>4, BoundsAssumption DEF Bounded, Request, Fault
<1> QED
  BY <1>1, <1>2, <1>5 DEF Bounded

\* Type correctness of the tables, the rules, the sync loop and the handlers.
THEOREM TypeInvariant == Spec => []TypeOK
<1>1. Init => Bounded
  BY BoundsAssumption DEF Init, Bounded
<1>2. Bounded /\ [Next]_vars => Bounded'
  BY BoundedStep
<1>3. UseInv /\ BooksInv /\ Bounded => TypeOK
  BY DEF UseInv, BooksInv, Bounded, Tables, Acted, HandlerStates, TypeOK
<1> QED
  BY <1>1, <1>2, <1>3, UseInvariant, BooksInvariant, PTL DEF Spec
=============================================================================
