----------------------------- MODULE RiskClose -----------------------------
(***************************************************************************)
(* How the risk control of the PMS closes the positions of one strategy.   *)
(*                                                                         *)
(* Every ten seconds the sync loop aggregates the active order positions,  *)
(* refreshes the user position, generates default rules, reads rule.csv,   *)
(* evaluates the active rules and, for each triggered one, places a close  *)
(* order per order position and marks the rule in_use.  The fills come     *)
(* back through two handlers that run concurrently with the loop and with  *)
(* each other, the WebSocket monitor ("ws") and the REST scanner ("scan"): *)
(* they close the order position, then the user position, then reset the   *)
(* strategy's rules.                                                       *)
(*                                                                         *)
(* Order positions and user positions are tables of PositionStore; the     *)
(* opening orders that created them are left out.                          *)
(***************************************************************************)
EXTENDS Integers, Sequences, FiniteSetsExt, Functions, PositionStore, VenueStatus

CONSTANTS
    Rules,          \* ids of the strategy's risk rules, numbers from 1
    InitialRules,   \* rules present at the start
    SignalRules,    \* rules a close signal may add
    DefaultBatches, \* sets of rules the default generator may add together
    Condition,      \* each rule's condition, operator and value, as one value
    Target,         \* the rule that a rule's action activates; 0 for reduce
    HalfRules,      \* rules with quantity_pct 0.5; the others close everything
    Venues,         \* exchanges the strategy may trade on
    NumPositions,   \* order positions at the start
    PosQty,         \* and the quantity of each
    MaxOrders,      \* bound: close orders the exchange accepts
    Outcomes,       \* how the exchange may end a close order
    MaxRequests,    \* bound: rules created and invalidations, by signals
    MaxFaults       \* bound: lost messages and refused placements

ASSUME RulesAssumption ==
    /\ Rules \subseteq Nat \ {0}
    /\ InitialRules \subseteq Rules
    /\ SignalRules \subseteq Rules
    /\ DefaultBatches \subseteq SUBSET Rules
    /\ HalfRules \subseteq Rules
    /\ DOMAIN Condition = Rules
    /\ Target \in [Rules -> Rules \cup {0}]
ASSUME BoundsAssumption == /\ Venues \subseteq AllVenues
                           /\ NumPositions \in Nat \ {0}
                           /\ PosQty \in Nat \ {0}
                           /\ MaxOrders \in Nat
                           /\ Outcomes \subseteq EndStates
                           /\ MaxRequests \in Nat
                           /\ MaxFaults \in Nat

Handlers == {"ws", "scan"}

VARIABLES
    venue,       \* the strategy's exchange; never changes
    rules,       \* RuleStore.rules, in memory; "absent" when not there
    file,        \* the statuses in rule.csv
    invalidating,\* rules an invalidation request still has to update
    positions,   \* user_order_positions of the strategy
    holdings,    \* user_positions of the strategy
    orders,      \* close orders: uprunning order and exchange state
    cycle,       \* the sync loop
    handler,     \* the two handlers of order updates
    requests,    \* bound: signals received so far
    faults       \* bound: faults injected so far

vars == <<venue, rules, file, invalidating, positions, holdings, orders, cycle,
          handler, requests, faults>>

Active(table) == {i \in 1 .. Len(table) : ~table[i].deleted}
Quantities(table) == [i \in 1 .. Len(table) |-> table[i].qty]
Total(table) == SumFunctionOnSet(Quantities(table), Active(table))

\* A close order: status is exchange_order_status of its uprunning order,
\* "absent" until CreateUprunningOrder; done is what the exchange has filled;
\* heard is set once the message with its outcome is delivered or lost.
CloseOrder(r, p, u, q) ==
    [rule |-> r, pos |-> p, holding |-> u, qty |-> q, status |-> "absent",
     exch |-> "open", done |-> 0, heard |-> FALSE]

Ended(o) == orders[o].exch # "open"

\* What the exchange still holds of the strategy.
ExchangeHeld ==
    NumPositions * PosQty - SumFunction([o \in 1 .. Len(orders) |-> orders[o].done])

Idle == [pc |-> "idle"]

\* The status a rule is created with: the target of another rule waits.
Born(r) == IF \E x \in Rules : Target[x] = r THEN "inactive" ELSE "active"

Init ==
    /\ venue \in Venues
    /\ rules = [r \in Rules |-> IF r \in InitialRules THEN Born(r) ELSE "absent"]
    /\ file = rules
    /\ invalidating = {}
    /\ positions = [i \in 1 .. NumPositions |-> NewPosition(i, PosQty)]
    /\ holdings = <<NewPosition(0, NumPositions * PosQty)>>
    /\ orders = << >>
    /\ cycle = Idle
    /\ handler = [h \in Handlers |-> Idle]
    /\ requests = 0
    /\ faults = 0

Fault == faults < MaxFaults /\ faults' = faults + 1
Request == requests < MaxRequests /\ requests' = requests + 1
-----------------------------------------------------------------------------
(* RuleStore.  Every update writes rule.csv under the lock it takes.       *)

\* writeLocked adds the rules only the file has, then writes all of them.
WriteRules(new) ==
    LET merged == [r \in Rules |-> IF new[r] = "absent" THEN file[r] ELSE new[r]]
    IN rules' = merged /\ file' = merged

\* UpdateRuleStatus: rules with the same condition follow; no write when the
\* rule is not in memory or has the status already.
SetStatus(r, s) ==
    IF rules[r] \in {"absent", s} THEN UNCHANGED <<rules, file>>
    ELSE WriteRules([x \in Rules |->
             IF rules[x] # "absent" /\ Condition[x] = Condition[r] THEN s ELSE rules[x]])

\* ResetRulesForStrategy.
Reset ==
    IF \A r \in Rules : rules[r] \in {"absent", "inactive"} THEN UNCHANGED <<rules, file>>
    ELSE WriteRules([r \in Rules |-> IF rules[r] = "absent" THEN "absent" ELSE "inactive"])

\* GetRule falls back to the file.
GetRule(r) == IF rules[r] # "absent" THEN rules[r] ELSE file[r]

\* HandleRPCCreateRule, on a close signal; a rule has a new id.
CreateRule(r) ==
    /\ r \in SignalRules
    /\ GetRule(r) = "absent"
    /\ Request
    /\ WriteRules([rules EXCEPT ![r] = "active"])
    /\ UNCHANGED <<venue, invalidating, positions, holdings, orders, cycle, handler, faults>>

\* HandleRPCInvalidateRulesForStrategy, on an open signal, lists the active
\* rules ...
InvalidateList ==
    /\ invalidating = {}
    /\ invalidating' = {r \in Rules : rules[r] = "active"}
    /\ invalidating' # {}
    /\ Request
    /\ UNCHANGED <<venue, rules, file, positions, holdings, orders, cycle, handler, faults>>

\* ... and updates one after the other.
InvalidateNext ==
    /\ invalidating # {}
    /\ SetStatus(Min(invalidating), "inactive")
    /\ invalidating' = invalidating \ {Min(invalidating)}
    /\ UNCHANGED <<venue, positions, holdings, orders, cycle, handler, requests, faults>>
-----------------------------------------------------------------------------
(* The sync loop: syncCycle.                                               *)

\* The user position the aggregator pairs with the strategy; 0 if none.
Existing == IF Active(holdings) = {} THEN {0} ELSE Active(holdings)

\* Step 3, AggregateFromPersistenceWithMetrics.
CycleAggregate ==
    /\ cycle.pc = "idle"
    /\ \E u \in Existing :
          cycle' = [pc |-> "sync", total |-> Total(positions), holding |-> u]
    /\ UNCHANGED <<venue, rules, file, invalidating, positions, holdings, orders, handler, requests, faults>>

\* Step 5, UserPositionSyncer, aggregates once more ...
CycleSyncRead ==
    /\ cycle.pc = "sync"
    /\ \E u \in Existing :
          cycle' = [pc |-> "write", total |-> cycle.total, holding |-> cycle.holding,
                    synced |-> u, quantity |-> Total(positions)]
    /\ UNCHANGED <<venue, rules, file, invalidating, positions, holdings, orders, handler, requests, faults>>

\* ... then refreshes the user position if it is still active, or creates
\* one, and, when no order position is active any more, closes those that
\* were not refreshed.
Refreshed(table) ==
    IF cycle.quantity = 0 THEN table
    ELSE IF cycle.synced \in Active(table)
         THEN [table EXCEPT ![cycle.synced].qty = cycle.quantity]
         ELSE Append(table, NewPosition(0, cycle.quantity))

\* Mutant: user positions without order positions are left alone.
CycleSyncWriteKeeps ==
    /\ cycle.pc = "write"
    /\ holdings' = Refreshed(holdings)
    /\ cycle' = [pc |-> "generate", total |-> cycle.total, holding |-> cycle.holding]
    /\ UNCHANGED <<venue, rules, file, invalidating, positions, orders, handler, requests, faults>>

CycleSyncWrite ==
    /\ cycle.pc = "write"
    /\ LET orphans == IF Active(positions) # {} THEN {}
                      ELSE Active(holdings) \
                           (IF cycle.quantity = 0 THEN {} ELSE {cycle.synced})
           table == Refreshed(holdings)
       IN holdings' = [i \in 1 .. Len(table) |->
                         IF i \in orphans THEN MarkClosed(table, i)[i] ELSE table[i]]
    /\ cycle' = [pc |-> "generate", total |-> cycle.total, holding |-> cycle.holding]
    /\ UNCHANGED <<venue, rules, file, invalidating, positions, orders, handler, requests, faults>>

\* Step 6, GenerateForMissingStrategies: a strategy with positions and no
\* active rule gets a batch of default rules, but not on Deribit.
CycleGenerate ==
    /\ cycle.pc = "generate"
    /\ LET fresh == {batch \in DefaultBatches : \A r \in batch : rules[r] = "absent"}
       IN IF /\ cycle.total > 0
             /\ venue # "deribit"
             /\ \A r \in Rules : rules[r] # "active"
             /\ fresh # {}
          THEN \E batch \in fresh :
                 WriteRules([r \in Rules |-> IF r \in batch THEN Born(r) ELSE rules[r]])
          ELSE UNCHANGED <<rules, file>>
    /\ cycle' = [cycle EXCEPT !.pc = "load"]
    /\ UNCHANGED <<venue, invalidating, positions, holdings, orders, handler, requests, faults>>

\* Step 7, SnapshotConfig: rule.csv is read before the lock is taken ...
CycleLoad ==
    /\ cycle.pc = "load"
    /\ cycle' = [pc |-> "replace", total |-> cycle.total, holding |-> cycle.holding,
                 cfg |-> file]
    /\ UNCHANGED <<venue, rules, file, invalidating, positions, holdings, orders, handler, requests, faults>>

\* ... and what was read replaces the rules in memory.
CycleReplace ==
    /\ cycle.pc = "replace"
    /\ rules' = cycle.cfg
    /\ cycle' = [cycle EXCEPT !.pc = "evaluate"]
    /\ UNCHANGED <<venue, file, invalidating, positions, holdings, orders, handler, requests, faults>>

\* Pipeline.Run on the positions of step 3: the market decides which of the
\* rules that were active in the file trigger.  First the rules they activate ...
CycleEvaluate ==
    /\ cycle.pc = "evaluate"
    /\ \E triggered \in SUBSET {r \in Rules : cycle.cfg[r] = "active" /\ cycle.total > 0} :
         LET waiting == {t \in {Target[r] : r \in triggered} \ {0} : GetRule(t) = "inactive"}
             reduce == {r \in triggered : Target[r] = 0}
         IN /\ IF waiting = {} THEN UNCHANGED <<rules, file>>
               ELSE WriteRules([r \in Rules |-> IF r \in waiting THEN "active" ELSE rules[r]])
            /\ cycle' = IF reduce = {} THEN Idle
                        ELSE [pc |-> "apply", total |-> cycle.total,
                              holding |-> cycle.holding, todo |-> reduce]
    /\ UNCHANGED <<venue, invalidating, positions, holdings, orders, handler, requests, faults>>

\* ... then the reduce actions, one after the other.
CycleNext(r) ==
    LET left == cycle.todo \ {r}
    IN IF left = {} THEN Idle
       ELSE [pc |-> "apply", total |-> cycle.total, holding |-> cycle.holding,
             todo |-> left]

\* The quantity action r closes of the aggregated one (executeReduce); half
\* of an odd quantity is rounded up.
ReduceQty(r, total) == IF r \in HalfRules THEN (total + 1) \div 2 ELSE total

\* selectOrderPositions: active positions by id up to the quantity; none
\* when they do not suffice.
Select(q) ==
    LET upTo(i) == {j \in Active(positions) : j <= i}
        before(i) == SumFunctionOnSet(Quantities(positions), upTo(i) \ {i})
    IN IF Total(positions) < q THEN {}
       ELSE {i \in Active(positions) : before(i) < q}

\* ApplyReduce: the rule must still be active and the user position known.
ApplyStart(r) ==
    /\ cycle.pc = "apply"
    /\ r \in cycle.todo
    /\ LET q == ReduceQty(r, cycle.total)
       IN cycle' = IF \/ GetRule(r) # "active"
                      \/ cycle.holding = 0
                      \/ Select(q) = {}
                   THEN CycleNext(r)
                   ELSE [pc |-> "place", total |-> cycle.total,
                         holding |-> cycle.holding, todo |-> cycle.todo,
                         rule |-> r, selected |-> Select(q), left |-> q]
    /\ UNCHANGED <<venue, rules, file, invalidating, positions, holdings, orders, handler, requests, faults>>

\* One close order on the exchange for the next selected position.
PlaceClose ==
    /\ cycle.pc = "place"
    /\ Len(orders) < MaxOrders
    /\ LET i == Min(cycle.selected)
           q == IF positions[i].qty > cycle.left THEN cycle.left ELSE positions[i].qty
       IN /\ orders' = Append(orders, CloseOrder(cycle.rule, i, cycle.holding, q))
          /\ cycle' = [cycle EXCEPT !.pc = "record", !.left = @ - q,
                                    !.selected = @ \ {i}]
    /\ UNCHANGED <<venue, rules, file, invalidating, positions, holdings, handler, requests, faults>>

\* Mutant: a refused order ends the action as if all had been placed.
PlaceCloseFailsMarks ==
    /\ cycle.pc = "place"
    /\ IF Len(orders) < MaxOrders THEN Fault ELSE UNCHANGED faults
    /\ cycle' = [cycle EXCEPT !.pc = "mark"]
    /\ UNCHANGED <<venue, rules, file, invalidating, positions, holdings, orders, handler, requests>>

\* The spread check or the exchange refuses: the action ends with the rule
\* still active and the orders placed so far pending.
PlaceCloseFails ==
    /\ cycle.pc = "place"
    /\ IF Len(orders) < MaxOrders THEN Fault ELSE UNCHANGED faults
    /\ cycle' = CycleNext(cycle.rule)
    /\ UNCHANGED <<venue, rules, file, invalidating, positions, holdings, orders, handler, requests>>

\* Mutant: the row keeps the exchange's own name of the state.
RecordCloseRaw ==
    /\ cycle.pc = "record"
    /\ orders' = [orders EXCEPT ![Len(orders)].status = "open"]
    /\ cycle' = [cycle EXCEPT !.pc = IF cycle.left = 0 \/ cycle.selected = {}
                                     THEN "mark" ELSE "place"]
    /\ UNCHANGED <<venue, rules, file, invalidating, positions, holdings, handler, requests, faults>>

\* CreateUprunningOrder for the order just placed.
RecordClose ==
    /\ cycle.pc = "record"
    /\ orders' = [orders EXCEPT ![Len(orders)].status = "NEW"]
    /\ cycle' = [cycle EXCEPT !.pc = IF cycle.left = 0 \/ cycle.selected = {}
                                     THEN "mark" ELSE "place"]
    /\ UNCHANGED <<venue, rules, file, invalidating, positions, holdings, handler, requests, faults>>

\* All orders are placed: the rule becomes in_use, whatever it is by now.
MarkInUse ==
    /\ cycle.pc = "mark"
    /\ SetStatus(cycle.rule, "in_use")
    /\ cycle' = CycleNext(cycle.rule)
    /\ UNCHANGED <<venue, invalidating, positions, holdings, orders, handler, requests, faults>>
-----------------------------------------------------------------------------
(* The exchange (external).                                                *)

\* A close order is reduce-only: it cannot fill more than is held.
ExchangeEnds(o) ==
    /\ orders[o].exch = "open"
    /\ \E s \in Outcomes, q \in 0 .. orders[o].qty :
         /\ q <= ExchangeHeld
         /\ HasFills(s) <=> q > 0
         /\ s = "filled" <=> q = orders[o].qty
         /\ orders' = [orders EXCEPT ![o].exch = s, ![o].done = q]
    /\ UNCHANGED <<venue, rules, file, invalidating, positions, holdings, cycle, handler, requests, faults>>

\* The message with the order's outcome does not arrive.
LoseMessage(o) ==
    /\ Ended(o)
    /\ ~orders[o].heard
    /\ Fault
    /\ orders' = [orders EXCEPT ![o].heard = TRUE]
    /\ UNCHANGED <<venue, rules, file, invalidating, positions, holdings, cycle, handler, requests>>
-----------------------------------------------------------------------------
(* The monitor and the scanner.  The scanner's list and answer, and the    *)
(* monitor's lookup, come before the handler's first write.                *)

Work(status, o) == [pc |-> IF status = "FILLED" THEN "filled" ELSE "status",
                    order |-> o, status |-> status]

\* The monitor takes the message with an order's outcome.  It drops it when
\* the order is not recorded yet, or (Binance) repeats the stored status.
WsTake(o) ==
    /\ handler["ws"].pc = "idle"
    /\ Ended(o)
    /\ ~orders[o].heard
    /\ orders' = [orders EXCEPT ![o].heard = TRUE]
    /\ LET status == WsStatus(venue, orders[o].exch)
       IN handler' = [handler EXCEPT !["ws"] =
                        IF \/ orders[o].status = "absent"
                           \/ DropsSameStatus(venue) /\ orders[o].status = status
                        THEN Idle
                        ELSE Work(status, o)]
    /\ UNCHANGED <<venue, rules, file, invalidating, positions, holdings, cycle, requests, faults>>

\* The scanner asks the exchange for an order it has listed as NEW ...
ScanQuery(o) ==
    /\ handler["scan"].pc = "idle"
    /\ o <= Len(orders)
    /\ orders[o].status \in Scannable
    /\ \E info \in RestStatuses(venue, orders[o].exch) :
         handler' = [handler EXCEPT !["scan"] = [pc |-> "compare", order |-> o, info |-> info]]
    /\ UNCHANGED <<venue, rules, file, invalidating, positions, holdings, orders, cycle, requests, faults>>

\* ... and handles an answer that differs from the status it has by then.
ScanCompare ==
    /\ handler["scan"].pc = "compare"
    /\ LET o == handler["scan"].order
           info == handler["scan"].info
       IN handler' = [handler EXCEPT !["scan"] =
                        IF orders[o].status = info THEN Idle ELSE Work(info, o)]
    /\ UNCHANGED <<venue, rules, file, invalidating, positions, holdings, orders, cycle, requests, faults>>

\* The statuses that make the rule of a close order active again.
Reactivates(h, status) ==
    IF h = "scan" THEN ScanFailure(status) ELSE status \in {"CANCELLED", "CANCELED", "FAILED"}

\* Any status but FILLED is stored; a failed close reactivates its rule.
HandleStatus(h) ==
    /\ handler[h].pc = "status"
    /\ LET o == handler[h].order
           status == handler[h].status
       IN /\ orders' = [orders EXCEPT ![o].status = status]
          /\ IF Reactivates(h, status) THEN SetStatus(orders[o].rule, "active")
                                       ELSE UNCHANGED <<rules, file>>
    /\ handler' = [handler EXCEPT ![h] = Idle]
    /\ UNCHANGED <<venue, invalidating, positions, holdings, cycle, requests, faults>>

\* A filled order: UpdateUprunningOrderFilled first.
HandleFilled(h) ==
    /\ handler[h].pc = "filled"
    /\ orders' = [orders EXCEPT ![handler[h].order].status = "FILLED"]
    /\ handler' = [handler EXCEPT ![h].pc = "closeOrderPosition"]
    /\ UNCHANGED <<venue, rules, file, invalidating, positions, holdings, cycle, requests, faults>>

\* CloseAndCreateRemainingUserOrderPosition, with the executed quantity; an
\* error ends both handlers.
CloseOrderPosition(h) ==
    /\ handler[h].pc = "closeOrderPosition"
    /\ LET o == handler[h].order
           i == orders[o].pos
           q == orders[o].done
       IN IF CloseRefused(positions, i, q)
          THEN /\ handler' = [handler EXCEPT ![h] = Idle]
               /\ UNCHANGED positions
          ELSE /\ positions' = CloseAndCreateRemaining(positions, i, q)
               /\ handler' = [handler EXCEPT ![h].pc = "closeUserPosition"]
    /\ UNCHANGED <<venue, rules, file, invalidating, holdings, orders, cycle, requests, faults>>

\* CloseAndCreateRemainingUserPosition; on an error the monitor's handler
\* returns, the scanner's logs it and goes on.
CloseUserPosition(h) ==
    /\ handler[h].pc = "closeUserPosition"
    /\ LET o == handler[h].order
           u == orders[o].holding
           q == orders[o].done
           refused == CloseRefused(holdings, u, q)
       IN /\ holdings' = IF refused THEN holdings
                         ELSE CloseAndCreateRemaining(holdings, u, q)
          /\ handler' = [handler EXCEPT ![h] =
                           IF refused /\ h = "ws" THEN Idle ELSE [@ EXCEPT !.pc = "reset"]]
    /\ UNCHANGED <<venue, rules, file, invalidating, positions, orders, cycle, requests, faults>>

\* ResetRulesForStrategy.
ResetRules(h) ==
    /\ handler[h].pc = "reset"
    /\ Reset
    /\ handler' = [handler EXCEPT ![h] = Idle]
    /\ UNCHANGED <<venue, invalidating, positions, holdings, orders, cycle, requests, faults>>
-----------------------------------------------------------------------------
Cycle == \/ CycleAggregate \/ CycleSyncRead \/ CycleSyncWrite \/ CycleGenerate
         \/ CycleLoad \/ CycleReplace \/ CycleEvaluate
         \/ \E r \in Rules : ApplyStart(r)
         \/ PlaceClose \/ PlaceCloseFails \/ RecordClose \/ MarkInUse

Handle(h) == \/ HandleStatus(h) \/ HandleFilled(h) \/ CloseOrderPosition(h)
             \/ CloseUserPosition(h) \/ ResetRules(h)

Scan == ScanCompare \/ Handle("scan") \/ \E o \in 1 .. Len(orders) : ScanQuery(o)
Ws == Handle("ws") \/ \E o \in 1 .. Len(orders) : WsTake(o)

Next == \/ Cycle \/ Scan \/ Ws \/ InvalidateList \/ InvalidateNext
        \/ \E r \in Rules : CreateRule(r)
        \/ \E o \in 1 .. Len(orders) : ExchangeEnds(o) \/ LoseMessage(o)

Spec == Init /\ [][Next]_vars

(***************************************************************************)
(* The sync loop, the scanner and the monitor's read loop run for ever; a   *)
(* pass of the scanner asks for every order it lists.                      *)
(***************************************************************************)
Fairness == /\ WF_vars(Cycle) /\ WF_vars(Scan) /\ WF_vars(Ws)
            /\ \A o \in 1 .. MaxOrders : SF_vars(ScanQuery(o))

FairSpec == Spec /\ Fairness
-----------------------------------------------------------------------------
(* Properties.                                                             *)

CloseOrders ==
    [rule : Rules, pos : Nat, holding : Nat, qty : Nat,
     status : {"absent"} \cup Statuses, exch : {"open"} \cup EndStates, done : Nat,
     heard : BOOLEAN]

RuleStatuses == {"absent", "active", "in_use", "inactive"}

\* The sync loop at each of its steps, with np positions and nh user
\* positions: what it has read, and what it is about to do.
CycleStates(np, nh) ==
    {Idle} \cup
    [pc : {"sync", "generate", "load"}, total : Nat, holding : 0 .. nh] \cup
    [pc : {"write"}, total : Nat, holding : 0 .. nh, synced : 0 .. nh, quantity : Nat] \cup
    [pc : {"replace", "evaluate"}, total : Nat, holding : 0 .. nh,
     cfg : [Rules -> RuleStatuses]] \cup
    [pc : {"apply"}, total : Nat, holding : 0 .. nh, todo : SUBSET Rules] \cup
    [pc : {"place", "record", "mark"}, total : Nat, holding : 1 .. nh,
     todo : SUBSET Rules, rule : Rules, selected : SUBSET (1 .. np), left : Nat]

\* Type correctness of the tables, the rules, the sync loop and the handlers.
TypeOK ==
    /\ venue \in Venues
    /\ {rules, file} \subseteq [Rules -> RuleStatuses]
    /\ invalidating \subseteq Rules
    /\ positions \in Seq(Position(1 .. NumPositions))
    /\ holdings \in Seq(Position({0}))
    /\ orders \in Seq(CloseOrders)
    /\ cycle \in CycleStates(Len(positions), Len(holdings))
    /\ handler \in [Handlers -> {Idle} \cup
          [pc : {"compare"}, order : 1 .. Len(orders), info : Statuses] \cup
          [pc : {"status", "filled", "closeOrderPosition", "closeUserPosition", "reset"},
           order : 1 .. Len(orders), status : Statuses]]
    /\ requests \in 0 .. MaxRequests
    /\ faults \in 0 .. MaxFaults

\* However often a fill is handled, and whichever positions two close orders
\* share, the books never hold less than the exchange does: risk control
\* does not lose sight of an exposure (CloseAndCreateRemaining...Position).
BooksCoverExchange == Total(positions) >= ExchangeHeld

\* A rule is in_use only when a close order was placed and recorded for it
\* or for a rule with the same condition: no rule is blocked unacted.
InUseHasOrder ==
    \A r \in Rules : rules[r] = "in_use" =>
        \E o \in 1 .. Len(orders) : /\ orders[o].status # "absent"
                                    /\ Condition[orders[o].rule] = Condition[r]

\* Messages may be lost, rules invalidated, requests refused: the position
\* of a close order the exchange fills is closed in the end.
FilledIsClosed ==
    \A o \in 1 .. MaxOrders :
        (o <= Len(orders) /\ orders[o].exch = "filled")
            ~> (o <= Len(orders) /\ positions[orders[o].pos].deleted)

\* When a strategy has no active order position left, the sync loop closes
\* its user positions, even those a handler failed to close.
OrphansAreClosed == (Active(positions) = {}) ~> (Active(holdings) = {})

\* "prevents duplicate triggering": a rule has at most one unfinished close
\* order on a position.
NoDuplicateTrigger ==
    \A o1, o2 \in 1 .. Len(orders) :
        /\ orders[o1].rule = orders[o2].rule
        /\ orders[o1].pos = orders[o2].pos
        /\ ~Ended(o1)
        /\ ~Ended(o2)
        => o1 = o2

\* "Rules already inactive or in_use are not affected": the step of an
\* invalidation that makes an active rule inactive leaves in_use rules alone.
InvalidateSparesInUse ==
    [][/\ invalidating' # invalidating
       /\ invalidating # {}
       /\ rules[Min(invalidating)] = "active"
       => \A r \in Rules : rules[r] = "in_use" => rules'[r] = "in_use"]_vars
=============================================================================
