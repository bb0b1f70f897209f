----------------------------- MODULE OrderFill -----------------------------
(***************************************************************************)
(* How an opening order becomes a position.                                *)
(*                                                                         *)
(* The user order service (UOS) stores a user order, places it on the      *)
(* exchange and registers it with the PMS as an uprunning order.  In the   *)
(* PMS two workers learn of the fill independently: the WebSocket monitor  *)
(* of the venue and the REST scanner.  Either one marks the uprunning      *)
(* order FILLED, asks the UOS for the order's strategy and leverage,       *)
(* creates the position if it is absent, and notifies the UOS from a       *)
(* goroutine of its own.                                                   *)
(*                                                                         *)
(* The exchange, the network and the risk control that later closes a      *)
(* position are the environment.                                           *)
(***************************************************************************)
EXTENDS Naturals, Sequences, FiniteSets, PositionStore, VenueStatus

CONSTANTS
    Orders,          \* user orders, each placed at most once
    Venues,          \* the exchanges orders are placed on
    CreateAttempts,  \* RPC attempts of createUprunningOrderViaRPC (3 in the code)
    WsNotifyAttempts,\* RPC attempts of notifyUOSFilled (3 in the code)
    OrderQty,        \* quantity of every order, filled in full
    FaultKinds,      \* the faults the environment may inject
    MaxFaults,       \* bound: number of injected faults
    MaxCloses        \* bound: number of position closes by risk control

Faults == {"place", "create", "event", "replay", "rest", "metadata", "notify", "restart"}

ASSUME VenuesAssumption == Venues \subseteq AllVenues
ASSUME BoundsAssumption == /\ CreateAttempts \in Nat \ {0}
                           /\ WsNotifyAttempts \in Nat \ {0}
                           /\ OrderQty \in Nat \ {0}
                           /\ MaxFaults \in Nat
                           /\ MaxCloses \in Nat
ASSUME FaultsAssumption == FaultKinds \subseteq Faults

\* One uprunning order per RPC attempt that reached the PMS.
Runs == Orders \X (1 .. CreateAttempts)

VARIABLES
    userOrder,  \* UOS: user_orders.status of each order
    opening,    \* UOS: progress of HandleOpen for each order
    venue,      \* UOS: the exchange of each order, from its signal
    exch,       \* exchange: true state of each order
    stream,     \* per venue, WebSocket messages on their way to the PMS, in order
    running,    \* PMS: exchange_order_status of each uprunning order
    positions,  \* PMS: the user_order_positions table
    ws,         \* PMS: the WebSocket worker of each venue
    scan,       \* PMS: the scanner
    notes,      \* PMS: goroutines about to tell the UOS an order's outcome
    faults,     \* bound: faults injected so far
    closes      \* bound: positions closed so far

vars == <<userOrder, opening, venue, exch, stream, running, positions, ws, scan,
          notes, faults, closes>>

RunsOf(o) == {r \in Runs : r[1] = o /\ running[r] # "absent"}

WsIdle == [pc |-> "idle"]
ScanIdle == [pc |-> "idle", todo |-> {}]

Note(o, value, by, tries) ==
    [order |-> o, value |-> value, by |-> by, tries |-> tries]

\* The venue announces state s of order o on its stream.
Send(o, s) == [stream EXCEPT ![venue[o]] =
                 Append(@, [order |-> o, status |-> WsStatus(venue[o], s)])]

Fault(kind) == /\ kind \in FaultKinds
               /\ faults < MaxFaults
               /\ faults' = faults + 1

Init ==
    /\ userOrder = [o \in Orders |-> "none"]
    /\ opening = [o \in Orders |-> [pc |-> "idle", tries |-> 0]]
    /\ venue = [o \in Orders |-> "none"]
    /\ exch = [o \in Orders |-> "absent"]
    /\ stream = [v \in Venues |-> << >>]
    /\ running = [r \in Runs |-> "absent"]
    /\ positions = << >>
    /\ ws = [v \in Venues |-> WsIdle]
    /\ scan = ScanIdle
    /\ notes = {}
    /\ faults = 0
    /\ closes = 0
-----------------------------------------------------------------------------
(* UOS: Handler.HandleOpen from the creation of the user order on.         *)

\* CreateUserOrder, status 1, on the exchange the signal names.
CreateUserOrder(o) ==
    /\ opening[o].pc = "idle"
    /\ \E v \in Venues : venue' = [venue EXCEPT ![o] = v]
    /\ userOrder' = [userOrder EXCEPT ![o] = "pending"]
    /\ opening' = [opening EXCEPT ![o].pc = "place"]
    /\ UNCHANGED <<exch, stream, running, positions, ws, scan, notes, faults, closes>>

\* CreateOrder succeeds: the handler goes on to register the order.
PlaceOrder(o) ==
    /\ opening[o].pc = "place"
    /\ exch' = [exch EXCEPT ![o] = "open"]
    /\ stream' = Send(o, "open")
    /\ opening' = [opening EXCEPT ![o].pc = "register"]
    /\ UNCHANGED <<userOrder, venue, running, positions, ws, scan, notes, faults, closes>>

\* Mutant: the handler goes on after a failed placement.
PlaceOrderFailsGoesOn(o) ==
    /\ opening[o].pc = "place"
    /\ Fault("place")
    /\ exch' = [exch EXCEPT ![o] = "open"]
    /\ stream' = Send(o, "open")
    /\ userOrder' = [userOrder EXCEPT ![o] = "failed"]
    /\ opening' = [opening EXCEPT ![o].pc = "register"]
    /\ UNCHANGED <<venue, running, positions, ws, scan, notes, closes>>

\* CreateOrder returns an error, whether or not the exchange took the order:
\* the handler marks the user order failed and returns.
PlaceOrderFails(o) ==
    /\ opening[o].pc = "place"
    /\ Fault("place")
    /\ \/ UNCHANGED <<exch, stream>>
       \/ /\ exch' = [exch EXCEPT ![o] = "open"]
          /\ stream' = Send(o, "open")
    /\ userOrder' = [userOrder EXCEPT ![o] = "failed"]
    /\ opening' = [opening EXCEPT ![o].pc = "done"]
    /\ UNCHANGED <<venue, running, positions, ws, scan, notes, closes>>

\* Mutant: the row keeps the venue's own name of the state.
RegisterOrderRaw(o) ==
    /\ opening[o].pc = "register"
    /\ running' = [running EXCEPT ![<<o, opening[o].tries + 1>>] = "open"]
    /\ opening' = [opening EXCEPT ![o].pc = "done"]
    /\ UNCHANGED <<userOrder, venue, exch, stream, positions, ws, scan, notes, faults, closes>>

\* createUprunningOrderViaRPC, one attempt answered: the PMS stores a new
\* uprunning order with the status NEW every adapter's CreateOrder returns.
RegisterOrder(o) ==
    /\ opening[o].pc = "register"
    /\ running' = [running EXCEPT ![<<o, opening[o].tries + 1>>] = "NEW"]
    /\ opening' = [opening EXCEPT ![o].pc = "done"]
    /\ UNCHANGED <<userOrder, venue, exch, stream, positions, ws, scan, notes, faults, closes>>

\* An attempt fails before or after the PMS has stored a row; the handler
\* tries again until its attempts are used up, then only logs the order.
RegisterOrderFails(o) ==
    /\ opening[o].pc = "register"
    /\ Fault("create")
    /\ running' \in {running, [running EXCEPT ![<<o, opening[o].tries + 1>>] = "NEW"]}
    /\ opening' = [opening EXCEPT ![o] =
                     [pc |-> IF @.tries + 1 < CreateAttempts THEN "register" ELSE "done",
                      tries |-> IF @.tries + 1 < CreateAttempts THEN @.tries + 1 ELSE @.tries]]
    /\ UNCHANGED <<userOrder, venue, exch, stream, positions, ws, scan, notes, closes>>
-----------------------------------------------------------------------------
(* The exchange and its WebSocket stream (external).                       *)

ExchangeMoves(o) ==
    /\ exch[o] \in OpenStates
    /\ \E s \in {"partial"} \cup EndStates :
         /\ exch[o] # s
         /\ exch[o] = "partial" => HasFills(s)
         /\ exch' = [exch EXCEPT ![o] = s]
         /\ stream' = Send(o, s)
    /\ UNCHANGED <<userOrder, opening, venue, running, positions, ws, scan, notes, faults, closes>>

\* A broken connection: the messages under way are gone.
LoseStream(v) ==
    /\ stream[v] # << >>
    /\ Fault("event")
    /\ stream' = [stream EXCEPT ![v] = << >>]
    /\ UNCHANGED <<userOrder, opening, venue, exch, running, positions, ws, scan, notes, closes>>

\* The venue sends the current state of an order again.
ReplayEvent(o) ==
    /\ exch[o] # "absent"
    /\ Fault("replay")
    /\ stream' = Send(o, exch[o])
    /\ UNCHANGED <<userOrder, opening, venue, exch, running, positions, ws, scan, notes, closes>>
-----------------------------------------------------------------------------
(* PMS: the WebSocket worker handles one message at a time.                *)

\* The message's order is looked up; a repeated status may be dropped.
WsFind(v) ==
    /\ ws[v].pc = "idle"
    /\ stream[v] # << >>
    /\ LET e == Head(stream[v])
       IN \E r \in RunsOf(e.order) :
            ws' = [ws EXCEPT ![v] =
                     IF DropsSameStatus(v) /\ running[r] = e.status
                     THEN WsIdle
                     ELSE [pc |-> IF e.status = "FILLED" THEN "mark" ELSE "status",
                           run |-> r, status |-> e.status]]
    /\ stream' = [stream EXCEPT ![v] = Tail(@)]
    /\ UNCHANGED <<userOrder, opening, venue, exch, running, positions, scan, notes, faults, closes>>

\* Five lookups find no uprunning order: the message is dropped.
WsNotFound(v) ==
    /\ ws[v].pc = "idle"
    /\ stream[v] # << >>
    /\ RunsOf(Head(stream[v]).order) = {}
    /\ stream' = [stream EXCEPT ![v] = Tail(@)]
    /\ UNCHANGED <<userOrder, opening, venue, exch, running, positions, ws, scan, notes, faults, closes>>

\* HandleOrderFilled: UpdateUprunningOrderFilled, whatever the status was.
WsMarkFilled(v) ==
    /\ ws[v].pc = "mark"
    /\ running' = [running EXCEPT ![ws[v].run] = "FILLED"]
    /\ ws' = [ws EXCEPT ![v].pc = "metadata"]
    /\ UNCHANGED <<userOrder, opening, venue, exch, stream, positions, scan, notes, faults, closes>>

\* handleUserOrderFilled after its metadata query: create the position if
\* absent and start notifyUOSFilled in either case.
WsOpenPosition(v) ==
    /\ ws[v].pc = "metadata"
    /\ positions' = CreateIfAbsent(positions, ws[v].run, OrderQty)
    /\ notes' = notes \cup {Note(ws[v].run[1], "filled", "ws", WsNotifyAttempts)}
    /\ ws' = [ws EXCEPT ![v] = WsIdle]
    /\ UNCHANGED <<userOrder, opening, venue, exch, stream, running, scan, faults, closes>>

\* The metadata query fails: the handler returns with the order FILLED.
WsMetadataFails(v) ==
    /\ ws[v].pc = "metadata"
    /\ Fault("metadata")
    /\ ws' = [ws EXCEPT ![v] = WsIdle]
    /\ UNCHANGED <<userOrder, opening, venue, exch, stream, running, positions, scan, notes, closes>>

\* Mutant: every status that is not FILLED tells the UOS of a failure.
WsUpdateStatusAnyFails(v) ==
    /\ ws[v].pc = "status"
    /\ running' = [running EXCEPT ![ws[v].run] = ws[v].status]
    /\ notes' = notes \cup {Note(ws[v].run[1], "failed", "ws", 1)}
    /\ ws' = [ws EXCEPT ![v] = WsIdle]
    /\ UNCHANGED <<userOrder, opening, venue, exch, stream, positions, scan, faults, closes>>

\* HandleOrderStatusUpdate: store any other status; the spelling CANCELLED
\* also tells the UOS, once, that the order failed.
WsUpdateStatus(v) ==
    /\ ws[v].pc = "status"
    /\ running' = [running EXCEPT ![ws[v].run] = ws[v].status]
    /\ notes' = IF ws[v].status = "CANCELLED"
                THEN notes \cup {Note(ws[v].run[1], "failed", "ws", 1)}
                ELSE notes
    /\ ws' = [ws EXCEPT ![v] = WsIdle]
    /\ UNCHANGED <<userOrder, opening, venue, exch, stream, positions, scan, faults, closes>>
-----------------------------------------------------------------------------
(* PMS: OrderStatusScanner.scan.                                           *)

ScanBegin ==
    /\ scan.pc = "idle"
    /\ \E r \in Runs : running[r] \in Scannable
    /\ scan' = [pc |-> "query", todo |-> {r \in Runs : running[r] \in Scannable}]
    /\ UNCHANGED <<userOrder, opening, venue, exch, stream, running, positions, ws, notes, faults, closes>>

\* Go on with the orders left, or end the scan.
ScanNext(r) ==
    LET left == scan.todo \ {r}
    IN IF left = {} THEN ScanIdle ELSE [pc |-> "query", todo |-> left]

\* GetOrder: the answer is the order's state when the exchange read it.
ScanQuery(r) ==
    /\ scan.pc = "query"
    /\ r \in scan.todo
    /\ \E info \in RestStatuses(venue[r[1]], exch[r[1]]) :
         scan' = [pc |-> "compare", todo |-> scan.todo, run |-> r, info |-> info]
    /\ UNCHANGED <<userOrder, opening, venue, exch, stream, running, positions, ws, notes, faults, closes>>

ScanQueryFails(r) ==
    /\ scan.pc = "query"
    /\ r \in scan.todo
    /\ Fault("rest")
    /\ scan' = ScanNext(r)
    /\ UNCHANGED <<userOrder, opening, venue, exch, stream, running, positions, ws, notes, closes>>

\* The answer equals the status the order has by now.
ScanUnchanged ==
    /\ scan.pc = "compare"
    /\ running[scan.run] = scan.info
    /\ scan' = ScanNext(scan.run)
    /\ UNCHANGED <<userOrder, opening, venue, exch, stream, running, positions, ws, notes, faults, closes>>

\* Mutant: the scanner marks the order and leaves the position to the monitor.
ScanMarkFilledOnly ==
    /\ scan.pc = "compare"
    /\ running[scan.run] # scan.info
    /\ scan.info = "FILLED"
    /\ running' = [running EXCEPT ![scan.run] = "FILLED"]
    /\ scan' = ScanNext(scan.run)
    /\ UNCHANGED <<userOrder, opening, venue, exch, stream, positions, ws, notes, faults, closes>>

\* An order found FILLED is marked, whichever status it has by now.
ScanMarkFilled ==
    /\ scan.pc = "compare"
    /\ running[scan.run] # scan.info
    /\ scan.info = "FILLED"
    /\ running' = [running EXCEPT ![scan.run] = "FILLED"]
    /\ scan' = [scan EXCEPT !.pc = "metadata"]
    /\ UNCHANGED <<userOrder, opening, venue, exch, stream, positions, ws, notes, faults, closes>>

\* handleFilled after its metadata query; the notification is tried once.
ScanOpenPosition ==
    /\ scan.pc = "metadata"
    /\ positions' = CreateIfAbsent(positions, scan.run, OrderQty)
    /\ notes' = notes \cup {Note(scan.run[1], "filled", "scanner", 1)}
    /\ scan' = ScanNext(scan.run)
    /\ UNCHANGED <<userOrder, opening, venue, exch, stream, running, ws, faults, closes>>

ScanMetadataFails ==
    /\ scan.pc = "metadata"
    /\ Fault("metadata")
    /\ scan' = ScanNext(scan.run)
    /\ UNCHANGED <<userOrder, opening, venue, exch, stream, running, positions, ws, notes, closes>>

\* Cancelled or failed: store it and tell the UOS, once.
ScanMarkFailed ==
    /\ scan.pc = "compare"
    /\ running[scan.run] # scan.info
    /\ ScanFailure(scan.info)
    /\ running' = [running EXCEPT ![scan.run] = scan.info]
    /\ notes' = notes \cup {Note(scan.run[1], "failed", "scanner", 1)}
    /\ scan' = ScanNext(scan.run)
    /\ UNCHANGED <<userOrder, opening, venue, exch, stream, positions, ws, faults, closes>>

\* Any other answer is stored as it is.
ScanUpdateStatus ==
    /\ scan.pc = "compare"
    /\ running[scan.run] # scan.info
    /\ scan.info # "FILLED"
    /\ ~ScanFailure(scan.info)
    /\ running' = [running EXCEPT ![scan.run] = scan.info]
    /\ scan' = ScanNext(scan.run)
    /\ UNCHANGED <<userOrder, opening, venue, exch, stream, positions, ws, notes, faults, closes>>
-----------------------------------------------------------------------------
(* Notifications to the UOS, a restart of the PMS, closes by risk control. *)

\* handleUpdateOrderStatus of the UOS stores the status it is sent.
DeliverNote(n) ==
    /\ n \in notes
    /\ userOrder' = [userOrder EXCEPT ![n.order] = n.value]
    /\ notes' = notes \ {n}
    /\ UNCHANGED <<opening, venue, exch, stream, running, positions, ws, scan, faults, closes>>

\* An attempt fails; the goroutine gives up when none is left.
NoteFails(n) ==
    /\ n \in notes
    /\ Fault("notify")
    /\ notes' = (notes \ {n}) \cup
                (IF n.tries > 1 THEN {[n EXCEPT !.tries = @ - 1]} ELSE {})
    /\ UNCHANGED <<userOrder, opening, venue, exch, stream, running, positions, ws, scan, closes>>

\* An orderly restart: writes under way are flushed, the rest is forgotten.
Restart ==
    /\ Fault("restart")
    /\ ws' = [v \in Venues |-> WsIdle]
    /\ scan' = ScanIdle
    /\ notes' = {}
    /\ stream' = [v \in Venues |-> << >>]
    /\ UNCHANGED <<userOrder, opening, venue, exch, running, positions, closes>>

\* Risk control closes all or part of an active position.
ClosePosition(i) ==
    /\ closes < MaxCloses
    /\ ~positions[i].deleted
    /\ \E q \in 1 .. positions[i].qty :
          positions' = CloseAndCreateRemaining(positions, i, q)
    /\ closes' = closes + 1
    /\ UNCHANGED <<userOrder, opening, venue, exch, stream, running, ws, scan, notes, faults>>
-----------------------------------------------------------------------------
Open(o) == \/ CreateUserOrder(o) \/ PlaceOrder(o) \/ PlaceOrderFails(o)
           \/ RegisterOrder(o) \/ RegisterOrderFails(o)

Exchange == \/ \E o \in Orders : ExchangeMoves(o) \/ ReplayEvent(o)
            \/ \E v \in Venues : LoseStream(v)

Ws(v) == \/ WsFind(v) \/ WsNotFound(v) \/ WsMarkFilled(v) \/ WsOpenPosition(v)
         \/ WsMetadataFails(v) \/ WsUpdateStatus(v)

Scan == \/ ScanBegin \/ ScanUnchanged \/ ScanMarkFilled \/ ScanOpenPosition
        \/ ScanMetadataFails \/ ScanMarkFailed \/ ScanUpdateStatus
        \/ \E r \in Runs : ScanQuery(r) \/ ScanQueryFails(r)

Notify == \E n \in notes : DeliverNote(n) \/ NoteFails(n)

Next == \/ \E o \in Orders : Open(o)
        \/ \E v \in Venues : Ws(v)
        \/ Exchange \/ Scan \/ Notify \/ Restart
        \/ \E i \in 1 .. Len(positions) : ClosePosition(i)

Spec == Init /\ [][Next]_vars

(***************************************************************************)
(* The service's own goroutines keep running: each worker is a loop, each  *)
(* notification a goroutine, and the HTTP handler that opened an order     *)
(* runs to its end.  Nothing is assumed of the exchange.                   *)
(***************************************************************************)
Fairness == /\ \A o \in Orders : WF_vars(RegisterOrder(o))
            /\ \A v \in Venues : WF_vars(Ws(v))
            /\ WF_vars(Scan)
            /\ \A o \in Orders, v \in {"filled", "failed"}, b \in {"ws", "scanner"} :
                 WF_vars(\E t \in 1 .. WsNotifyAttempts : DeliverNote(Note(o, v, b, t)))

FairSpec == Spec /\ Fairness
-----------------------------------------------------------------------------
(* Properties.                                                             *)

ExchangeStates == OpenStates \cup EndStates
OpeningStates == [pc : {"idle", "place", "register", "done"}, tries : 0 .. CreateAttempts - 1]
Messages == [order : Orders, status : Statuses]
WsWork == [pc : {"mark", "status", "metadata"}, run : Runs, status : Statuses]
ScanQueries == [pc : {"query"}, todo : SUBSET Runs]
ScanWork == [pc : {"compare", "metadata"}, todo : SUBSET Runs, run : Runs, info : Statuses]
Notes == [order : Orders, value : {"filled", "failed"}, by : {"ws", "scanner"},
          tries : 1 .. WsNotifyAttempts]

\* Type correctness of the UOS, exchange, network and PMS state.
TypeOK ==
    /\ userOrder \in [Orders -> {"none", "pending", "filled", "failed"}]
    /\ opening \in [Orders -> OpeningStates]
    /\ exch \in [Orders -> {"absent"} \cup ExchangeStates]
    /\ venue \in [Orders -> Venues \cup {"none"}]
    /\ stream \in [Venues -> Seq(Messages)]
    /\ running \in [Runs -> {"absent"} \cup Statuses]
    /\ positions \in Seq(Position(Runs))
    /\ ws \in [Venues -> {WsIdle} \cup WsWork]
    /\ scan \in {ScanIdle} \cup ScanQueries \cup ScanWork
    /\ notes \subseteq Notes
    /\ faults \in 0 .. MaxFaults
    /\ closes \in 0 .. MaxCloses

\* A position exists only for an order the exchange has ended with fills,
\* however stale the messages and answers the two workers act on.
PositionsAreBacked ==
    \A i \in 1 .. Len(positions) : HasFills(exch[positions[i].order[1]])

\* However often a fill is handled, by both workers, again after a retry or
\* a restart, an uprunning order has at most one active position
\* (CreateUserOrderPositionIfAbsent).
OneActivePosition ==
    \A r \in Runs : Cardinality(ActiveFor(positions, r)) <= 1

\* The UOS reports an outcome only when the exchange has that outcome: filled
\* when it has ended with fills, failed when it has ended incomplete; an order
\* whose placement returned an error may be live or filled there.
OutcomeIsTrue ==
    \A o \in Orders :
        /\ userOrder[o] = "filled" => HasFills(exch[o])
        /\ userOrder[o] = "failed" => \/ Incomplete(exch[o])
                                      \/ RunsOf(o) = {}

(***************************************************************************)
(* Why the three invariants above hold: every message, answer and note      *)
(* under way says of its order what the exchange has, or had and will not   *)
(* change.  Evidence is TypeOK and the properties above made inductive.     *)
(***************************************************************************)
Registered(r) == running[r] # "absent"

\* HandleOpen has gone as far as its order's traces show.
OpeningInOrder ==
    \A o \in Orders :
        /\ opening[o].pc = "idle" => userOrder[o] = "none"
        /\ opening[o].pc = "place" => userOrder[o] = "pending"
        /\ opening[o].pc # "idle" => venue[o] \in Venues
        /\ opening[o].pc \in {"idle", "place"} => exch[o] = "absent"
        /\ opening[o].pc = "register" => exch[o] # "absent"

RunsAreOpened ==
    \A r \in Runs : Registered(r) => /\ exch[r[1]] # "absent"
                                     /\ opening[r[1]].pc \in {"register", "done"}

StreamIsTrue ==
    \A v \in Venues : \A k \in 1 .. Len(stream[v]) :
        LET e == stream[v][k]
        IN /\ e.status = "FILLED" => HasFills(exch[e.order])
           /\ e.status = "CANCELLED" => Incomplete(exch[e.order])

WsIsTrue ==
    \A v \in Venues : ws[v].pc # "idle" =>
        /\ Registered(ws[v].run)
        /\ ws[v].pc \in {"mark", "metadata"} => HasFills(exch[ws[v].run[1]])
        /\ ws[v].pc = "status" /\ ws[v].status = "CANCELLED"
               => Incomplete(exch[ws[v].run[1]])

ScanIsTrue ==
    /\ \A r \in scan.todo : Registered(r)
    /\ scan.pc \in {"compare", "metadata"} =>
        /\ Registered(scan.run)
        /\ scan.pc = "metadata" \/ scan.info = "FILLED" => HasFills(exch[scan.run[1]])
        /\ ScanFailure(scan.info) => Incomplete(exch[scan.run[1]])

NotesAreTrue ==
    \A n \in notes :
        /\ \E r \in Runs : r[1] = n.order /\ Registered(r)
        /\ n.value = "filled" => HasFills(exch[n.order])
        /\ n.value = "failed" => Incomplete(exch[n.order])

UserOrderIsTrue ==
    \A o \in Orders :
        /\ userOrder[o] = "filled" => HasFills(exch[o])
        /\ userOrder[o] = "failed" =>
               \/ Incomplete(exch[o])
               \/ opening[o].pc = "done" /\ \A r \in Runs : r[1] = o => ~Registered(r)

Evidence == /\ TypeOK /\ OpeningInOrder /\ RunsAreOpened /\ StreamIsTrue /\ WsIsTrue
            /\ ScanIsTrue /\ NotesAreTrue /\ UserOrderIsTrue /\ PositionsAreBacked

\* r's fill is being handled: some worker is between marking the order
\* FILLED and creating its position.
FillUnderWay(r) ==
    \/ \E v \in Venues : ws[v].pc = "metadata" /\ ws[v].run = r
    \/ scan.pc = "metadata" /\ scan.run = r

\* With no metadata failure and no restart, an uprunning order marked FILLED,
\* which neither worker will look at again, has got its position.
FilledHasPosition ==
    \A r \in Runs : running[r] = "FILLED" =>
        \/ FillUnderWay(r)
        \/ \E i \in 1 .. Len(positions) : positions[i].order = r

\* The UOS's final status of an order is never changed: two workers, two
\* notification goroutines and a late failure cannot disagree, unless the
\* exchange has cut the order short, which is no outcome the code knows.
OutcomeIsFinal ==
    [][\A o \in Orders : userOrder[o] \in {"filled", "failed"} /\ exch[o] # "short" =>
                             userOrder'[o] = userOrder[o]]_<<userOrder, exch>>

\* Messages may be lost: a registered order that the exchange fills still
\* gets a position and its user order is set filled.
FillIsRecorded ==
    \A r \in Runs :
        (running[r] # "absent" /\ exch[r[1]] = "filled") ~>
            /\ \E i \in 1 .. Len(positions) : positions[i].order = r
            /\ userOrder[r[1]] = "filled"

\* A registered Deribit order that the exchange cancels, filled in part or
\* not, ends failed in the UOS, though messages may be lost: both Deribit
\* adapters spell CANCELLED.
CancelIsReported ==
    \A r \in Runs :
        (running[r] # "absent" /\ venue[r[1]] = "deribit"
                               /\ exch[r[1]] \in {"short", "cancelled"})
            ~> userOrder[r[1]] = "failed"

\* What the persistence layer says of a terminal status: "no further changes".
TerminalIsFinal ==
    [][\A r \in Runs : Terminal(running[r]) => running'[r] = running[r]]_running
=============================================================================
