-------------------------- MODULE OrderFill_proofs --------------------------
(***************************************************************************)
(* Proofs about OrderFill for every number of orders, attempts, faults and  *)
(* closes.                                                                 *)
(*                                                                         *)
(* The argument: Evidence is inductive.  Writers lists the actions that can *)
(* change each variable; Keeps is what every step preserves of the exchange *)
(* and of the registered orders, so that a message, an answer or a note     *)
(* that was true stays true.                                               *)
(***************************************************************************)
EXTENDS OrderFill, FiniteSetTheorems, TLAPS

-----------------------------------------------------------------------------
(* What the adapters make of an order state.                               *)

LEMMA StatusTypes ==
    ASSUME NEW v \in AllVenues, NEW s \in ExchangeStates
    PROVE  /\ WsStatus(v, s) \in Statuses
           /\ RestStatuses(v, s) \subseteq Statuses
  BY DEF AllVenues, ExchangeStates, OpenStates, EndStates, WsStatus, RestStatuses, Statuses,
         BinanceStatus, DeribitStatus, HyperliquidWsStatus, HyperliquidRestStatus

LEMMA StatusTruth ==
    ASSUME NEW v \in AllVenues, NEW s \in ExchangeStates
    PROVE  /\ WsStatus(v, s) = "FILLED" => HasFills(s)
           /\ WsStatus(v, s) = "CANCELLED" => Incomplete(s)
           /\ \A info \in RestStatuses(v, s) :
                 /\ info = "FILLED" => HasFills(s)
                 /\ ScanFailure(info) => Incomplete(s)
  BY DEF AllVenues, ExchangeStates, OpenStates, EndStates, WsStatus, RestStatuses, ScanFailure,
         HasFills, Incomplete,
         BinanceStatus, DeribitStatus, HyperliquidWsStatus, HyperliquidRestStatus

-----------------------------------------------------------------------------
(* The position table.                                                     *)

LEMMA CreateIfAbsentType ==
    ASSUME NEW Ids, NEW table \in Seq(Position(Ids)), NEW o \in Ids, NEW q \in Nat
    PROVE  CreateIfAbsent(table, o, q) \in Seq(Position(Ids))
  <1>1. NewPosition(o, q) \in Position(Ids) BY DEF NewPosition, Position
  <1>2. Append(table, NewPosition(o, q)) \in Seq(Position(Ids)) BY <1>1
  <1> QED BY <1>2 DEF CreateIfAbsent

LEMMA MarkClosedType ==
    ASSUME NEW Ids, NEW table \in Seq(Position(Ids)), NEW i \in 1 .. Len(table)
    PROVE  /\ MarkClosed(table, i) \in Seq(Position(Ids))
           /\ Len(MarkClosed(table, i)) = Len(table)
           /\ \A j \in 1 .. Len(table) :
                 MarkClosed(table, i)[j] = IF j = i THEN [table[i] EXCEPT !.deleted = TRUE]
                                                    ELSE table[j]
  <1> DEFINE row == [table[i] EXCEPT !.deleted = TRUE]
  <1>1. table[i] \in Position(Ids) OBVIOUS
  <1>2. row \in Position(Ids) BY <1>1 DEF Position
  <1>3. MarkClosed(table, i) = [table EXCEPT ![i] = row] BY DEF MarkClosed
  <1> HIDE DEF row
  <1>4. MarkClosed(table, i) \in Seq(Position(Ids)) BY <1>2, <1>3
  <1>5. Len(MarkClosed(table, i)) = Len(table) BY <1>3
  <1>6. \A j \in 1 .. Len(table) : MarkClosed(table, i)[j] = IF j = i THEN row ELSE table[j]
        BY <1>3
  <1> QED BY <1>4, <1>5, <1>6 DEF row

LEMMA CloseType ==
    ASSUME NEW Ids, NEW table \in Seq(Position(Ids)), NEW i \in 1 .. Len(table),
           NEW q \in 0 .. table[i].qty
    PROVE  CloseAndCreateRemaining(table, i, q) \in Seq(Position(Ids))
  <1>1. table[i] \in Position(Ids) OBVIOUS
  <1>2. ASSUME q < table[i].qty
        PROVE  NewPosition(table[i].order, table[i].qty - q) \in Position(Ids)
        BY <1>1, <1>2 DEF NewPosition, Position
  <1>3. MarkClosed(table, i) \in Seq(Position(Ids)) BY MarkClosedType
  <1>4. CASE q < table[i].qty
        <2>1. Append(MarkClosed(table, i), NewPosition(table[i].order, table[i].qty - q))
                  \in Seq(Position(Ids))
              BY <1>2, <1>3, <1>4
        <2> QED BY <2>1, <1>4 DEF CloseAndCreateRemaining
  <1>5. CASE ~(q < table[i].qty)
        BY <1>3, <1>5 DEF CloseAndCreateRemaining
  <1> QED BY <1>4, <1>5

\* At most one row of the table is active for r.
AtMostOne(table, r) == \A i, j \in ActiveFor(table, r) : i = j

LEMMA CreateIfAbsentOne ==
    ASSUME NEW Ids, NEW table \in Seq(Position(Ids)), NEW o \in Ids, NEW q \in Nat,
           NEW r \in Ids, AtMostOne(table, r)
    PROVE  AtMostOne(CreateIfAbsent(table, o, q), r)
  <1>1. CASE ActiveFor(table, o) # {} BY <1>1 DEF CreateIfAbsent
  <1>2. CASE ActiveFor(table, o) = {}
    <2> DEFINE row == NewPosition(o, q)
               new == Append(table, row)
    <2>1. /\ Len(new) = Len(table) + 1
          /\ \A k \in 1 .. Len(table) : new[k] = table[k]
          /\ new[Len(table) + 1] = row
          OBVIOUS
    <2>2. row.order = o BY DEF NewPosition
    <2> HIDE DEF new, row
    <2>3. \A k \in 1 .. Len(table) : k \in ActiveFor(new, r) => k \in ActiveFor(table, r)
          BY <2>1 DEF ActiveFor
    <2>4. r # o => Len(table) + 1 \notin ActiveFor(new, r)
          BY <2>1, <2>2 DEF ActiveFor
    <2>5. ActiveFor(new, r) \subseteq 1 .. (Len(table) + 1)
          BY <2>1 DEF ActiveFor
    <2>6. AtMostOne(new, r)
          BY <2>3, <2>4, <2>5, <1>2 DEF AtMostOne
    <2> QED BY <2>6, <1>2 DEF CreateIfAbsent, new, row
  <1> QED BY <1>1, <1>2

LEMMA CloseOne ==
    ASSUME NEW Ids, NEW table \in Seq(Position(Ids)), NEW i \in 1 .. Len(table),
           ~table[i].deleted, NEW q \in 0 .. table[i].qty,
           NEW r \in Ids, AtMostOne(table, r)
    PROVE  AtMostOne(CloseAndCreateRemaining(table, i, q), r)
  <1> DEFINE closed == MarkClosed(table, i)
             row == NewPosition(table[i].order, table[i].qty - q)
             new == Append(closed, row)
  <1>1. table[i] \in Position(Ids) OBVIOUS
  <1>2. /\ closed \in Seq(Position(Ids))
        /\ Len(closed) = Len(table)
        /\ \A k \in 1 .. Len(table) :
              closed[k] = IF k = i THEN [table[i] EXCEPT !.deleted = TRUE] ELSE table[k]
        BY MarkClosedType
  <1>3. closed[i].deleted = TRUE BY <1>1, <1>2 DEF Position
  <1> HIDE DEF closed
  <1>4. ActiveFor(closed, r) = ActiveFor(table, r) \ {i}
        BY <1>2, <1>3 DEF ActiveFor
  <1>5. CASE q < table[i].qty
    <2>1. /\ Len(new) = Len(table) + 1
          /\ \A k \in 1 .. Len(table) : new[k] = closed[k]
          /\ new[Len(table) + 1] = row
      <3> HIDE DEF row
      <3>1. /\ Len(Append(closed, row)) = Len(closed) + 1
            /\ \A k \in 1 .. Len(closed) : Append(closed, row)[k] = closed[k]
            /\ Append(closed, row)[Len(closed) + 1] = row
        BY <1>2
      <3> QED BY <1>2, <3>1
    <2>2. row.order = table[i].order BY DEF NewPosition
    <2> HIDE DEF new, row
    <2>3. \A k \in 1 .. Len(table) : k \in ActiveFor(new, r) => k \in ActiveFor(closed, r)
          BY <1>2, <2>1 DEF ActiveFor
    <2>4. ActiveFor(new, r) \subseteq 1 .. (Len(table) + 1)
          BY <2>1 DEF ActiveFor
    <2>5. table[i].order = r => i \in ActiveFor(table, r) BY DEF ActiveFor
    <2>6. table[i].order # r => Len(table) + 1 \notin ActiveFor(new, r)
          BY <2>1, <2>2 DEF ActiveFor
    <2>7. AtMostOne(new, r)
          BY <2>3, <2>4, <2>5, <2>6, <1>4 DEF AtMostOne
    <2> QED BY <2>7, <1>5 DEF CloseAndCreateRemaining, new, row, closed
  <1>6. CASE ~(q < table[i].qty)
        BY <1>4, <1>6 DEF CloseAndCreateRemaining, AtMostOne, closed
  <1> QED BY <1>5, <1>6
-----------------------------------------------------------------------------
(* Which actions change each variable.                                     *)

LEMMA Writers ==
    ASSUME Next
    PROVE
    /\ \/ UNCHANGED userOrder
       \/ \E o \in Orders : CreateUserOrder(o) \/ PlaceOrderFails(o)
       \/ \E n \in notes : DeliverNote(n)
    /\ \/ UNCHANGED opening
       \/ \E o \in Orders : \/ CreateUserOrder(o) \/ PlaceOrder(o) \/ PlaceOrderFails(o)
                            \/ RegisterOrder(o) \/ RegisterOrderFails(o)
    /\ \/ UNCHANGED venue
       \/ \E o \in Orders : CreateUserOrder(o)
    /\ \/ UNCHANGED exch
       \/ \E o \in Orders : PlaceOrder(o) \/ PlaceOrderFails(o) \/ ExchangeMoves(o)
    /\ \/ UNCHANGED stream
       \/ \E o \in Orders : PlaceOrder(o) \/ PlaceOrderFails(o) \/ ExchangeMoves(o) \/ ReplayEvent(o)
       \/ \E v \in Venues : LoseStream(v) \/ WsFind(v) \/ WsNotFound(v)
       \/ Restart
    /\ \/ UNCHANGED running
       \/ \E o \in Orders : RegisterOrder(o) \/ RegisterOrderFails(o)
       \/ \E v \in Venues : WsMarkFilled(v) \/ WsUpdateStatus(v)
       \/ ScanMarkFilled \/ ScanMarkFailed \/ ScanUpdateStatus
    /\ \/ UNCHANGED positions
       \/ \E v \in Venues : WsOpenPosition(v)
       \/ ScanOpenPosition
       \/ \E i \in 1 .. Len(positions) : ClosePosition(i)
    /\ \/ UNCHANGED ws
       \/ \E v \in Venues : \/ WsFind(v) \/ WsMarkFilled(v) \/ WsOpenPosition(v)
                            \/ WsMetadataFails(v) \/ WsUpdateStatus(v)
       \/ Restart
    /\ \/ UNCHANGED scan
       \/ ScanBegin \/ ScanUnchanged \/ ScanMarkFilled \/ ScanOpenPosition
       \/ ScanMetadataFails \/ ScanMarkFailed \/ ScanUpdateStatus
       \/ \E r \in Runs : ScanQuery(r) \/ ScanQueryFails(r)
       \/ Restart
    /\ \/ UNCHANGED notes
       \/ \E v \in Venues : WsOpenPosition(v) \/ WsUpdateStatus(v)
       \/ ScanOpenPosition \/ ScanMarkFailed
       \/ \E n \in notes : DeliverNote(n) \/ NoteFails(n)
       \/ Restart
    /\ \/ UNCHANGED faults
       \/ /\ faults < MaxFaults
          /\ faults' = faults + 1
    /\ \/ UNCHANGED closes
       \/ /\ closes < MaxCloses
          /\ closes' = closes + 1
  <1>1. CASE \E o \in Orders : Open(o)
        BY <1>1 DEF Open, CreateUserOrder, PlaceOrder, PlaceOrderFails, RegisterOrder,
                    RegisterOrderFails, Fault
  <1>2. CASE \E v \in Venues : Ws(v)
        BY <1>2 DEF Ws, WsFind, WsNotFound, WsMarkFilled, WsOpenPosition, WsMetadataFails,
                    WsUpdateStatus, Fault
  <1>3. CASE Exchange
        BY <1>3 DEF Exchange, ExchangeMoves, ReplayEvent, LoseStream, Fault
  <1>4. CASE Scan
        BY <1>4 DEF Scan, ScanBegin, ScanUnchanged, ScanMarkFilled, ScanOpenPosition,
                    ScanMetadataFails, ScanMarkFailed, ScanUpdateStatus, ScanQuery, ScanQueryFails,
                    Fault
  <1>5. CASE Notify
        BY <1>5 DEF Notify, DeliverNote, NoteFails, Fault
  <1>6. CASE Restart
        BY <1>6 DEF Restart, Fault
  <1>7. CASE \E i \in 1 .. Len(positions) : ClosePosition(i)
        BY <1>7 DEF ClosePosition
  <1> QED BY <1>1, <1>2, <1>3, <1>4, <1>5, <1>6, <1>7 DEF Next
-----------------------------------------------------------------------------
(* What a busy worker holds.                                               *)

LEMMA WsBusy ==
    ASSUME TypeOK, NEW v \in Venues, ws[v].pc # "idle"
    PROVE  /\ ws[v] \in WsWork
           /\ ws[v].run \in Runs
           /\ ws[v].run[1] \in Orders
           /\ ws[v].status \in Statuses
           /\ ws[v].pc \in {"mark", "status", "metadata"}
  <1>1. ws[v] \in WsWork BY DEF TypeOK, WsIdle
  <1> QED BY <1>1 DEF WsWork, Runs

LEMMA ScanBusy ==
    ASSUME TypeOK, scan.pc \in {"compare", "metadata"}
    PROVE  /\ scan \in ScanWork
           /\ scan.todo \subseteq Runs
           /\ scan.run \in Runs
           /\ scan.run[1] \in Orders
           /\ scan.info \in Statuses
  <1>1. scan \in ScanWork BY DEF TypeOK, ScanIdle, ScanQueries
  <1> QED BY <1>1 DEF ScanWork, Runs

LEMMA ScanTodo ==
    ASSUME TypeOK
    PROVE  scan.todo \subseteq Runs
  BY DEF TypeOK, ScanIdle, ScanQueries, ScanWork

LEMMA StatusesPresent == "absent" \notin Statuses
  BY DEF Statuses

\* A final state of the exchange stays, an order stays placed, and a
\* registered run stays registered.
ExchangeKeeps(o) == /\ exch[o] \in EndStates => exch'[o] = exch[o]
                    /\ exch[o] # "absent" => exch'[o] # "absent"

Keeps == /\ \A o \in Orders : ExchangeKeeps(o)
         /\ \A r \in Runs : Registered(r) => Registered(r)'

\* What a message, an answer or a note says of an order's end stays true.
LEMMA EndsKept ==
    ASSUME NEW o \in Orders, Keeps
    PROVE  /\ HasFills(exch[o]) => HasFills(exch'[o])
           /\ Incomplete(exch[o]) => Incomplete(exch'[o])
  BY DEF Keeps, ExchangeKeeps, EndStates, HasFills, Incomplete

LEMMA KeepsHolds ==
    ASSUME Evidence, [Next]_vars
    PROVE  Keeps
  <1>0. TypeOK /\ OpeningInOrder BY DEF Evidence
  <1>1. CASE UNCHANGED vars BY <1>1 DEF vars, Keeps, ExchangeKeeps, Registered
  <1>2. CASE Next
    <2>1. ASSUME NEW o \in Orders
          PROVE  ExchangeKeeps(o)
      <3>1. CASE UNCHANGED exch BY <3>1 DEF ExchangeKeeps
      <3>2. ASSUME NEW p \in Orders, PlaceOrder(p) \/ PlaceOrderFails(p)
            PROVE  ExchangeKeeps(o)
        <4>1. /\ exch[p] = "absent"
              /\ \/ exch' = exch
                 \/ exch' = [exch EXCEPT ![p] = "open"]
              BY <1>0, <3>2 DEF PlaceOrder, PlaceOrderFails, OpeningInOrder
        <4>2. exch \in [Orders -> {"absent"} \cup ExchangeStates] BY <1>0 DEF TypeOK
        <4>3. CASE exch' = exch BY <4>3 DEF ExchangeKeeps
        <4>4. CASE exch' = [exch EXCEPT ![p] = "open"]
              BY <4>1, <4>2, <4>4 DEF EndStates, ExchangeKeeps
        <4> QED BY <4>1, <4>3, <4>4
      <3>3. ASSUME NEW p \in Orders, ExchangeMoves(p)
            PROVE  ExchangeKeeps(o)
            BY <1>0, <3>3 DEF ExchangeMoves, TypeOK, OpenStates, EndStates, ExchangeKeeps
      <3> QED BY <3>1, <3>2, <3>3, <1>2, Writers
    <2>2. ASSUME NEW r \in Runs, Registered(r)
          PROVE  Registered(r)'
      <3>1. CASE UNCHANGED running BY <3>1, <2>2 DEF Registered
      <3>2. ASSUME NEW p \in Orders, RegisterOrder(p) \/ RegisterOrderFails(p)
            PROVE  Registered(r)'
            BY <1>0, <2>2, <3>2 DEF RegisterOrder, RegisterOrderFails, Registered, TypeOK
      <3>3. ASSUME NEW v \in Venues, WsMarkFilled(v) \/ WsUpdateStatus(v)
            PROVE  Registered(r)'
        <4>1. ws[v].pc # "idle" BY <3>3 DEF WsMarkFilled, WsUpdateStatus
        <4> QED BY <1>0, <2>2, <3>3, <4>1, WsBusy, StatusesPresent
                DEF WsMarkFilled, WsUpdateStatus, Registered, TypeOK
      <3>4. CASE ScanMarkFilled \/ ScanMarkFailed \/ ScanUpdateStatus
        <4>1. scan.pc = "compare" BY <3>4 DEF ScanMarkFilled, ScanMarkFailed, ScanUpdateStatus
        <4> QED BY <1>0, <2>2, <3>4, <4>1, ScanBusy, StatusesPresent
                DEF ScanMarkFilled, ScanMarkFailed, ScanUpdateStatus, Registered, TypeOK
      <3> QED BY <3>1, <3>2, <3>3, <3>4, <1>2, Writers
    <2> QED BY <2>1, <2>2 DEF Keeps
  <1> QED BY <1>1, <1>2
-----------------------------------------------------------------------------
(* The venues' streams.                                                    *)

LEMMA SendStream ==
    ASSUME TypeOK, NEW o \in Orders, venue[o] \in Venues, NEW s \in ExchangeStates
    PROVE  /\ Send(o, s) \in [Venues -> Seq(Messages)]
           /\ \A v \in Venues : \A k \in 1 .. Len(Send(o, s)[v]) :
                 \/ k \in 1 .. Len(stream[v]) /\ Send(o, s)[v][k] = stream[v][k]
                 \/ Send(o, s)[v][k] = [order |-> o, status |-> WsStatus(venue[o], s)]
  <1> DEFINE w == venue[o]
             e == [order |-> o, status |-> WsStatus(w, s)]
             new == Append(stream[w], e)
  <1>1. e \in Messages BY StatusTypes, VenuesAssumption DEF Messages
  <1>2. stream \in [Venues -> Seq(Messages)] BY DEF TypeOK
  <1>3. stream[w] \in Seq(Messages) BY <1>2
  <1>4. Send(o, s) = [stream EXCEPT ![w] = new] BY DEF Send
  <1>5. e = [order |-> o, status |-> WsStatus(venue[o], s)] OBVIOUS
  <1>6. w \in Venues OBVIOUS
  <1> HIDE DEF e, w
  <1>7. /\ new \in Seq(Messages)
        /\ Len(new) = Len(stream[w]) + 1
        /\ \A k \in 1 .. Len(stream[w]) : new[k] = stream[w][k]
        /\ new[Len(stream[w]) + 1] = e
        /\ Len(stream[w]) \in Nat
        BY <1>1, <1>3
  <1> HIDE DEF new
  <1>8. /\ Send(o, s) \in [Venues -> Seq(Messages)]
        /\ Send(o, s)[w] = new
        /\ \A v \in Venues : v # w => Send(o, s)[v] = stream[v]
        BY <1>2, <1>4, <1>6, <1>7
  <1>9. ASSUME NEW v \in Venues, NEW k \in 1 .. Len(Send(o, s)[v])
        PROVE  \/ k \in 1 .. Len(stream[v]) /\ Send(o, s)[v][k] = stream[v][k]
               \/ Send(o, s)[v][k] = e
    <2>1. CASE v # w BY <2>1, <1>8
    <2>2. CASE v = w
      <3>1. k \in 1 .. (Len(stream[w]) + 1) BY <2>2, <1>7, <1>8
      <3>2. CASE k = Len(stream[w]) + 1 BY <3>2, <2>2, <1>7, <1>8
      <3>3. CASE k # Len(stream[w]) + 1
            BY <3>1, <3>3, <2>2, <1>7, <1>8
      <3> QED BY <3>2, <3>3
    <2> QED BY <2>1, <2>2
  <1> QED BY <1>5, <1>8, <1>9

\* What a step does to the streams: a message comes from a venue's announcing
\* the state its order has after the step, or it was on the stream before.
Announced(e) == \E o \in Orders : /\ venue[o] \in Venues
                                  /\ exch'[o] \in ExchangeStates
                                  /\ e = [order |-> o, status |-> WsStatus(venue[o], exch'[o])]

LEMMA StreamStep ==
    ASSUME TypeOK, OpeningInOrder, Next
    PROVE  /\ stream' \in [Venues -> Seq(Messages)]
           /\ \A v \in Venues : \A k \in 1 .. Len(stream'[v]) :
                 \/ \E j \in 1 .. Len(stream[v]) : stream'[v][k] = stream[v][j]
                 \/ Announced(stream'[v][k])
  <1>1. stream \in [Venues -> Seq(Messages)] BY DEF TypeOK
  <1>2. CASE UNCHANGED stream BY <1>1, <1>2
  <1>3. ASSUME NEW o \in Orders, NEW s \in ExchangeStates, venue[o] \in Venues,
               exch'[o] = s, stream' = Send(o, s)
        PROVE  /\ stream' \in [Venues -> Seq(Messages)]
               /\ \A v \in Venues : \A k \in 1 .. Len(stream'[v]) :
                     \/ \E j \in 1 .. Len(stream[v]) : stream'[v][k] = stream[v][j]
                     \/ Announced(stream'[v][k])
    <2>1. stream' \in [Venues -> Seq(Messages)] BY <1>3, SendStream
    <2>2. ASSUME NEW v \in Venues, NEW k \in 1 .. Len(stream'[v])
          PROVE  \/ \E j \in 1 .. Len(stream[v]) : stream'[v][k] = stream[v][j]
                 \/ Announced(stream'[v][k])
      <3>1. \/ k \in 1 .. Len(stream[v]) /\ stream'[v][k] = stream[v][k]
            \/ stream'[v][k] = [order |-> o, status |-> WsStatus(venue[o], s)]
            BY <1>3, <2>2, SendStream
      <3> QED BY <1>3, <3>1 DEF Announced
    <2> QED BY <2>1, <2>2
  <1>4. ASSUME NEW o \in Orders, PlaceOrder(o) \/ PlaceOrderFails(o)
        PROVE  \/ UNCHANGED stream
               \/ /\ venue[o] \in Venues
                  /\ exch'[o] \in ExchangeStates
                  /\ stream' = Send(o, exch'[o])
        BY <1>4 DEF PlaceOrder, PlaceOrderFails, OpeningInOrder, TypeOK, ExchangeStates, OpenStates
  <1>5. ASSUME NEW o \in Orders, ExchangeMoves(o) \/ ReplayEvent(o)
        PROVE  /\ venue[o] \in Venues
               /\ exch'[o] \in ExchangeStates
               /\ stream' = Send(o, exch'[o])
    <2>1. exch[o] # "absent"
          BY <1>5 DEF ExchangeMoves, ReplayEvent, OpenStates
    <2>2. venue[o] \in Venues BY <2>1 DEF OpeningInOrder
    <2> QED BY <1>5, <2>1, <2>2
            DEF ExchangeMoves, ReplayEvent, TypeOK, ExchangeStates, OpenStates, EndStates
  <1>6. ASSUME NEW v \in Venues, LoseStream(v) \/ WsFind(v) \/ WsNotFound(v)
        PROVE  /\ stream' \in [Venues -> Seq(Messages)]
               /\ \A u \in Venues : \A k \in 1 .. Len(stream'[u]) :
                     \E j \in 1 .. Len(stream[u]) : stream'[u][k] = stream[u][j]
    <2>1. CASE LoseStream(v)
      <3>1. stream' = [stream EXCEPT ![v] = << >>] BY <2>1 DEF LoseStream
      <3> QED BY <3>1, <1>1
    <2>2. CASE WsFind(v) \/ WsNotFound(v)
      <3>1. stream[v] # << >> /\ stream' = [stream EXCEPT ![v] = Tail(stream[v])]
            BY <2>2 DEF WsFind, WsNotFound
      <3>2. stream[v] \in Seq(Messages) BY <1>1
      <3>3. /\ Tail(stream[v]) \in Seq(Messages)
            /\ \A k \in 1 .. Len(Tail(stream[v])) :
                  k + 1 \in 1 .. Len(stream[v]) /\ Tail(stream[v])[k] = stream[v][k + 1]
            BY <3>1, <3>2
      <3> DEFINE rest == Tail(stream[v])
      <3> HIDE DEF rest
      <3>4. stream' = [stream EXCEPT ![v] = rest] BY <3>1 DEF rest
      <3>5. /\ rest \in Seq(Messages)
            /\ \A k \in 1 .. Len(rest) :
                  k + 1 \in 1 .. Len(stream[v]) /\ rest[k] = stream[v][k + 1]
            BY <3>3 DEF rest
      <3> QED BY <3>4, <3>5, <1>1
    <2> QED BY <2>1, <2>2, <1>6
  <1>7. CASE Restart
    <2>1. stream' = [v \in Venues |-> << >>] BY <1>7 DEF Restart
    <2> QED BY <2>1
  <1>8. ASSUME NEW o \in Orders, PlaceOrder(o) \/ PlaceOrderFails(o) \/ ExchangeMoves(o) \/ ReplayEvent(o)
        PROVE  /\ stream' \in [Venues -> Seq(Messages)]
               /\ \A v \in Venues : \A k \in 1 .. Len(stream'[v]) :
                     \/ \E j \in 1 .. Len(stream[v]) : stream'[v][k] = stream[v][j]
                     \/ Announced(stream'[v][k])
        BY <1>2, <1>3, <1>4, <1>5, <1>8
  <1> QED BY <1>2, <1>6, <1>7, <1>8, Writers
-----------------------------------------------------------------------------
(* The type of each variable after a step.                                 *)

LEMMA FindType ==
    ASSUME TypeOK, NEW v \in Venues, WsFind(v)
    PROVE  /\ stream[v] # << >>
           /\ Head(stream[v]) \in Messages
           /\ \E k \in 1 .. Len(stream[v]) : Head(stream[v]) = stream[v][k]
           /\ \E r \in RunsOf(Head(stream[v]).order) :
                 ws' = [ws EXCEPT ![v] =
                          IF DropsSameStatus(v) /\ running[r] = Head(stream[v]).status
                          THEN WsIdle
                          ELSE [pc |-> IF Head(stream[v]).status = "FILLED" THEN "mark" ELSE "status",
                                run |-> r, status |-> Head(stream[v]).status]]
  <1>1. stream[v] # << >> BY DEF WsFind
  <1>2. stream[v] \in Seq(Messages) BY DEF TypeOK
  <1>3. /\ Head(stream[v]) \in Messages
        /\ \E k \in 1 .. Len(stream[v]) : Head(stream[v]) = stream[v][k]
        BY <1>1, <1>2
  <1> QED BY <1>1, <1>3 DEF WsFind

LEMMA WsType ==
    ASSUME TypeOK, Next
    PROVE  ws' \in [Venues -> {WsIdle} \cup WsWork]
  <1>1. ws \in [Venues -> {WsIdle} \cup WsWork] BY DEF TypeOK
  <1>2. CASE UNCHANGED ws BY <1>1, <1>2
  <1>3. ASSUME NEW v \in Venues, WsFind(v)
        PROVE  ws' \in [Venues -> {WsIdle} \cup WsWork]
    <2> DEFINE e == Head(stream[v])
    <2>1. PICK r \in RunsOf(e.order) :
            ws' = [ws EXCEPT ![v] =
                     IF DropsSameStatus(v) /\ running[r] = e.status
                     THEN WsIdle
                     ELSE [pc |-> IF e.status = "FILLED" THEN "mark" ELSE "status",
                           run |-> r, status |-> e.status]]
          BY <1>3, FindType
    <2>2. e \in Messages BY <1>3, FindType
    <2>3. e.status \in Statuses BY <2>2 DEF Messages
    <2>4. r \in Runs BY <2>1 DEF RunsOf
    <2>5. [pc |-> IF e.status = "FILLED" THEN "mark" ELSE "status",
           run |-> r, status |-> e.status] \in WsWork
          BY <2>3, <2>4 DEF WsWork
    <2> HIDE DEF e
    <2> QED BY <1>1, <2>1, <2>5
  <1>4. ASSUME NEW v \in Venues, WsMarkFilled(v)
        PROVE  ws' \in [Venues -> {WsIdle} \cup WsWork]
    <2>1. ws[v] \in WsWork BY <1>4, WsBusy DEF WsMarkFilled
    <2>2. [ws[v] EXCEPT !.pc = "metadata"] \in WsWork BY <2>1 DEF WsWork
    <2>3. ws' = [ws EXCEPT ![v] = [ws[v] EXCEPT !.pc = "metadata"]] BY <1>4 DEF WsMarkFilled
    <2> QED BY <1>1, <2>2, <2>3
  <1>5. ASSUME NEW v \in Venues, WsOpenPosition(v) \/ WsMetadataFails(v) \/ WsUpdateStatus(v)
        PROVE  ws' \in [Venues -> {WsIdle} \cup WsWork]
    <2>1. ws' = [ws EXCEPT ![v] = WsIdle]
          BY <1>5 DEF WsOpenPosition, WsMetadataFails, WsUpdateStatus
    <2> QED BY <1>1, <2>1
  <1>6. CASE Restart BY <1>6 DEF Restart
  <1> QED BY <1>2, <1>3, <1>4, <1>5, <1>6, Writers

LEMMA ScanNextType ==
    ASSUME TypeOK, NEW r
    PROVE  /\ ScanNext(r) \in {ScanIdle} \cup ScanQueries
           /\ ScanNext(r).todo \subseteq scan.todo
           /\ ScanNext(r).pc \in {"idle", "query"}
  <1>1. scan.todo \subseteq Runs BY ScanTodo
  <1>2. scan.todo \ {r} \subseteq Runs BY <1>1
  <1> QED BY <1>1, <1>2 DEF ScanNext, ScanIdle, ScanQueries

LEMMA ScanType ==
    ASSUME TypeOK, OpeningInOrder, RunsAreOpened, ScanIsTrue, Next
    PROVE  scan' \in {ScanIdle} \cup ScanQueries \cup ScanWork
  <1>1. scan \in {ScanIdle} \cup ScanQueries \cup ScanWork BY DEF TypeOK
  <1>2. CASE UNCHANGED scan BY <1>1, <1>2
  <1>3. CASE ScanBegin BY <1>3 DEF ScanBegin, ScanQueries
  <1>4. CASE ScanMarkFilled
    <2>1. scan \in ScanWork BY <1>4, ScanBusy DEF ScanMarkFilled
    <2> QED BY <1>4, <2>1 DEF ScanMarkFilled, ScanWork
  <1>5. ASSUME NEW r \in Runs, ScanQuery(r)
        PROVE  scan' \in {ScanIdle} \cup ScanQueries \cup ScanWork
    <2>1. r \in scan.todo /\ scan.todo \subseteq Runs BY <1>5, ScanTodo DEF ScanQuery
    <2>2. r[1] \in Orders BY DEF Runs
    <2>3. venue[r[1]] \in Venues /\ exch[r[1]] \in ExchangeStates
      <3>1. Registered(r) BY <2>1 DEF ScanIsTrue
      <3>2. exch[r[1]] # "absent" /\ opening[r[1]].pc \in {"register", "done"}
            BY <3>1 DEF RunsAreOpened
      <3> QED BY <2>2, <3>2 DEF OpeningInOrder, TypeOK
    <2>4. RestStatuses(venue[r[1]], exch[r[1]]) \subseteq Statuses
          BY <2>3, StatusTypes, VenuesAssumption
    <2> QED BY <1>5, <2>1, <2>4 DEF ScanQuery, ScanWork
  <1>6. CASE ScanUnchanged \/ ScanOpenPosition \/ ScanMetadataFails \/ ScanMarkFailed
             \/ ScanUpdateStatus
    <2>1. scan' = ScanNext(scan.run)
          BY <1>6 DEF ScanUnchanged, ScanOpenPosition, ScanMetadataFails, ScanMarkFailed,
                      ScanUpdateStatus
    <2> QED BY <2>1, ScanNextType
  <1>7. ASSUME NEW r \in Runs, ScanQueryFails(r)
        PROVE  scan' \in {ScanIdle} \cup ScanQueries \cup ScanWork
        BY <1>7, ScanNextType DEF ScanQueryFails
  <1>8. CASE Restart BY <1>8 DEF Restart
  <1> QED BY <1>2, <1>3, <1>4, <1>5, <1>6, <1>7, <1>8, Writers

LEMMA NoteType ==
    ASSUME NEW o \in Orders, NEW value \in {"filled", "failed"}, NEW by \in {"ws", "scanner"},
           NEW tries \in 1 .. WsNotifyAttempts
    PROVE  Note(o, value, by, tries) \in Notes
  BY DEF Note, Notes

LEMMA NotesType ==
    ASSUME TypeOK, Next
    PROVE  notes' \subseteq Notes
  <1>1. notes \subseteq Notes BY DEF TypeOK
  <1>2. 1 \in 1 .. WsNotifyAttempts /\ WsNotifyAttempts \in 1 .. WsNotifyAttempts
        BY BoundsAssumption
  <1>3. CASE UNCHANGED notes BY <1>1, <1>3
  <1>4. ASSUME NEW v \in Venues, WsOpenPosition(v) \/ WsUpdateStatus(v)
        PROVE  notes' \subseteq Notes
    <2>1. ws[v].run[1] \in Orders BY <1>4, WsBusy DEF WsOpenPosition, WsUpdateStatus
    <2> QED BY <1>1, <1>2, <1>4, <2>1, NoteType DEF WsOpenPosition, WsUpdateStatus
  <1>5. CASE ScanOpenPosition \/ ScanMarkFailed
    <2>1. scan.run[1] \in Orders BY <1>5, ScanBusy DEF ScanOpenPosition, ScanMarkFailed
    <2> QED BY <1>1, <1>2, <1>5, <2>1, NoteType DEF ScanOpenPosition, ScanMarkFailed
  <1>6. ASSUME NEW n \in notes, DeliverNote(n) \/ NoteFails(n)
        PROVE  notes' \subseteq Notes
    <2>1. CASE DeliverNote(n) BY <1>1, <2>1 DEF DeliverNote
    <2>2. CASE NoteFails(n)
      <3>1. n \in Notes BY <1>1
      <3>2. ASSUME n.tries > 1
            PROVE  [n EXCEPT !.tries = n.tries - 1] \in Notes
        <4>1. n.tries - 1 \in 1 .. WsNotifyAttempts BY <3>1, <3>2, BoundsAssumption DEF Notes
        <4> QED BY <3>1, <4>1 DEF Notes
      <3>3. notes' = (notes \ {n}) \cup
                     (IF n.tries > 1 THEN {[n EXCEPT !.tries = n.tries - 1]} ELSE {})
            BY <2>2 DEF NoteFails
      <3> QED BY <1>1, <3>2, <3>3
    <2> QED BY <1>6, <2>1, <2>2
  <1>7. CASE Restart BY <1>7 DEF Restart
  <1> QED BY <1>3, <1>4, <1>5, <1>6, <1>7, Writers

LEMMA OpeningType ==
    ASSUME TypeOK, Next
    PROVE  opening' \in [Orders -> OpeningStates]
  <1>1. opening \in [Orders -> OpeningStates] BY DEF TypeOK
  <1>2. CASE UNCHANGED opening BY <1>1, <1>2
  <1>3. ASSUME NEW o \in Orders, NEW c \in {"place", "register", "done"},
               opening' = [opening EXCEPT ![o].pc = c]
        PROVE  opening' \in [Orders -> OpeningStates]
    <2>1. [opening[o] EXCEPT !.pc = c] \in OpeningStates BY <1>1 DEF OpeningStates
    <2> QED BY <1>1, <1>3, <2>1
  <1>4. ASSUME NEW o \in Orders, RegisterOrderFails(o)
        PROVE  opening' \in [Orders -> OpeningStates]
    <2> DEFINE t == opening[o].tries
               new == [pc |-> IF t + 1 < CreateAttempts THEN "register" ELSE "done",
                       tries |-> IF t + 1 < CreateAttempts THEN t + 1 ELSE t]
    <2>1. t \in 0 .. CreateAttempts - 1 BY <1>1 DEF OpeningStates
    <2>2. new \in OpeningStates BY <2>1, BoundsAssumption DEF OpeningStates
    <2>3. opening' = [opening EXCEPT ![o] = new] BY <1>4 DEF RegisterOrderFails
    <2> HIDE DEF new
    <2> QED BY <1>1, <2>2, <2>3
  <1>5. ASSUME NEW o \in Orders, CreateUserOrder(o) \/ PlaceOrder(o) \/ PlaceOrderFails(o)
                                 \/ RegisterOrder(o)
        PROVE  \E c \in {"place", "register", "done"} : opening' = [opening EXCEPT ![o].pc = c]
        BY <1>5 DEF CreateUserOrder, PlaceOrder, PlaceOrderFails, RegisterOrder
  <1> QED BY <1>2, <1>3, <1>4, <1>5, Writers

LEMMA RunningType ==
    ASSUME TypeOK, Next
    PROVE  running' \in [Runs -> {"absent"} \cup Statuses]
  <1>1. running \in [Runs -> {"absent"} \cup Statuses] BY DEF TypeOK
  <1>2. "NEW" \in Statuses /\ "FILLED" \in Statuses BY DEF Statuses
  <1>3. CASE UNCHANGED running BY <1>1, <1>3
  <1>4. ASSUME NEW o \in Orders, RegisterOrder(o) \/ RegisterOrderFails(o)
        PROVE  running' \in [Runs -> {"absent"} \cup Statuses]
        BY <1>1, <1>2, <1>4 DEF RegisterOrder, RegisterOrderFails
  <1>5. ASSUME NEW v \in Venues, WsMarkFilled(v) \/ WsUpdateStatus(v)
        PROVE  running' \in [Runs -> {"absent"} \cup Statuses]
    <2>1. ws[v].status \in Statuses BY <1>5, WsBusy DEF WsMarkFilled, WsUpdateStatus
    <2> QED BY <1>1, <1>2, <1>5, <2>1 DEF WsMarkFilled, WsUpdateStatus
  <1>6. CASE ScanMarkFilled \/ ScanMarkFailed \/ ScanUpdateStatus
    <2>1. scan.info \in Statuses
          BY <1>6, ScanBusy DEF ScanMarkFilled, ScanMarkFailed, ScanUpdateStatus
    <2> QED BY <1>1, <1>2, <1>6, <2>1 DEF ScanMarkFilled, ScanMarkFailed, ScanUpdateStatus
  <1> QED BY <1>3, <1>4, <1>5, <1>6, Writers

LEMMA PositionsType ==
    ASSUME TypeOK, Next
    PROVE  positions' \in Seq(Position(Runs))
  <1>1. positions \in Seq(Position(Runs)) BY DEF TypeOK
  <1>2. OrderQty \in Nat BY BoundsAssumption
  <1>3. CASE UNCHANGED positions BY <1>1, <1>3
  <1>4. ASSUME NEW v \in Venues, WsOpenPosition(v)
        PROVE  positions' \in Seq(Position(Runs))
    <2>1. ws[v].run \in Runs BY <1>4, WsBusy DEF WsOpenPosition
    <2> QED BY <1>1, <1>2, <1>4, <2>1, CreateIfAbsentType DEF WsOpenPosition
  <1>5. CASE ScanOpenPosition
    <2>1. scan.run \in Runs BY <1>5, ScanBusy DEF ScanOpenPosition
    <2> QED BY <1>1, <1>2, <1>5, <2>1, CreateIfAbsentType DEF ScanOpenPosition
  <1>6. ASSUME NEW i \in 1 .. Len(positions), ClosePosition(i)
        PROVE  positions' \in Seq(Position(Runs))
    <2>1. PICK q \in 1 .. positions[i].qty : positions' = CloseAndCreateRemaining(positions, i, q)
          BY <1>6 DEF ClosePosition
    <2>2. q \in 0 .. positions[i].qty BY <2>1
    <2> QED BY <1>1, <2>1, <2>2, CloseType
  <1> QED BY <1>3, <1>4, <1>5, <1>6, Writers

LEMMA TypeStep ==
    ASSUME Evidence, [Next]_vars
    PROVE  TypeOK'
  <1>0. TypeOK /\ OpeningInOrder /\ RunsAreOpened /\ ScanIsTrue BY DEF Evidence
  <1>1. CASE UNCHANGED vars BY <1>0, <1>1 DEF vars, TypeOK
  <1>2. CASE Next
    <2>1. userOrder' \in [Orders -> {"none", "pending", "filled", "failed"}]
      <3>1. ASSUME NEW n \in notes, DeliverNote(n)
            PROVE  userOrder' \in [Orders -> {"none", "pending", "filled", "failed"}]
        <4>1. n.value \in {"filled", "failed"} BY <1>0 DEF TypeOK, Notes
        <4> QED BY <1>0, <3>1, <4>1 DEF TypeOK, DeliverNote
      <3>2. ASSUME NEW o \in Orders, CreateUserOrder(o) \/ PlaceOrderFails(o)
            PROVE  userOrder' \in [Orders -> {"none", "pending", "filled", "failed"}]
            BY <1>0, <3>2 DEF TypeOK, CreateUserOrder, PlaceOrderFails
      <3> QED BY <1>0, <1>2, <3>1, <3>2, Writers DEF TypeOK
    <2>2. venue' \in [Orders -> Venues \cup {"none"}]
      <3>1. ASSUME NEW o \in Orders, CreateUserOrder(o)
            PROVE  venue' \in [Orders -> Venues \cup {"none"}]
            BY <1>0, <3>1 DEF TypeOK, CreateUserOrder
      <3> QED BY <1>0, <1>2, <3>1, Writers DEF TypeOK
    <2>3. exch' \in [Orders -> {"absent"} \cup ExchangeStates]
      <3>1. ASSUME NEW o \in Orders, PlaceOrder(o) \/ PlaceOrderFails(o) \/ ExchangeMoves(o)
            PROVE  exch' \in [Orders -> {"absent"} \cup ExchangeStates]
            BY <1>0, <3>1 DEF TypeOK, PlaceOrder, PlaceOrderFails, ExchangeMoves,
                              ExchangeStates, OpenStates
      <3> QED BY <1>0, <1>2, <3>1, Writers DEF TypeOK
    <2>4. stream' \in [Venues -> Seq(Messages)] BY <1>0, <1>2, StreamStep
    <2>5. faults' \in 0 .. MaxFaults /\ closes' \in 0 .. MaxCloses
          BY <1>0, <1>2, Writers, BoundsAssumption DEF TypeOK
    <2> QED BY <1>0, <1>2, <2>1, <2>2, <2>3, <2>4, <2>5, OpeningType, RunningType,
               PositionsType, WsType, ScanType, NotesType DEF TypeOK
  <1> QED BY <1>1, <1>2
-----------------------------------------------------------------------------
(* What the workers and the notes know stays true.                         *)

LEMMA Own ==
    ASSUME Evidence, Next, NEW o \in Orders
    PROVE  \/ Open(o)
           \/ /\ opening'[o] = opening[o]
              /\ venue'[o] = venue[o]
              /\ exch'[o] = exch[o] \/ exch[o] # "absent"
              /\ \/ userOrder'[o] = userOrder[o]
                 \/ \E n \in notes : n.order = o
  <1>0. TypeOK BY DEF Evidence
  <1> SUFFICES ASSUME ~Open(o)
               PROVE  /\ opening'[o] = opening[o]
                      /\ venue'[o] = venue[o]
                      /\ exch'[o] = exch[o] \/ exch[o] # "absent"
                      /\ \/ userOrder'[o] = userOrder[o]
                         \/ \E n \in notes : n.order = o
      OBVIOUS
  <1>1. ASSUME NEW p \in Orders, Open(p)
        PROVE  p # o
        BY <1>1
  <1>2. opening'[o] = opening[o]
    <2>1. ASSUME NEW p \in Orders, Open(p), NEW x, opening' = [opening EXCEPT ![p] = x]
          PROVE  opening'[o] = opening[o]
          BY <1>0, <1>1, <2>1 DEF TypeOK
    <2>2. ASSUME NEW p \in Orders,
                 \/ CreateUserOrder(p) \/ PlaceOrder(p) \/ PlaceOrderFails(p)
                 \/ RegisterOrder(p) \/ RegisterOrderFails(p)
          PROVE  Open(p) /\ \E x : opening' = [opening EXCEPT ![p] = x]
          BY <2>2 DEF Open, CreateUserOrder, PlaceOrder, PlaceOrderFails, RegisterOrder,
                      RegisterOrderFails
    <2> QED BY <2>1, <2>2, Writers
  <1>3. venue'[o] = venue[o]
    <2>1. ASSUME NEW p \in Orders, CreateUserOrder(p)
          PROVE  venue'[o] = venue[o]
          BY <1>0, <1>1, <2>1 DEF Open, CreateUserOrder, TypeOK
    <2> QED BY <2>1, Writers
  <1>4. exch'[o] = exch[o] \/ exch[o] # "absent"
    <2>1. ASSUME NEW p \in Orders, PlaceOrder(p) \/ PlaceOrderFails(p)
          PROVE  exch'[o] = exch[o]
          BY <1>0, <1>1, <2>1 DEF Open, PlaceOrder, PlaceOrderFails, TypeOK
    <2>2. ASSUME NEW p \in Orders, ExchangeMoves(p)
          PROVE  exch'[o] = exch[o] \/ exch[o] # "absent"
          BY <1>0, <2>2 DEF ExchangeMoves, OpenStates, TypeOK
    <2> QED BY <2>1, <2>2, Writers
  <1>5. \/ userOrder'[o] = userOrder[o]
        \/ \E n \in notes : n.order = o
    <2>1. ASSUME NEW p \in Orders, CreateUserOrder(p) \/ PlaceOrderFails(p)
          PROVE  userOrder'[o] = userOrder[o]
          BY <1>0, <1>1, <2>1 DEF Open, CreateUserOrder, PlaceOrderFails, TypeOK
    <2>2. ASSUME NEW n \in notes, DeliverNote(n)
          PROVE  \/ userOrder'[o] = userOrder[o]
                 \/ n.order = o
          BY <1>0, <2>2 DEF DeliverNote, TypeOK
    <2> QED BY <2>1, <2>2, Writers
  <1> QED BY <1>2, <1>3, <1>4, <1>5

\* An order that is being registered or is done stays so.
LEMMA OpeningAfter ==
    ASSUME Evidence, Next, NEW o \in Orders, opening[o].pc \in {"register", "done"}
    PROVE  /\ opening'[o].pc \in {"register", "done"}
           /\ opening[o].pc = "done" => opening'[o].pc = "done"
  <1>0. TypeOK BY DEF Evidence
  <1>1. opening[o] \in OpeningStates /\ opening \in [Orders -> OpeningStates]
        BY <1>0 DEF TypeOK
  <1>2. CASE opening'[o] = opening[o] BY <1>2
  <1>3. CASE Open(o)
    <2>1. RegisterOrder(o) \/ RegisterOrderFails(o)
          BY <1>3 DEF Open, CreateUserOrder, PlaceOrder, PlaceOrderFails
    <2>2. opening[o].pc = "register" BY <2>1 DEF RegisterOrder, RegisterOrderFails
    <2>3. CASE RegisterOrder(o)
      <3>1. opening' = [opening EXCEPT ![o] = [opening[o] EXCEPT !.pc = "done"]]
            BY <2>3 DEF RegisterOrder
      <3> QED BY <3>1, <2>2, <1>1 DEF OpeningStates
    <2>4. CASE RegisterOrderFails(o)
      <3>1. opening'[o].pc \in {"register", "done"} BY <2>4, <1>1 DEF RegisterOrderFails
      <3> QED BY <3>1, <2>2
    <2> QED BY <2>1, <2>3, <2>4
  <1> QED BY <1>2, <1>3, Own

\* A run is registered only while its order's handler is registering it.
LEMMA NewRun ==
    ASSUME Evidence, Next, NEW r \in Runs, Registered(r)', ~Registered(r)
    PROVE  opening[r[1]].pc = "register"
  <1>0. TypeOK BY DEF Evidence
  <1>1. running[r] = "absent" /\ running'[r] # "absent" BY DEF Registered
  <1>2. ASSUME NEW o \in Orders, RegisterOrder(o) \/ RegisterOrderFails(o)
        PROVE  opening[r[1]].pc = "register"
    <2>1. /\ opening[o].pc = "register"
          /\ \/ running' = running
             \/ running' = [running EXCEPT ![<<o, opening[o].tries + 1>>] = "NEW"]
          BY <1>2 DEF RegisterOrder, RegisterOrderFails
    <2>2. r = <<o, opening[o].tries + 1>> BY <1>0, <1>1, <2>1 DEF TypeOK
    <2>3. r[1] = o BY <2>2
    <2> QED BY <2>1, <2>3
  <1>3. ASSUME NEW v \in Venues, WsMarkFilled(v) \/ WsUpdateStatus(v)
        PROVE  FALSE
    <2>1. ws[v].pc # "idle" BY <1>3 DEF WsMarkFilled, WsUpdateStatus
    <2>2. running[ws[v].run] # "absent" BY <2>1 DEF Evidence, WsIsTrue, Registered
    <2>3. \E x : running' = [running EXCEPT ![ws[v].run] = x]
          BY <1>3 DEF WsMarkFilled, WsUpdateStatus
    <2> QED BY <1>0, <1>1, <2>2, <2>3 DEF TypeOK
  <1>4. CASE ScanMarkFilled \/ ScanMarkFailed \/ ScanUpdateStatus
    <2>1. scan.pc = "compare" BY <1>4 DEF ScanMarkFilled, ScanMarkFailed, ScanUpdateStatus
    <2>2. running[scan.run] # "absent" BY <2>1 DEF Evidence, ScanIsTrue, Registered
    <2>3. \E x : running' = [running EXCEPT ![scan.run] = x]
          BY <1>4 DEF ScanMarkFilled, ScanMarkFailed, ScanUpdateStatus
    <2> QED BY <1>0, <1>1, <2>2, <2>3 DEF TypeOK
  <1> QED BY <1>1, <1>2, <1>3, <1>4, Writers

LEMMA OpeningStep ==
    ASSUME Evidence, [Next]_vars
    PROVE  OpeningInOrder' /\ RunsAreOpened'
  <1>0. TypeOK /\ TypeOK' /\ Keeps BY TypeStep, KeepsHolds DEF Evidence
  <1>1. OpeningInOrder /\ RunsAreOpened /\ NotesAreTrue BY DEF Evidence
  <1>2. CASE UNCHANGED vars
        BY <1>1, <1>2 DEF vars, OpeningInOrder, RunsAreOpened, Registered
  <1>3. CASE Next
    <2>1. ASSUME NEW o \in Orders
          PROVE  /\ opening'[o].pc = "idle" => userOrder'[o] = "none"
                 /\ opening'[o].pc = "place" => userOrder'[o] = "pending"
                 /\ opening'[o].pc # "idle" => venue'[o] \in Venues
                 /\ opening'[o].pc \in {"idle", "place"} => exch'[o] = "absent"
                 /\ opening'[o].pc = "register" => exch'[o] # "absent"
      <3>1. CASE CreateUserOrder(o)
        <4>1. opening[o] \in OpeningStates BY <1>0 DEF TypeOK
        <4>2. opening'[o].pc = "place"
              BY <3>1, <4>1, <1>0 DEF CreateUserOrder, TypeOK, OpeningStates
        <4>3. userOrder'[o] = "pending" BY <3>1, <1>0 DEF CreateUserOrder, TypeOK
        <4>4. venue'[o] \in Venues BY <3>1, <1>0 DEF CreateUserOrder, TypeOK
        <4>5. exch'[o] = "absent" BY <3>1, <1>1 DEF CreateUserOrder, OpeningInOrder
        <4> QED BY <4>2, <4>3, <4>4, <4>5
      <3>2. CASE PlaceOrder(o) \/ PlaceOrderFails(o)
        <4>1. opening[o] \in OpeningStates BY <1>0 DEF TypeOK
        <4>2. opening[o].pc = "place" /\ venue' = venue
              BY <3>2 DEF PlaceOrder, PlaceOrderFails
        <4>3. CASE PlaceOrder(o)
          <5>1. opening'[o].pc = "register"
                BY <4>3, <4>1, <1>0 DEF PlaceOrder, TypeOK, OpeningStates
          <5>2. exch'[o] # "absent" BY <4>3, <1>0 DEF PlaceOrder, TypeOK
          <5> QED BY <4>2, <5>1, <5>2, <1>1 DEF OpeningInOrder
        <4>4. CASE PlaceOrderFails(o)
          <5>1. opening'[o].pc = "done"
                BY <4>4, <4>1, <1>0 DEF PlaceOrderFails, TypeOK, OpeningStates
          <5> QED BY <4>2, <5>1, <1>1 DEF OpeningInOrder
        <4> QED BY <3>2, <4>3, <4>4
      <3>3. CASE RegisterOrder(o) \/ RegisterOrderFails(o)
        <4>1. opening[o].pc = "register" /\ venue' = venue /\ exch' = exch
              BY <3>3 DEF RegisterOrder, RegisterOrderFails
        <4>2. opening'[o].pc \in {"register", "done"} BY <4>1, <1>3, OpeningAfter
        <4> QED BY <4>1, <4>2, <1>1 DEF OpeningInOrder
      <3>4. CASE /\ opening'[o] = opening[o]
                 /\ venue'[o] = venue[o]
                 /\ exch'[o] = exch[o] \/ exch[o] # "absent"
                 /\ \/ userOrder'[o] = userOrder[o]
                    \/ \E n \in notes : n.order = o
        <4>1. ASSUME NEW n \in notes, n.order = o
              PROVE  opening[o].pc \in {"register", "done"}
              BY <4>1, <1>1 DEF NotesAreTrue, RunsAreOpened
        <4>2. exch[o] # "absent" => exch'[o] # "absent" BY <1>0 DEF Keeps, ExchangeKeeps
        <4> QED BY <3>4, <4>1, <4>2, <1>1 DEF OpeningInOrder
      <3> QED BY <3>1, <3>2, <3>3, <3>4, <1>3, Own DEF Open
    <2>2. ASSUME NEW r \in Runs, Registered(r)'
          PROVE  /\ exch'[r[1]] # "absent"
                 /\ opening'[r[1]].pc \in {"register", "done"}
      <3>1. r[1] \in Orders BY DEF Runs
      <3>2. opening[r[1]].pc \in {"register", "done"} /\ exch[r[1]] # "absent"
        <4>1. CASE Registered(r) BY <4>1, <1>1 DEF RunsAreOpened
        <4>2. CASE ~Registered(r)
          <5>1. opening[r[1]].pc = "register" BY <4>2, <2>2, <1>3, NewRun
          <5> QED BY <5>1, <3>1, <1>1 DEF OpeningInOrder
        <4> QED BY <4>1, <4>2
      <3> QED BY <3>1, <3>2, <1>0, <1>3, OpeningAfter DEF Keeps, ExchangeKeeps
    <2> QED BY <2>1, <2>2 DEF OpeningInOrder, RunsAreOpened
  <1> QED BY <1>2, <1>3
-----------------------------------------------------------------------------
LEMMA StreamTrue ==
    ASSUME Evidence, [Next]_vars
    PROVE  StreamIsTrue'
  <1>0. TypeOK /\ TypeOK' /\ Keeps BY TypeStep, KeepsHolds DEF Evidence
  <1>1. StreamIsTrue /\ OpeningInOrder BY DEF Evidence
  <1>2. CASE UNCHANGED vars BY <1>1, <1>2 DEF vars, StreamIsTrue
  <1>3. CASE Next
    <2>1. ASSUME NEW v \in Venues, NEW k \in 1 .. Len(stream'[v])
          PROVE  /\ stream'[v][k].status = "FILLED" => HasFills(exch'[stream'[v][k].order])
                 /\ stream'[v][k].status = "CANCELLED" => Incomplete(exch'[stream'[v][k].order])
      <3>1. CASE \E j \in 1 .. Len(stream[v]) : stream'[v][k] = stream[v][j]
        <4>1. PICK j \in 1 .. Len(stream[v]) : stream'[v][k] = stream[v][j] BY <3>1
        <4>2. stream[v][j] \in Messages BY <1>0 DEF TypeOK
        <4>3. stream[v][j].order \in Orders BY <4>2 DEF Messages
        <4> QED BY <4>1, <4>3, <1>0, <1>1, EndsKept DEF StreamIsTrue
      <3>2. CASE Announced(stream'[v][k])
        <4>1. PICK o \in Orders :
                 /\ venue[o] \in Venues
                 /\ exch'[o] \in ExchangeStates
                 /\ stream'[v][k] = [order |-> o, status |-> WsStatus(venue[o], exch'[o])]
              BY <3>2 DEF Announced
        <4> QED BY <4>1, StatusTruth, VenuesAssumption
      <3> QED BY <3>1, <3>2, <1>0, <1>1, <1>3, StreamStep
    <2> QED BY <2>1 DEF StreamIsTrue
  <1> QED BY <1>2, <1>3

\* What the WebSocket worker of a venue holds is true.
WsHolds(v) == ws[v].pc # "idle" =>
                  /\ Registered(ws[v].run)
                  /\ ws[v].pc \in {"mark", "metadata"} => HasFills(exch[ws[v].run[1]])
                  /\ ws[v].pc = "status" /\ ws[v].status = "CANCELLED"
                         => Incomplete(exch[ws[v].run[1]])

LEMMA WsTrue ==
    ASSUME Evidence, [Next]_vars
    PROVE  WsIsTrue'
  <1>0. TypeOK /\ TypeOK' /\ Keeps BY TypeStep, KeepsHolds DEF Evidence
  <1>1. WsIsTrue /\ StreamIsTrue BY DEF Evidence
  <1>2. CASE UNCHANGED vars BY <1>1, <1>2 DEF vars, WsIsTrue, Registered
  <1>3. CASE Next
    <2> SUFFICES ASSUME NEW v \in Venues PROVE WsHolds(v)'
        BY DEF WsIsTrue, WsHolds
    <2>0. WsHolds(v) BY <1>1 DEF WsIsTrue, WsHolds
    <2>1. CASE ws'[v] = ws[v]
      <3>1. CASE ws[v].pc = "idle" BY <2>1, <3>1 DEF WsHolds
      <3>2. CASE ws[v].pc # "idle"
        <4>1. ws[v].run \in Runs /\ ws[v].run[1] \in Orders BY <1>0, <3>2, WsBusy
        <4> QED BY <4>1, <2>0, <2>1, <3>2, <1>0, EndsKept
                DEF WsHolds, Keeps, Registered
      <3> QED BY <3>1, <3>2
    <2>2. CASE ws'[v] = WsIdle BY <2>2 DEF WsIdle, WsHolds
    <2>3. CASE WsFind(v)
      <3> DEFINE e == Head(stream[v])
      <3>1. PICK r \in RunsOf(e.order) :
              ws' = [ws EXCEPT ![v] =
                       IF DropsSameStatus(v) /\ running[r] = e.status
                       THEN WsIdle
                       ELSE [pc |-> IF e.status = "FILLED" THEN "mark" ELSE "status",
                             run |-> r, status |-> e.status]]
            BY <1>0, <2>3, FindType
      <3>2. PICK k \in 1 .. Len(stream[v]) : e = stream[v][k] BY <1>0, <2>3, FindType
      <3>3. /\ e.status = "FILLED" => HasFills(exch[e.order])
            /\ e.status = "CANCELLED" => Incomplete(exch[e.order])
            BY <3>2, <1>1 DEF StreamIsTrue
      <3>4. r[1] = e.order /\ r \in Runs /\ running[r] # "absent" BY <3>1 DEF RunsOf
      <3>5. exch' = exch /\ running' = running BY <2>3 DEF WsFind
      <3> HIDE DEF e
      <3>6. \/ ws'[v] = WsIdle
            \/ ws'[v] = [pc |-> IF e.status = "FILLED" THEN "mark" ELSE "status",
                         run |-> r, status |-> e.status]
            BY <3>1, <1>0 DEF TypeOK
      <3> QED BY <2>2, <3>3, <3>4, <3>5, <3>6 DEF WsHolds, Registered
    <2>4. CASE WsMarkFilled(v)
      <3>1. ws[v] \in WsWork /\ ws[v].pc = "mark" /\ ws[v].run \in Runs
            BY <1>0, <2>4, WsBusy DEF WsMarkFilled
      <3>2. ws'[v] = [ws[v] EXCEPT !.pc = "metadata"]
            BY <1>0, <2>4 DEF WsMarkFilled, TypeOK
      <3>3. ws'[v].pc = "metadata" /\ ws'[v].run = ws[v].run BY <3>1, <3>2 DEF WsWork
      <3>4. exch' = exch BY <2>4 DEF WsMarkFilled
      <3> QED BY <3>1, <3>3, <3>4, <2>0, <1>0 DEF WsHolds, Keeps
    <2>5. ASSUME NEW u \in Venues,
                 \/ WsFind(u) \/ WsMarkFilled(u) \/ WsOpenPosition(u)
                 \/ WsMetadataFails(u) \/ WsUpdateStatus(u)
          PROVE  \/ u = v
                 \/ ws'[v] = ws[v]
          BY <1>0, <2>5 DEF WsFind, WsMarkFilled, WsOpenPosition, WsMetadataFails,
                            WsUpdateStatus, TypeOK
    <2>6. ASSUME WsOpenPosition(v) \/ WsMetadataFails(v) \/ WsUpdateStatus(v)
          PROVE  ws'[v] = WsIdle
          BY <1>0, <2>6 DEF WsOpenPosition, WsMetadataFails, WsUpdateStatus, TypeOK
    <2>7. ASSUME Restart
          PROVE  ws'[v] = WsIdle
          BY <2>7 DEF Restart
    <2> QED BY <2>1, <2>2, <2>3, <2>4, <2>5, <2>6, <2>7, <1>3, Writers
  <1> QED BY <1>2, <1>3

LEMMA ScanTrue ==
    ASSUME Evidence, [Next]_vars
    PROVE  ScanIsTrue'
  <1>0. TypeOK /\ TypeOK' /\ Keeps BY TypeStep, KeepsHolds DEF Evidence
  <1>1. ScanIsTrue /\ OpeningInOrder /\ RunsAreOpened BY DEF Evidence
  <1>2. CASE UNCHANGED vars BY <1>1, <1>2 DEF vars, ScanIsTrue, Registered
  <1>3. CASE Next
    <2>1. ASSUME NEW r \in scan.todo PROVE r \in Runs /\ Registered(r)'
          BY <1>0, <1>1, ScanTodo DEF ScanIsTrue, Keeps
    <2>2. CASE UNCHANGED scan
      <3>1. CASE scan.pc \in {"compare", "metadata"}
        <4>1. scan.run \in Runs /\ scan.run[1] \in Orders BY <3>1, <1>0, ScanBusy
        <4> QED BY <4>1, <2>1, <2>2, <3>1, <1>0, <1>1, EndsKept
                DEF ScanIsTrue, Keeps
      <3>2. CASE scan.pc \notin {"compare", "metadata"}
            BY <2>1, <2>2, <3>2 DEF ScanIsTrue
      <3> QED BY <3>1, <3>2
    <2>3. ASSUME NEW r, scan' = ScanNext(r)
          PROVE  ScanIsTrue'
          BY <1>0, <2>1, <2>3, ScanNextType DEF ScanIsTrue
    <2>4. CASE ScanBegin
      <3>1. /\ scan'.todo = {r \in Runs : running[r] \in Scannable}
            /\ scan'.pc = "query"
            /\ running' = running
            BY <2>4 DEF ScanBegin
      <3>2. "absent" \notin Scannable BY DEF Scannable
      <3> QED BY <3>1, <3>2 DEF ScanIsTrue, Registered
    <2>5. CASE ScanMarkFilled
      <3>1. scan \in ScanWork /\ scan.pc = "compare" /\ scan.info = "FILLED" /\ exch' = exch
            BY <1>0, <2>5, ScanBusy DEF ScanMarkFilled
      <3>2. /\ scan'.pc = "metadata" /\ scan'.todo = scan.todo /\ scan'.run = scan.run
            /\ scan'.info = scan.info
            BY <2>5, <3>1 DEF ScanMarkFilled, ScanWork
      <3>3. scan.run \in Runs BY <3>1 DEF ScanWork
      <3>4. ~ScanFailure("FILLED") BY DEF ScanFailure
      <3> QED BY <2>1, <3>1, <3>2, <3>3, <3>4, <1>0, <1>1 DEF ScanIsTrue, Keeps
    <2>6. ASSUME NEW r \in Runs, ScanQuery(r)
          PROVE  ScanIsTrue'
      <3>1. PICK info \in RestStatuses(venue[r[1]], exch[r[1]]) :
               scan' = [pc |-> "compare", todo |-> scan.todo, run |-> r, info |-> info]
            BY <2>6 DEF ScanQuery
      <3>2. r \in scan.todo /\ exch' = exch /\ r[1] \in Orders BY <2>6 DEF ScanQuery, Runs
      <3>3. Registered(r) BY <3>2, <1>1 DEF ScanIsTrue
      <3>4. venue[r[1]] \in Venues /\ exch[r[1]] \in ExchangeStates
            BY <3>2, <3>3, <1>0, <1>1 DEF RunsAreOpened, OpeningInOrder, TypeOK
      <3>5. /\ info = "FILLED" => HasFills(exch[r[1]])
            /\ ScanFailure(info) => Incomplete(exch[r[1]])
            BY <3>1, <3>4, StatusTruth, VenuesAssumption
      <3>6. /\ scan'.pc = "compare" /\ scan'.todo = scan.todo /\ scan'.run = r
            /\ scan'.info = info
            BY <3>1
      <3> QED BY <2>1, <3>2, <3>5, <3>6 DEF ScanIsTrue
    <2>7. CASE Restart BY <2>7 DEF Restart, ScanIdle, ScanIsTrue
    <2>8. CASE ScanUnchanged \/ ScanOpenPosition \/ ScanMetadataFails \/ ScanMarkFailed
               \/ ScanUpdateStatus
          BY <2>3, <2>8 DEF ScanUnchanged, ScanOpenPosition, ScanMetadataFails,
                            ScanMarkFailed, ScanUpdateStatus
    <2>9. ASSUME NEW r \in Runs, ScanQueryFails(r)
          PROVE  ScanIsTrue'
          BY <2>3, <2>9 DEF ScanQueryFails
    <2> QED BY <2>2, <2>4, <2>5, <2>6, <2>7, <2>8, <2>9, <1>3, Writers
  <1> QED BY <1>2, <1>3
\* A note n is true of the state.
NoteHolds(n) == /\ \E r \in Runs : r[1] = n.order /\ Registered(r)
                /\ n.value = "filled" => HasFills(exch[n.order])
                /\ n.value = "failed" => Incomplete(exch[n.order])

LEMMA NotesTrue ==
    ASSUME Evidence, [Next]_vars
    PROVE  NotesAreTrue'
  <1>0. TypeOK /\ TypeOK' /\ Keeps BY TypeStep, KeepsHolds DEF Evidence
  <1>1. NotesAreTrue /\ WsIsTrue /\ ScanIsTrue BY DEF Evidence
  <1>2. CASE UNCHANGED vars BY <1>1, <1>2 DEF vars, NotesAreTrue, Registered
  <1>3. CASE Next
    <2>1. ASSUME NEW n \in Notes, NoteHolds(n) PROVE NoteHolds(n)'
      <3>1. n.order \in Orders BY DEF Notes
      <3> QED BY <2>1, <3>1, <1>0, EndsKept DEF NoteHolds, Keeps
    <2>2. \A n \in notes : NoteHolds(n) BY <1>1 DEF NotesAreTrue, NoteHolds
    <2>3. notes \subseteq Notes /\ notes' \subseteq Notes BY <1>0 DEF TypeOK
    <2> SUFFICES \A n \in notes' : NoteHolds(n)' BY DEF NotesAreTrue, NoteHolds
    <2>4. ASSUME NEW r \in Runs, NEW value \in {"filled", "failed"}, NEW by, NEW tries,
                 Registered(r),
                 value = "filled" => HasFills(exch[r[1]]),
                 value = "failed" => Incomplete(exch[r[1]])
          PROVE  NoteHolds(Note(r[1], value, by, tries))
          BY <2>4 DEF NoteHolds, Note
    <2>5. ASSUME NEW v \in Venues, WsOpenPosition(v) \/ WsUpdateStatus(v)
          PROVE  \A n \in notes' : NoteHolds(n)
      <3>1. ws[v].run \in Runs BY <1>0, <2>5, WsBusy DEF WsOpenPosition, WsUpdateStatus
      <3>2. CASE WsOpenPosition(v)
        <4>1. /\ ws[v].pc = "metadata"
              /\ notes' = notes \cup {Note(ws[v].run[1], "filled", "ws", WsNotifyAttempts)}
              BY <3>2 DEF WsOpenPosition
        <4>2. Registered(ws[v].run) /\ HasFills(exch[ws[v].run[1]])
              BY <4>1, <1>1 DEF WsIsTrue
        <4> QED BY <2>2, <2>4, <3>1, <4>1, <4>2
      <3>3. CASE WsUpdateStatus(v)
        <4>1. /\ ws[v].pc = "status"
              /\ notes' = IF ws[v].status = "CANCELLED"
                          THEN notes \cup {Note(ws[v].run[1], "failed", "ws", 1)}
                          ELSE notes
              BY <3>3 DEF WsUpdateStatus
        <4>2. /\ Registered(ws[v].run)
              /\ ws[v].status = "CANCELLED" => Incomplete(exch[ws[v].run[1]])
              BY <4>1, <1>1 DEF WsIsTrue
        <4> QED BY <2>2, <2>4, <3>1, <4>1, <4>2
      <3> QED BY <2>5, <3>2, <3>3
    <2>6. CASE ScanOpenPosition
      <3>1. /\ scan.pc = "metadata" /\ scan.run \in Runs
            /\ notes' = notes \cup {Note(scan.run[1], "filled", "scanner", 1)}
            BY <2>6, <1>0, ScanBusy DEF ScanOpenPosition
      <3>2. Registered(scan.run) /\ HasFills(exch[scan.run[1]])
            BY <3>1, <1>1 DEF ScanIsTrue
      <3>3. \A n \in notes' : NoteHolds(n) BY <2>2, <2>4, <3>1, <3>2
      <3> QED BY <2>1, <2>3, <3>3, <2>6, <1>0 DEF ScanOpenPosition, NoteHolds, Keeps
    <2>7. CASE ScanMarkFailed
      <3>1. /\ scan.pc = "compare" /\ scan.run \in Runs /\ ScanFailure(scan.info)
            /\ notes' = notes \cup {Note(scan.run[1], "failed", "scanner", 1)}
            BY <2>7, <1>0, ScanBusy DEF ScanMarkFailed
      <3>2. Registered(scan.run) /\ Incomplete(exch[scan.run[1]])
            BY <3>1, <1>1 DEF ScanIsTrue
      <3>3. \A n \in notes' : NoteHolds(n) BY <2>2, <2>4, <3>1, <3>2
      <3> QED BY <2>1, <2>3, <3>3
    <2>8. ASSUME NEW n \in notes, DeliverNote(n) \/ NoteFails(n)
          PROVE  \A m \in notes' : NoteHolds(m)
      <3>1. notes' \subseteq notes \cup {[n EXCEPT !.tries = n.tries - 1]}
            BY <2>8 DEF DeliverNote, NoteFails
      <3>2. n \in Notes BY <2>3
      <3>3. /\ [n EXCEPT !.tries = n.tries - 1].order = n.order
            /\ [n EXCEPT !.tries = n.tries - 1].value = n.value
            BY <3>2 DEF Notes
      <3>4. NoteHolds([n EXCEPT !.tries = n.tries - 1])
            BY <2>2, <3>3 DEF NoteHolds
      <3> QED BY <2>2, <3>1, <3>4
    <2>9. CASE Restart BY <2>9 DEF Restart
    <2> QED BY <2>1, <2>2, <2>3, <2>5, <2>6, <2>7, <2>8, <2>9, <1>3, Writers
  <1> QED BY <1>2, <1>3

LEMMA UserOrderTrue ==
    ASSUME Evidence, [Next]_vars
    PROVE  UserOrderIsTrue'
  <1>0. TypeOK /\ TypeOK' /\ Keeps BY TypeStep, KeepsHolds DEF Evidence
  <1>1. UserOrderIsTrue /\ NotesAreTrue /\ OpeningInOrder /\ RunsAreOpened BY DEF Evidence
  <1>2. CASE UNCHANGED vars BY <1>1, <1>2 DEF vars, UserOrderIsTrue, Registered
  <1>3. CASE Next
    <2> SUFFICES ASSUME NEW o \in Orders
                 PROVE  /\ userOrder'[o] = "filled" => HasFills(exch'[o])
                        /\ userOrder'[o] = "failed" =>
                              \/ Incomplete(exch'[o])
                              \/ /\ opening'[o].pc = "done"
                                 /\ \A r \in Runs : r[1] = o => ~Registered(r)'
        BY DEF UserOrderIsTrue
    <2>1. CASE userOrder'[o] = userOrder[o]
      <3>1. ASSUME opening[o].pc = "done", NEW r \in Runs, r[1] = o, ~Registered(r)
            PROVE  ~Registered(r)'
            BY <3>1, <1>3, NewRun
      <3>2. opening[o].pc = "done" => opening'[o].pc = "done" BY <1>3, OpeningAfter
      <3> QED BY <2>1, <3>1, <3>2, <1>0, <1>1, EndsKept
              DEF UserOrderIsTrue
    <2>2. ASSUME NEW p \in Orders, CreateUserOrder(p)
          PROVE  userOrder'[o] = userOrder[o] \/ userOrder'[o] = "pending"
          BY <1>0, <2>2 DEF CreateUserOrder, TypeOK
    <2>3. ASSUME NEW p \in Orders, PlaceOrderFails(p), userOrder'[o] # userOrder[o]
          PROVE  /\ userOrder'[o] = "failed"
                 /\ opening'[o].pc = "done"
                 /\ \A r \in Runs : r[1] = o => ~Registered(r)'
      <3>1. o = p /\ userOrder'[o] = "failed" BY <1>0, <2>3 DEF PlaceOrderFails, TypeOK
      <3>2. opening[o].pc = "place" BY <2>3, <3>1 DEF PlaceOrderFails
      <3>3. opening'[o].pc = "done"
            BY <1>0, <2>3, <3>1 DEF PlaceOrderFails, TypeOK, OpeningStates
      <3>4. running' = running BY <2>3 DEF PlaceOrderFails
      <3> QED BY <3>1, <3>2, <3>3, <3>4, <1>1 DEF RunsAreOpened, Registered
    <2>4. ASSUME NEW n \in notes, DeliverNote(n), userOrder'[o] # userOrder[o]
          PROVE  /\ userOrder'[o] = "filled" => HasFills(exch'[o])
                 /\ userOrder'[o] = "failed" => Incomplete(exch'[o])
      <3>1. n.order = o /\ userOrder'[o] = n.value /\ exch' = exch
            BY <1>0, <2>4 DEF DeliverNote, TypeOK
      <3> QED BY <3>1, <1>1 DEF NotesAreTrue
    <2> QED BY <2>1, <2>2, <2>3, <2>4, <1>3, Writers
  <1> QED BY <1>2, <1>3

LEMMA CreateIfAbsentRows ==
    ASSUME NEW Ids, NEW table \in Seq(Position(Ids)), NEW o \in Ids, NEW q \in Nat,
           NEW i \in 1 .. Len(CreateIfAbsent(table, o, q))
    PROVE  \/ CreateIfAbsent(table, o, q)[i].order = o
           \/ /\ i \in 1 .. Len(table)
              /\ CreateIfAbsent(table, o, q)[i] = table[i]
  <1>1. CASE ActiveFor(table, o) # {} BY <1>1 DEF CreateIfAbsent
  <1>2. CASE ActiveFor(table, o) = {}
    <2> DEFINE row == NewPosition(o, q)
    <2>1. row.order = o BY DEF NewPosition
    <2>2. CreateIfAbsent(table, o, q) = Append(table, row) BY <1>2 DEF CreateIfAbsent
    <2> HIDE DEF row
    <2> QED BY <2>1, <2>2
  <1> QED BY <1>1, <1>2

LEMMA CloseRows ==
    ASSUME NEW Ids, NEW table \in Seq(Position(Ids)), NEW c \in 1 .. Len(table),
           NEW q \in 0 .. table[c].qty,
           NEW i \in 1 .. Len(CloseAndCreateRemaining(table, c, q))
    PROVE  \E j \in 1 .. Len(table) :
              CloseAndCreateRemaining(table, c, q)[i].order = table[j].order
  <1> DEFINE closed == MarkClosed(table, c)
             row == NewPosition(table[c].order, table[c].qty - q)
  <1>1. /\ closed \in Seq(Position(Ids))
        /\ Len(closed) = Len(table)
        /\ \A k \in 1 .. Len(table) :
              closed[k] = IF k = c THEN [table[c] EXCEPT !.deleted = TRUE] ELSE table[k]
        BY MarkClosedType
  <1>2. table[c] \in Position(Ids) OBVIOUS
  <1>3. \A k \in 1 .. Len(table) : closed[k].order = table[k].order
        BY <1>1, <1>2 DEF Position
  <1>4. row.order = table[c].order BY DEF NewPosition
  <1>5. q < table[c].qty => row \in Position(Ids) BY <1>2 DEF NewPosition, Position
  <1>6. CloseAndCreateRemaining(table, c, q) = IF q < table[c].qty THEN Append(closed, row)
                                                                  ELSE closed
        BY DEF CloseAndCreateRemaining
  <1> HIDE DEF closed, row
  <1>7. CASE q < table[c].qty
    <2>1. CloseAndCreateRemaining(table, c, q) = Append(closed, row) BY <1>6, <1>7
    <2>2. i \in 1 .. (Len(closed) + 1) BY <1>1, <2>1
    <2>3. CASE i = Len(closed) + 1
      <3>1. Append(closed, row)[i] = row BY <1>1, <1>7, <1>5, <2>3
      <3> QED BY <1>4, <2>1, <3>1
    <2>4. CASE i # Len(closed) + 1
      <3>1. i \in 1 .. Len(closed) BY <1>1, <2>2, <2>4
      <3>2. Append(closed, row)[i] = closed[i] BY <1>1, <1>7, <1>5, <3>1
      <3> QED BY <1>1, <1>3, <2>1, <3>1, <3>2
    <2> QED BY <2>3, <2>4
  <1>8. CASE ~(q < table[c].qty) BY <1>1, <1>3, <1>6, <1>8
  <1> QED BY <1>7, <1>8

LEMMA PositionsBacked ==
    ASSUME Evidence, [Next]_vars
    PROVE  PositionsAreBacked'
  <1>0. TypeOK /\ TypeOK' /\ Keeps BY TypeStep, KeepsHolds DEF Evidence
  <1>1. PositionsAreBacked /\ WsIsTrue /\ ScanIsTrue BY DEF Evidence
  <1>2. positions \in Seq(Position(Runs)) BY <1>0 DEF TypeOK
  <1>3. OrderQty \in Nat BY BoundsAssumption
  <1>4. ASSUME NEW r \in Runs, HasFills(exch[r[1]])
        PROVE  HasFills(exch'[r[1]])
    <2>1. r[1] \in Orders BY DEF Runs
    <2> QED BY <1>4, <2>1, <1>0, EndsKept
  <1>5. \A i \in 1 .. Len(positions) : positions[i].order \in Runs /\
              HasFills(exch'[positions[i].order[1]])
    <2>1. ASSUME NEW i \in 1 .. Len(positions) PROVE positions[i].order \in Runs
      <3>1. positions[i] \in Position(Runs) BY <1>2
      <3> QED BY <3>1 DEF Position
    <2> QED BY <1>1, <1>4, <2>1 DEF PositionsAreBacked
  <1>6. CASE UNCHANGED positions BY <1>5, <1>6 DEF PositionsAreBacked
  <1>7. ASSUME NEW v \in Venues, WsOpenPosition(v)
        PROVE  PositionsAreBacked'
    <2>1. ws[v].run \in Runs BY <1>0, <1>7, WsBusy DEF WsOpenPosition
    <2>2. HasFills(exch[ws[v].run[1]]) BY <1>7, <1>1 DEF WsOpenPosition, WsIsTrue
    <2>3. positions' = CreateIfAbsent(positions, ws[v].run, OrderQty)
          BY <1>7 DEF WsOpenPosition
    <2> QED BY <1>2, <1>3, <1>4, <1>5, <2>1, <2>2, <2>3, CreateIfAbsentRows
            DEF PositionsAreBacked
  <1>8. CASE ScanOpenPosition
    <2>1. scan.run \in Runs BY <1>0, <1>8, ScanBusy DEF ScanOpenPosition
    <2>2. HasFills(exch[scan.run[1]]) BY <1>8, <1>1 DEF ScanOpenPosition, ScanIsTrue
    <2>3. positions' = CreateIfAbsent(positions, scan.run, OrderQty)
          BY <1>8 DEF ScanOpenPosition
    <2> QED BY <1>2, <1>3, <1>4, <1>5, <2>1, <2>2, <2>3, CreateIfAbsentRows
            DEF PositionsAreBacked
  <1>9. ASSUME NEW i \in 1 .. Len(positions), ClosePosition(i)
        PROVE  PositionsAreBacked'
    <2>1. PICK q \in 1 .. positions[i].qty : positions' = CloseAndCreateRemaining(positions, i, q)
          BY <1>9 DEF ClosePosition
    <2>2. q \in 0 .. positions[i].qty BY <2>1
    <2> QED BY <1>2, <1>5, <2>1, <2>2, CloseRows DEF PositionsAreBacked
  <1>10. CASE UNCHANGED vars BY <1>6, <1>10 DEF vars
  <1> QED BY <1>6, <1>7, <1>8, <1>9, <1>10, Writers
-----------------------------------------------------------------------------
(* Evidence is an invariant.                                               *)

LEMMA InitEvidence == Init => Evidence
  <1> SUFFICES ASSUME Init PROVE Evidence OBVIOUS
  <1>1. TypeOK
    <2>1. [pc |-> "idle", tries |-> 0] \in OpeningStates
          BY BoundsAssumption DEF OpeningStates
    <2>2. << >> \in Seq(Messages) /\ << >> \in Seq(Position(Runs)) OBVIOUS
    <2>3. stream \in [Venues -> Seq(Messages)] BY <2>2 DEF Init
    <2>4. positions \in Seq(Position(Runs)) BY <2>2 DEF Init
    <2>5. opening \in [Orders -> OpeningStates] BY <2>1 DEF Init
    <2>6. faults \in 0 .. MaxFaults /\ closes \in 0 .. MaxCloses BY BoundsAssumption DEF Init
    <2> QED BY <2>3, <2>4, <2>5, <2>6 DEF Init, TypeOK
  <1>2. OpeningInOrder BY DEF Init, OpeningInOrder
  <1>3. \A r \in Runs : ~Registered(r) BY DEF Init, Registered
  <1>4. RunsAreOpened /\ UserOrderIsTrue BY <1>3 DEF Init, RunsAreOpened, UserOrderIsTrue
  <1>5. StreamIsTrue BY DEF Init, StreamIsTrue
  <1>6. WsIsTrue /\ ScanIsTrue /\ NotesAreTrue
        BY DEF Init, WsIsTrue, ScanIsTrue, NotesAreTrue, WsIdle, ScanIdle
  <1>7. PositionsAreBacked BY DEF Init, PositionsAreBacked
  <1> QED BY <1>1, <1>2, <1>4, <1>5, <1>6, <1>7 DEF Evidence

LEMMA EvidenceStep == Evidence /\ [Next]_vars => Evidence'
  BY TypeStep, OpeningStep, StreamTrue, WsTrue, ScanTrue, NotesTrue, UserOrderTrue,
     PositionsBacked DEF Evidence

\* Every message, answer and note under way in the PMS, and every record it
\* has made, agrees with the exchange, in every interleaving of the UOS
\* handler, the WebSocket workers and the scanner.
THEOREM EvidenceInvariant == Spec => []Evidence
  <1>1. Init => Evidence BY InitEvidence
  <1>2. Evidence /\ [Next]_vars => Evidence' BY EvidenceStep
  <1> QED BY <1>1, <1>2, PTL DEF Spec

\* The services' tables, streams and workers keep their types.
THEOREM TypeInvariant == Spec => []TypeOK
  <1>1. Evidence => TypeOK BY DEF Evidence
  <1> QED BY <1>1, EvidenceInvariant, PTL

\* A position is only ever created for an order the exchange has ended with fills.
THEOREM PositionsBackedInvariant == Spec => []PositionsAreBacked
  <1>1. Evidence => PositionsAreBacked BY DEF Evidence
  <1> QED BY <1>1, EvidenceInvariant, PTL

\* The UOS reports the outcome the exchange has.
THEOREM OutcomeIsTrueInvariant == Spec => []OutcomeIsTrue
  <1>1. Evidence => OutcomeIsTrue
        BY DEF Evidence, UserOrderIsTrue, OutcomeIsTrue, RunsOf, Registered
  <1> QED BY <1>1, EvidenceInvariant, PTL

\* An outcome the UOS has reported is never replaced, unless the exchange has
\* cut the order short: a note that arrives later, from either worker, carries
\* the same outcome.
THEOREM OutcomeIsFinalProperty == Spec => OutcomeIsFinal
  <1> DEFINE Final == \A o \in Orders :
                         userOrder[o] \in {"filled", "failed"} /\ exch[o] # "short" =>
                             userOrder'[o] = userOrder[o]
  <1>1. Evidence /\ [Next]_vars => [Final]_<<userOrder, exch>>
    <2> SUFFICES ASSUME Evidence, Next, NEW o \in Orders,
                        userOrder[o] \in {"filled", "failed"}, exch[o] # "short",
                        userOrder'[o] # userOrder[o]
                 PROVE  FALSE
        BY DEF vars
    <2>0. /\ TypeOK /\ OpeningInOrder /\ UserOrderIsTrue /\ NotesAreTrue /\ RunsAreOpened
          BY DEF Evidence
    <2>1. ASSUME NEW p \in Orders, CreateUserOrder(p) \/ PlaceOrderFails(p) PROVE FALSE
      <3>1. p = o BY <2>0, <2>1 DEF CreateUserOrder, PlaceOrderFails, TypeOK
      <3> QED BY <2>0, <2>1, <3>1 DEF CreateUserOrder, PlaceOrderFails, OpeningInOrder
    <2>2. ASSUME NEW n \in notes, DeliverNote(n) PROVE FALSE
      <3>1. n.order = o /\ userOrder'[o] = n.value BY <2>0, <2>2 DEF DeliverNote, TypeOK
      <3>2. n.value \in {"filled", "failed"} BY <2>0 DEF TypeOK, Notes
      <3>3. \E r \in Runs : r[1] = o /\ Registered(r) BY <2>0, <3>1 DEF NotesAreTrue
      <3>4. /\ n.value = "filled" => HasFills(exch[o])
            /\ n.value = "failed" => Incomplete(exch[o])
            BY <2>0, <3>1 DEF NotesAreTrue
      <3>5. /\ userOrder[o] = "filled" => HasFills(exch[o])
            /\ userOrder[o] = "failed" => Incomplete(exch[o])
            BY <2>0, <3>3 DEF UserOrderIsTrue
      <3> QED BY <3>1, <3>2, <3>4, <3>5 DEF HasFills, Incomplete
    <2> QED BY <2>1, <2>2, Writers
  <1> QED BY <1>1, EvidenceInvariant, PTL DEF Spec, OutcomeIsFinal
-----------------------------------------------------------------------------
(* One active position for an order.                                       *)

OneRow == \A r \in Runs : AtMostOne(positions, r)

LEMMA OneRowStep ==
    ASSUME TypeOK, OneRow, [Next]_vars
    PROVE  OneRow'
  <1>1. positions \in Seq(Position(Runs)) /\ OrderQty \in Nat
        BY BoundsAssumption DEF TypeOK
  <1> SUFFICES ASSUME NEW r \in Runs PROVE AtMostOne(positions', r)
      BY DEF OneRow, AtMostOne, ActiveFor
  <1>2. AtMostOne(positions, r) BY DEF OneRow
  <1>3. CASE UNCHANGED positions BY <1>2, <1>3
  <1>4. ASSUME NEW v \in Venues, WsOpenPosition(v)
        PROVE  AtMostOne(positions', r)
    <2>1. ws[v].run \in Runs BY <1>4, WsBusy DEF WsOpenPosition
    <2> QED BY <1>1, <1>2, <1>4, <2>1, CreateIfAbsentOne DEF WsOpenPosition
  <1>5. CASE ScanOpenPosition
    <2>1. scan.run \in Runs BY <1>5, ScanBusy DEF ScanOpenPosition
    <2> QED BY <1>1, <1>2, <1>5, <2>1, CreateIfAbsentOne DEF ScanOpenPosition
  <1>6. ASSUME NEW i \in 1 .. Len(positions), ClosePosition(i)
        PROVE  AtMostOne(positions', r)
    <2>1. PICK q \in 1 .. positions[i].qty : positions' = CloseAndCreateRemaining(positions, i, q)
          BY <1>6 DEF ClosePosition
    <2>2. q \in 0 .. positions[i].qty /\ ~positions[i].deleted BY <1>6, <2>1 DEF ClosePosition
    <2> QED BY <1>1, <1>2, <2>1, <2>2, CloseOne
  <1>7. CASE UNCHANGED vars BY <1>3, <1>7 DEF vars
  <1> QED BY <1>3, <1>4, <1>5, <1>6, <1>7, Writers

LEMMA OneRowCardinality == TypeOK /\ OneRow => OneActivePosition
  <1> SUFFICES ASSUME TypeOK, OneRow, NEW r \in Runs
               PROVE  Cardinality(ActiveFor(positions, r)) <= 1
      BY DEF OneActivePosition
  <1>1. AtMostOne(positions, r) BY DEF OneRow
  <1>2. CASE ActiveFor(positions, r) = {} BY <1>2, FS_EmptySet
  <1>3. CASE ActiveFor(positions, r) # {}
    <2>1. PICK i : i \in ActiveFor(positions, r) BY <1>3
    <2>2. ActiveFor(positions, r) = {i} BY <1>1, <2>1 DEF AtMostOne
    <2>3. Cardinality({i}) = 1 BY FS_Singleton
    <2> QED BY <2>2, <2>3
  <1> QED BY <1>2, <1>3

\* However often a fill is handled, an uprunning order has at most one active
\* position.
THEOREM OneActivePositionInvariant == Spec => []OneActivePosition
  <1>1. Init => OneRow BY DEF Init, OneRow, AtMostOne, ActiveFor
  <1>2. TypeOK /\ OneRow /\ [Next]_vars => OneRow' BY OneRowStep
  <1>3. TypeOK /\ OneRow => OneActivePosition BY OneRowCardinality
  <1> QED BY <1>1, <1>2, <1>3, TypeInvariant, PTL DEF Spec
-----------------------------------------------------------------------------
(* A fill that was recorded has its position.                              *)

HasRow(table, r) == \E i \in 1 .. Len(table) : table[i].order = r

LEMMA CreateIfAbsentKeeps ==
    ASSUME NEW Ids, NEW table \in Seq(Position(Ids)), NEW o \in Ids, NEW q \in Nat
    PROVE  /\ HasRow(CreateIfAbsent(table, o, q), o)
           /\ \A r \in Ids : HasRow(table, r) => HasRow(CreateIfAbsent(table, o, q), r)
  <1>1. CASE ActiveFor(table, o) # {}
        BY <1>1 DEF CreateIfAbsent, ActiveFor, HasRow
  <1>2. CASE ActiveFor(table, o) = {}
    <2> DEFINE row == NewPosition(o, q)
               new == Append(table, row)
    <2>1. /\ Len(new) = Len(table) + 1
          /\ \A k \in 1 .. Len(table) : new[k] = table[k]
          /\ new[Len(table) + 1] = row
          /\ Len(table) \in Nat
          OBVIOUS
    <2>2. row.order = o BY DEF NewPosition
    <2> HIDE DEF new, row
    <2>3. HasRow(new, o) BY <2>1, <2>2 DEF HasRow
    <2>4. \A r \in Ids : HasRow(table, r) => HasRow(new, r) BY <2>1 DEF HasRow
    <2> QED BY <2>3, <2>4, <1>2 DEF CreateIfAbsent, new, row
  <1> QED BY <1>1, <1>2

LEMMA CloseKeeps ==
    ASSUME NEW Ids, NEW table \in Seq(Position(Ids)), NEW i \in 1 .. Len(table),
           NEW q \in 0 .. table[i].qty, NEW r \in Ids, HasRow(table, r)
    PROVE  HasRow(CloseAndCreateRemaining(table, i, q), r)
  <1> DEFINE closed == MarkClosed(table, i)
             row == NewPosition(table[i].order, table[i].qty - q)
             new == Append(closed, row)
  <1>1. table[i] \in Position(Ids) OBVIOUS
  <1>2. /\ closed \in Seq(Position(Ids))
        /\ Len(closed) = Len(table) /\ Len(table) \in Nat
        /\ \A k \in 1 .. Len(table) :
              closed[k] = IF k = i THEN [table[i] EXCEPT !.deleted = TRUE] ELSE table[k]
        BY MarkClosedType
  <1> HIDE DEF closed
  <1>3. \A k \in 1 .. Len(table) : closed[k].order = table[k].order
        BY <1>1, <1>2 DEF Position
  <1>4. HasRow(closed, r) BY <1>2, <1>3 DEF HasRow
  <1>5. CASE q < table[i].qty
    <2>1. /\ Len(new) = Len(table) + 1
          /\ \A k \in 1 .. Len(table) : new[k] = closed[k]
          BY <1>2
    <2> HIDE DEF new, row
    <2>2. HasRow(new, r) BY <1>2, <1>4, <2>1 DEF HasRow
    <2> QED BY <2>2, <1>5 DEF CloseAndCreateRemaining, new, row, closed
  <1>6. CASE ~(q < table[i].qty)
        BY <1>4, <1>6 DEF CloseAndCreateRemaining, closed
  <1> QED BY <1>5, <1>6

\* An order that has had a position has one, open or closed.
LEMMA RowsStay ==
    ASSUME TypeOK, [Next]_vars, NEW r \in Runs, HasRow(positions, r)
    PROVE  HasRow(positions', r)
  <1>1. positions \in Seq(Position(Runs)) /\ OrderQty \in Nat
        BY BoundsAssumption DEF TypeOK
  <1>2. CASE UNCHANGED positions BY <1>2
  <1>3. ASSUME NEW v \in Venues, WsOpenPosition(v)
        PROVE  HasRow(positions', r)
    <2>1. ws[v].run \in Runs BY <1>3, WsBusy DEF WsOpenPosition
    <2> QED BY <1>1, <1>3, <2>1, CreateIfAbsentKeeps DEF WsOpenPosition
  <1>4. CASE ScanOpenPosition
    <2>1. scan.run \in Runs BY <1>4, ScanBusy DEF ScanOpenPosition
    <2> QED BY <1>1, <1>4, <2>1, CreateIfAbsentKeeps DEF ScanOpenPosition
  <1>5. ASSUME NEW i \in 1 .. Len(positions), ClosePosition(i)
        PROVE  HasRow(positions', r)
    <2>1. PICK q \in 1 .. positions[i].qty : positions' = CloseAndCreateRemaining(positions, i, q)
          BY <1>5 DEF ClosePosition
    <2>2. q \in 0 .. positions[i].qty BY <2>1
    <2> QED BY <1>1, <2>1, <2>2, CloseKeeps
  <1>6. CASE UNCHANGED vars BY <1>6 DEF vars
  <1> QED BY <1>2, <1>3, <1>4, <1>5, <1>6, Writers

\* The WebSocket worker writes FILLED only on the way to the position.
StatusIsOther == \A v \in Venues : ws[v].pc = "status" => ws[v].status # "FILLED"

LEMMA StatusIsOtherStep ==
    ASSUME TypeOK, StatusIsOther, [Next]_vars
    PROVE  StatusIsOther'
  <1>1. ws \in [Venues -> {WsIdle} \cup WsWork] BY DEF TypeOK
  <1>2. CASE UNCHANGED ws BY <1>2 DEF StatusIsOther
  <1>3. ASSUME NEW v \in Venues, WsFind(v)
        PROVE  StatusIsOther'
    <2>1. PICK r \in RunsOf(Head(stream[v]).order) :
             ws' = [ws EXCEPT ![v] =
                     IF DropsSameStatus(v) /\ running[r] = Head(stream[v]).status
                     THEN WsIdle
                     ELSE [pc |-> IF Head(stream[v]).status = "FILLED" THEN "mark" ELSE "status",
                           run |-> r, status |-> Head(stream[v]).status]]
          BY <1>3 DEF WsFind
    <2>2. \A u \in Venues : u # v => ws'[u] = ws[u] BY <1>1, <2>1
    <2>3. ws'[v].pc = "status" => ws'[v].status # "FILLED" BY <1>1, <2>1 DEF WsIdle
    <2> QED BY <2>2, <2>3 DEF StatusIsOther
  <1>4. ASSUME NEW v \in Venues, WsMarkFilled(v)
        PROVE  StatusIsOther'
    <2>1. ws' = [ws EXCEPT ![v].pc = "metadata"] /\ ws[v].pc = "mark"
          BY <1>4 DEF WsMarkFilled
    <2>2. ws[v] \in WsWork BY <2>1, WsBusy
    <2>3. ws'[v].pc = "metadata" /\ \A u \in Venues : u # v => ws'[u] = ws[u]
          BY <1>1, <2>1, <2>2 DEF WsWork
    <2> QED BY <2>3 DEF StatusIsOther
  <1>5. ASSUME NEW v \in Venues, WsOpenPosition(v) \/ WsMetadataFails(v) \/ WsUpdateStatus(v)
        PROVE  StatusIsOther'
        BY <1>1, <1>5 DEF WsOpenPosition, WsMetadataFails, WsUpdateStatus, StatusIsOther, WsIdle
  <1>6. CASE Restart BY <1>6 DEF Restart, StatusIsOther, WsIdle
  <1>7. CASE UNCHANGED vars BY <1>2, <1>7 DEF vars
  <1> QED BY <1>2, <1>3, <1>4, <1>5, <1>6, <1>7, Writers

LEMMA FilledStep ==
    ASSUME TypeOK, StatusIsOther, FilledHasPosition, [Next]_vars,
           {"metadata", "restart"} \cap FaultKinds = {}
    PROVE  FilledHasPosition'
  <1> SUFFICES ASSUME NEW r \in Runs, running'[r] = "FILLED"
               PROVE  FillUnderWay(r)' \/ HasRow(positions', r)
      BY DEF FilledHasPosition, HasRow
  <1>0. /\ positions \in Seq(Position(Runs)) /\ OrderQty \in Nat
        /\ ws \in [Venues -> {WsIdle} \cup WsWork]
        /\ running \in [Runs -> {"absent"} \cup Statuses]
        BY BoundsAssumption DEF TypeOK
  <1>1. CASE UNCHANGED vars
        BY <1>1 DEF vars, FilledHasPosition, FillUnderWay, HasRow
  \* The step that marks the order.
  <1>2. ASSUME Next, running[r] # "FILLED"
        PROVE  FillUnderWay(r)'
    <2>1. ASSUME NEW o \in Orders, RegisterOrder(o) \/ RegisterOrderFails(o) PROVE FALSE
          BY <1>0, <1>2, <2>1 DEF RegisterOrder, RegisterOrderFails
    <2>2. ASSUME NEW v \in Venues, WsMarkFilled(v)
          PROVE  FillUnderWay(r)'
      <3>1. ws[v] \in WsWork /\ ws[v].pc = "mark" BY <2>2, WsBusy DEF WsMarkFilled
      <3>2. ws[v].run = r BY <1>0, <1>2, <2>2 DEF WsMarkFilled
      <3>3. ws'[v].pc = "metadata" /\ ws'[v].run = r
            BY <1>0, <2>2, <3>1, <3>2 DEF WsMarkFilled, WsWork
      <3> QED BY <3>3 DEF FillUnderWay
    <2>3. ASSUME NEW v \in Venues, WsUpdateStatus(v) PROVE FALSE
      <3>1. ws[v].status # "FILLED" BY <2>3 DEF StatusIsOther, WsUpdateStatus
      <3> QED BY <1>0, <1>2, <2>3, <3>1 DEF WsUpdateStatus
    <2>4. CASE ScanMarkFilled
      <3>1. scan \in ScanWork BY <2>4, ScanBusy DEF ScanMarkFilled
      <3>2. scan.run = r BY <1>0, <1>2, <2>4 DEF ScanMarkFilled
      <3>3. scan'.pc = "metadata" /\ scan'.run = r
            BY <2>4, <3>1, <3>2 DEF ScanMarkFilled, ScanWork
      <3> QED BY <3>3 DEF FillUnderWay
    <2>5. ASSUME ScanMarkFailed \/ ScanUpdateStatus PROVE FALSE
          BY <1>0, <1>2, <2>5 DEF ScanMarkFailed, ScanUpdateStatus, ScanFailure
    <2>6. running' # running BY <1>2
    <2> QED BY <1>2, <2>1, <2>2, <2>3, <2>4, <2>5, <2>6, Writers
  <1>3. ASSUME HasRow(positions, r) PROVE HasRow(positions', r)
        BY <1>3, RowsStay
  \* The worker that marked it goes on to the position.
  <1>4. ASSUME Next, NEW v \in Venues, ws[v].pc = "metadata", ws[v].run = r
        PROVE  FillUnderWay(r)' \/ HasRow(positions', r)
    <2>1. CASE ws'[v] = ws[v] BY <1>4, <2>1 DEF FillUnderWay
    <2>2. CASE WsOpenPosition(v)
          BY <1>0, <1>4, <2>2, CreateIfAbsentKeeps DEF WsOpenPosition
    <2>3. ASSUME NEW u \in Venues,
                 \/ WsFind(u) \/ WsMarkFilled(u) \/ WsOpenPosition(u) \/ WsUpdateStatus(u)
          PROVE  ws'[v] = ws[v] \/ WsOpenPosition(v)
      <3>1. CASE u # v
            BY <1>0, <2>3, <3>1 DEF WsFind, WsMarkFilled, WsOpenPosition, WsUpdateStatus
      <3>2. CASE u = v
            BY <1>4, <2>3, <3>2 DEF WsFind, WsMarkFilled, WsUpdateStatus
      <3> QED BY <3>1, <3>2
    <2>4. ASSUME Restart \/ \E u \in Venues : WsMetadataFails(u) PROVE FALSE
          BY <2>4 DEF Restart, WsMetadataFails, Fault
    <2> QED BY <1>4, <2>1, <2>2, <2>3, <2>4, Writers
  <1>5. ASSUME Next, scan.pc = "metadata", scan.run = r
        PROVE  FillUnderWay(r)' \/ HasRow(positions', r)
    <2>1. CASE scan' = scan BY <1>5, <2>1 DEF FillUnderWay
    <2>2. CASE ScanOpenPosition
          BY <1>0, <1>5, <2>2, CreateIfAbsentKeeps DEF ScanOpenPosition
    <2>3. ASSUME \/ ScanBegin \/ ScanUnchanged \/ ScanMarkFilled \/ ScanMarkFailed
                 \/ ScanUpdateStatus
                 \/ \E q \in Runs : ScanQuery(q) \/ ScanQueryFails(q)
          PROVE  FALSE
          BY <1>5, <2>3 DEF ScanBegin, ScanUnchanged, ScanMarkFilled, ScanMarkFailed,
                            ScanUpdateStatus, ScanQuery, ScanQueryFails
    <2>4. ASSUME Restart \/ ScanMetadataFails PROVE FALSE
          BY <2>4 DEF Restart, ScanMetadataFails, Fault
    <2> QED BY <1>5, <2>1, <2>2, <2>3, <2>4, Writers
  <1>6. running[r] = "FILLED" => FillUnderWay(r) \/ HasRow(positions, r)
        BY DEF FilledHasPosition, HasRow
  <1> QED BY <1>1, <1>2, <1>3, <1>4, <1>5, <1>6 DEF FillUnderWay

\* An uprunning order marked FILLED, which neither worker looks at again, has
\* its position or a worker on the way to create it, whatever else fails,
\* as long as no metadata query fails and the PMS is not restarted in between
\* (executor.go:155).
THEOREM FilledHasPositionInvariant ==
    ASSUME {"metadata", "restart"} \cap FaultKinds = {}
    PROVE  Spec => []FilledHasPosition
  <1>1. Init => StatusIsOther /\ FilledHasPosition
        BY DEF Init, StatusIsOther, FilledHasPosition, WsIdle
  <1>2. TypeOK /\ StatusIsOther /\ [Next]_vars => StatusIsOther'
        BY StatusIsOtherStep
  <1>3. TypeOK /\ StatusIsOther /\ FilledHasPosition /\ [Next]_vars => FilledHasPosition'
        BY FilledStep
  <1> QED BY <1>1, <1>2, <1>3, TypeInvariant, PTL DEF Spec
=============================================================================
