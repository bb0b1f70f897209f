------------------------------ MODULE Streams ------------------------------
(***************************************************************************)
(* The WebSocket streams of the position monitor service (PMS): one of     *)
(* order updates for each user, kept by the UserOrderRuntimeManager, and   *)
(* one of option prices, kept by the Deribit price runtime.                *)
(*                                                                         *)
(* A pass of the manager, the message loop and the heartbeat of every      *)
(* Deribit order monitor, the loop of every Binance monitor, and the risk  *)
(* cycle with its subscriptions are goroutines of their own.  Messages     *)
(* carry nothing here: what is done with an order update is the business   *)
(* of module OrderFill.                                                    *)
(*                                                                         *)
(* Hyperliquid's streams, whose client reconnects on its own, and the      *)
(* prices of Binance are left out.                                         *)
(***************************************************************************)
EXTENDS Naturals, Sequences, FiniteSets

CONSTANTS
    DeribitUsers, \* users with credentials for Deribit ...
    BinanceUsers, \* ... and for Binance
    Options,      \* Deribit options that positions may be held in
    MaxTries,     \* attempts of reconnect
    MaxRuntimes,  \* bound: runtimes started
    MaxReloads,   \* bound: changes of the table of users, none or so many
    MaxBreaks,    \* bound: connections that the venue or the network breaks
    MaxFaults     \* bound: calls that fail, listen keys that expire

Users == DeribitUsers \cup BinanceUsers

ASSUME UsersAssumption == DeribitUsers \cap BinanceUsers = {}
ASSUME BoundsAssumption ==
    /\ {MaxRuntimes, MaxReloads, MaxBreaks, MaxFaults} \subseteq Nat
    /\ MaxTries \in Nat \ {0}

VARIABLES
    accounts,  \* user -> version of the credentials in users, 0 if not there
    manager,   \* the pass of ReconcileUsers under way
    entries,   \* user -> the manager's runtime, an index of runtimes, 0 if none
    runtimes,  \* all runtimes started
    held,      \* options with an active position
    cycle,     \* the risk cycle, as far as it keeps the subscriptions, "off" if
               \* no user of Deribit was there to start a price runtime for
    price,     \* the price manager of Deribit
    reloads, breaks, faults \* bounds

orderVars == <<accounts, manager, entries, runtimes>>
priceVars == <<held, cycle, price>>
vars == <<accounts, manager, entries, runtimes, held, cycle, price,
          reloads, breaks, faults>>

RuntimeIds == 1 .. Len(runtimes)
IsDeribit(i) == runtimes[i].user \in DeribitUsers

\* A goroutine that handles messages: the number of its loopStopCh, the
\* connection that it reads, and the attempts of reconnect so far.
Loop(gen, pc) == [gen |-> gen, pc |-> pc, conn |-> 0, tries |-> 0]

\* A runtime: its user and credentials, whether its stopCh is closed and Stop
\* has returned, its connection, 0 for none, and whether the venue still
\* serves that; the number of its loopStopCh and heartbeatStopCh, its message
\* loops, the numbers of its heartbeats; whether reconnect has given up or the
\* listen key has expired.
\* A connection has the number of the channels made along with it.
Runtime(u, key, pc) ==
    [user |-> u, key |-> key, stopped |-> FALSE, closed |-> FALSE,
     conn |-> IF u \in DeribitUsers THEN 1 ELSE 0, up |-> u \in DeribitUsers,
     gen |-> 1, loops |-> {Loop(1, pc)},
     beats |-> IF u \in DeribitUsers THEN {1} ELSE {}, lost |-> FALSE]

Init ==
    /\ accounts \in [Users -> {0, 1}]
    /\ manager = [pc |-> "idle"]
    /\ entries = [u \in Users |-> 0]
    /\ runtimes = << >>
    /\ held \in SUBSET Options
    /\ cycle \in {[pc |-> "start"], [pc |-> "off"]}
    /\ price = [conn |-> FALSE, up |-> FALSE, subs |-> {}, served |-> {}]
    /\ reloads \in {0, MaxReloads}
    /\ breaks = 0
    /\ faults = 0

Fault == faults < MaxFaults /\ faults' = faults + 1
-----------------------------------------------------------------------------
(* UserOrderRuntimeManager.ReconcileUsers, every thirty seconds.           *)

\* The table of users is read when the PMS starts and by the Reload of its
\* shutdown, before the loop of the manager ends.
ReloadUsers(u) ==
    /\ reloads < MaxReloads
    /\ reloads' = reloads + 1
    /\ \E key \in {0, accounts[u] + 1} : accounts' = [accounts EXCEPT ![u] = key]
    /\ UNCHANGED <<manager, entries, runtimes, priceVars, breaks, faults>>

ReconcileBegin ==
    /\ manager.pc = "idle"
    /\ manager' = [pc |-> "users", list |-> accounts,
                   todo |-> {u \in Users : accounts[u] # 0}]
    /\ UNCHANGED <<accounts, entries, runtimes, priceVars, reloads, breaks, faults>>

ReconcileEnds == manager' = [pc |-> "idle"]
ForUser(u, pc) == [pc |-> pc, list |-> manager.list, todo |-> manager.todo, user |-> u]

SignalStop(u) ==
    /\ runtimes' = [runtimes EXCEPT ![entries[u]].stopped = TRUE]
    /\ manager' = ForUser(u, "stop")

\* Mutant: the new runtime takes the place of one that goes on.
ReconcileUserReplaces(u) ==
    /\ manager.pc = "users"
    /\ u \in manager.todo
    /\ IF entries[u] # 0 /\ runtimes[entries[u]].key = manager.list[u]
       THEN manager' = [manager EXCEPT !.todo = @ \ {u}]
       ELSE manager' = ForUser(u, "start")
    /\ UNCHANGED <<accounts, entries, runtimes, priceVars, reloads, breaks, faults>>

\* A user whose runtime has its credentials is passed over; a runtime of
\* other credentials is stopped first.
ReconcileUser(u) ==
    /\ manager.pc = "users"
    /\ u \in manager.todo
    /\ IF entries[u] = 0
       THEN manager' = ForUser(u, "start") /\ UNCHANGED runtimes
       ELSE IF runtimes[entries[u]].key = manager.list[u]
       THEN manager' = [manager EXCEPT !.todo = @ \ {u}] /\ UNCHANGED runtimes
       ELSE SignalStop(u)
    /\ UNCHANGED <<accounts, entries, priceVars, reloads, breaks, faults>>

\* After the users of the list, the runtimes of users who are not in it.
ReconcileRemoved ==
    LET removed == {u \in Users : entries[u] # 0 /\ manager.list[u] = 0}
    IN  /\ manager.pc = "users"
        /\ manager.todo = {}
        /\ IF removed = {} THEN ReconcileEnds /\ UNCHANGED runtimes
                           ELSE \E u \in removed : SignalStop(u)
        /\ UNCHANGED <<accounts, entries, priceVars, reloads, breaks, faults>>

\* Stop closes the connection of a Deribit monitor, under the monitor's lock;
\* that of Binance stays open.
FinishStop ==
    LET u == manager.user
        i == entries[u]
    IN  /\ manager.pc = "stop"
        /\ runtimes' = [runtimes EXCEPT ![i].closed = TRUE,
               ![i].conn = IF IsDeribit(i) THEN 0 ELSE @,
               ![i].up = IF IsDeribit(i) THEN FALSE ELSE @]
        /\ entries' = [entries EXCEPT ![u] = 0]
        /\ manager' = IF manager.list[u] = 0
                      THEN [pc |-> "users", list |-> manager.list, todo |-> {}]
                      ELSE ForUser(u, "start")
        /\ UNCHANGED <<accounts, priceVars, reloads, breaks, faults>>

\* Start connects a Deribit monitor, or gets the listen key of a Binance one.
StartRuntime ==
    LET u == manager.user
    IN  /\ manager.pc = "start"
        /\ Len(runtimes) < MaxRuntimes
        /\ runtimes' = Append(runtimes, Runtime(u, manager.list[u],
                                  IF u \in DeribitUsers THEN "check" ELSE "dial"))
        /\ entries' = [entries EXCEPT ![u] = Len(runtimes')]
        /\ manager' = [pc |-> "users", list |-> manager.list,
                       todo |-> manager.todo \ {u}]
        /\ UNCHANGED <<accounts, priceVars, reloads, breaks, faults>>

\* The whole pass ends with the first runtime that does not start.
StartFails ==
    /\ manager.pc = "start"
    /\ Fault
    /\ ReconcileEnds
    /\ UNCHANGED <<accounts, entries, runtimes, priceVars, reloads, breaks>>

Manage == \/ ReconcileBegin   \/ (\E u \in Users : ReconcileUser(u))
          \/ ReconcileRemoved \/ FinishStop \/ StartRuntime
-----------------------------------------------------------------------------
(* DeribitOrderMonitor.                                                    *)

Change(i, r) ==
    /\ runtimes' = [runtimes EXCEPT ![i] = r]
    /\ UNCHANGED <<accounts, manager, entries, priceVars, reloads, breaks>>

\* The runtime with loop l in another state, or ended.
With(i, l, new) == [runtimes[i] EXCEPT !.loops = (@ \ {l}) \cup {new}]
Without(i, l) == [runtimes[i] EXCEPT !.loops = @ \ {l}]

\* Mutant: Connect does not close the channel of the old loop.
EndedStopped(i, l) == runtimes[i].stopped

\* Mutant: the loop does not look at the channel of the monitor.
EndedReplaced(i, l) == l.gen < runtimes[i].gen

\* One of the two channels of a loop is closed.
Ended(i, l) == runtimes[i].stopped \/ l.gen < runtimes[i].gen

LoopCheck(i, l) ==
    /\ l.pc = "check"
    /\ Change(i, IF Ended(i, l) \/ runtimes[i].conn = 0 THEN Without(i, l)
                 ELSE With(i, l, [l EXCEPT !.pc = "read", !.conn = runtimes[i].conn]))
    /\ UNCHANGED faults

\* Mutant: after the error the loop is over.
ReadErrorEnds(i, l) ==
    /\ l.pc = "read"
    /\ ~runtimes[i].up \/ runtimes[i].conn # l.conn
    /\ Change(i, [Without(i, l) EXCEPT !.conn = 0, !.up = FALSE])
    /\ UNCHANGED faults

\* ReadMessage fails when the venue is gone or Stop has closed the
\* connection; reconnect closes what it finds.
ReadError(i, l) ==
    /\ l.pc = "read"
    /\ ~runtimes[i].up \/ runtimes[i].conn # l.conn
    /\ Change(i, [With(i, l, [l EXCEPT !.pc = "wait", !.conn = 0])
                    EXCEPT !.conn = 0, !.up = FALSE])
    /\ UNCHANGED faults

\* After a pause, reconnect looks whether the monitor is stopped.
ReconnectCheck(i, l) ==
    /\ l.pc = "wait"
    /\ Change(i, With(i, l, [l EXCEPT !.pc = IF runtimes[i].stopped THEN "check"
                                             ELSE "connect"]))
    /\ UNCHANGED faults

\* What Connect makes of a monitor without a connection: new channels, for
\* which the old ones are closed, a message loop and a heartbeat.
Connected(r) ==
    [r EXCEPT !.conn = r.gen + 1, !.up = TRUE, !.gen = @ + 1,
              !.loops = @ \cup {Loop(r.gen + 1, "check")},
              !.beats = @ \cup {r.gen + 1}]

\* Connect, which does not look whether the monitor is stopped meanwhile.
Reconnect(i, l) ==
    /\ l.pc = "connect"
    /\ LET back == With(i, l, [l EXCEPT !.pc = "check", !.tries = 0])
       IN  Change(i, IF runtimes[i].conn = 0 THEN Connected(back) ELSE back)
    /\ UNCHANGED faults

\* Mutant: the attempts are not counted.
ReconnectFailsForever(i, l) ==
    /\ l.pc = "connect"
    /\ Fault
    /\ Change(i, With(i, l, [l EXCEPT !.pc = "wait", !.tries = @ + 1]))

\* After the last attempt the monitor has no connection, and no loop soon.
ReconnectFails(i, l) ==
    /\ l.pc = "connect"
    /\ Fault
    /\ Change(i, IF l.tries + 1 = MaxTries
                 THEN [With(i, l, [l EXCEPT !.pc = "check"]) EXCEPT !.lost = TRUE]
                 ELSE With(i, l, [l EXCEPT !.pc = "wait", !.tries = @ + 1]))

\* A heartbeat ends with its channels, or when its tick finds no connection.
BeatEnds(i, gen) ==
    /\ gen \in runtimes[i].beats
    /\ \/ runtimes[i].stopped
       \/ gen < runtimes[i].gen
       \/ runtimes[i].conn = 0
    /\ Change(i, [runtimes[i] EXCEPT !.beats = @ \ {gen}])
    /\ UNCHANGED faults

Monitor(i) ==
    /\ IsDeribit(i)
    /\ \/ \E l \in runtimes[i].loops :
            \/ LoopCheck(i, l) \/ ReadError(i, l) \/ ReconnectCheck(i, l)
            \/ Reconnect(i, l)
       \/ \E gen \in runtimes[i].beats : BeatEnds(i, gen)
-----------------------------------------------------------------------------
(* StartFuturesUserDataWS of the Binance monitor.                          *)

\* The loop ends if the monitor is stopped, and otherwise connects with the
\* listen key of the start, alive or not.
Dial(i, l) ==
    /\ l.pc = "dial"
    /\ Change(i, IF runtimes[i].stopped THEN Without(i, l)
                 ELSE [With(i, l, [l EXCEPT !.pc = "wait"])
                         EXCEPT !.conn = 1, !.up = TRUE])
    /\ UNCHANGED faults

\* Stopped while connected, the loop ends and leaves the connection; or the
\* connection ends, and the loop dials again.
Await(i, l) ==
    /\ l.pc = "wait"
    /\ \/ /\ runtimes[i].stopped
          /\ Change(i, Without(i, l))
       \/ /\ ~runtimes[i].up
          /\ Change(i, [With(i, l, [l EXCEPT !.pc = "dial"]) EXCEPT !.conn = 0])
    /\ UNCHANGED faults

\* Keepalives fail until the listen key expires.
KeyExpires(i) ==
    /\ ~IsDeribit(i) /\ ~runtimes[i].lost
    /\ Fault
    /\ Change(i, [runtimes[i] EXCEPT !.lost = TRUE, !.up = FALSE])

UserData(i) ==
    ~IsDeribit(i) /\ \E l \in runtimes[i].loops : Dial(i, l) \/ Await(i, l)

\* The venue or the network ends a connection.
Break(i) ==
    /\ runtimes[i].up
    /\ breaks < MaxBreaks
    /\ breaks' = breaks + 1
    /\ runtimes' = [runtimes EXCEPT ![i].up = FALSE]
    /\ UNCHANGED <<accounts, manager, entries, priceVars, reloads, faults>>
-----------------------------------------------------------------------------
(* DeribitPriceRuntime and DeribitWsPriceManager.                          *)

Trade(options) ==
    /\ cycle.pc # "off"
    /\ held' = options
    /\ UNCHANGED <<orderVars, cycle, price, reloads, breaks, faults>>

\* Mutant: the subscriptions of the last connection are kept.
DialedKeeping == [price EXCEPT !.conn = TRUE, !.up = TRUE, !.served = {}]

\* A new connection, with no subscriptions.
Dialed == [conn |-> TRUE, up |-> TRUE, subs |-> {}, served |-> {}]

SubscribeTo(options) ==
    IF options = {} THEN [pc |-> "idle"] ELSE [pc |-> "subscribe", todo |-> options]

\* Connect; that dialing failed is only logged.
PriceConnect ==
    \/ price' = Dialed /\ UNCHANGED faults
    \/ Fault /\ UNCHANGED price

\* The start of the runtime, unless that of Hyperliquid before it failed.
PriceStart ==
    /\ cycle.pc = "start"
    /\ \/ PriceConnect /\ cycle' = SubscribeTo(held)
       \/ Fault /\ UNCHANGED price /\ cycle' = [pc |-> "idle"]
    /\ UNCHANGED <<orderVars, held, reloads, breaks>>

\* EnsureSubscribed, in every risk cycle: connect if need be, and subscribe to
\* what is not subscribed.
EnsureSubscribed ==
    /\ cycle.pc = "idle"
    /\ \/ /\ ~price.conn
          /\ PriceConnect
          /\ cycle' = SubscribeTo(held)
       \/ /\ price.conn
          /\ held \ price.subs # {}
          /\ cycle' = SubscribeTo(held \ price.subs)
          /\ UNCHANGED <<price, faults>>
    /\ UNCHANGED <<orderVars, held, reloads, breaks>>

\* Subscribe, for one option: it fails without a connection, and may succeed
\* on one that is broken.
Subscribe(o) ==
    /\ cycle.pc = "subscribe"
    /\ o \in cycle.todo
    /\ cycle' = SubscribeTo(cycle.todo \ {o})
    /\ price' = IF price.conn
                THEN [price EXCEPT !.subs = @ \cup {o},
                                   !.served = IF price.up THEN @ \cup {o} ELSE @]
                ELSE price
    /\ UNCHANGED <<orderVars, held, reloads, breaks, faults>>

SubscribeFails(o) ==
    /\ cycle.pc = "subscribe"
    /\ o \in cycle.todo
    /\ price.conn
    /\ Fault
    /\ cycle' = SubscribeTo(cycle.todo \ {o})
    /\ UNCHANGED <<orderVars, held, price, reloads, breaks>>

\* Mutant: the handler just ends.
ClearConnectionNot ==
    /\ price.conn /\ ~price.up
    /\ UNCHANGED vars

\* The message handler of the price manager finds the connection broken.
ClearConnection ==
    /\ price.conn /\ ~price.up
    /\ price' = [price EXCEPT !.conn = FALSE]
    /\ UNCHANGED <<orderVars, held, cycle, reloads, breaks, faults>>

PriceBreak ==
    /\ price.up
    /\ breaks < MaxBreaks
    /\ breaks' = breaks + 1
    /\ price' = [price EXCEPT !.up = FALSE, !.served = {}]
    /\ UNCHANGED <<orderVars, held, cycle, reloads, faults>>

Prices == PriceStart \/ EnsureSubscribed \/ \E o \in Options : Subscribe(o)
-----------------------------------------------------------------------------
Next ==
    \/ Manage \/ StartFails
    \/ \E u \in Users : ReloadUsers(u)
    \/ \E i \in RuntimeIds :
         \/ Monitor(i) \/ UserData(i) \/ Break(i) \/ KeyExpires(i)
         \/ IsDeribit(i) /\ \E l \in runtimes[i].loops : ReconnectFails(i, l)
    \/ \E options \in SUBSET Options : Trade(options)
    \/ Prices \/ ClearConnection \/ PriceBreak
    \/ \E o \in Options : SubscribeFails(o)

\* Tickers and goroutines go on; failures are only ever finitely many.
Fairness ==
    /\ WF_vars(Manage)
    /\ \A i \in 1 .. MaxRuntimes :
         WF_vars(i \in RuntimeIds /\ (Monitor(i) \/ UserData(i)))
    /\ WF_vars(Prices)
    /\ WF_vars(ClearConnection)

Spec == Init /\ [][Next]_vars /\ Fairness
-----------------------------------------------------------------------------
LoopPcs == {"check", "read", "wait", "connect", "dial"}
Keys == 0 .. MaxReloads + 1

TypeOK ==
    /\ accounts \in [Users -> Keys]
    /\ manager.pc \in {"idle", "users", "stop", "start"}
    /\ entries \in [Users -> 0 .. Len(runtimes)]
    /\ runtimes \in Seq([user : Users, key : Keys \ {0}, stopped : BOOLEAN,
           closed : BOOLEAN, conn : 0 .. MaxBreaks + 1, up : BOOLEAN,
           gen : 1 .. MaxBreaks + 1, lost : BOOLEAN,
           loops : SUBSET [gen : 1 .. MaxBreaks + 1, pc : LoopPcs,
                           conn : 0 .. MaxBreaks + 1, tries : 0 .. MaxTries - 1],
           beats : SUBSET (1 .. MaxBreaks + 1)])
    /\ held \in SUBSET Options
    /\ cycle.pc \in {"start", "off", "idle", "subscribe"}
    /\ price \in [conn : BOOLEAN, up : BOOLEAN, subs : SUBSET Options,
                  served : SUBSET Options]

\* The loops that take messages from the monitor's connection.
Readers(i) == {l \in runtimes[i].loops : l.pc = "read" /\ l.conn = runtimes[i].conn}

\* A connection of a Deribit monitor has one goroutine that takes its messages,
\* never two at a time, and a heartbeat, however the goroutines of before and
\* after a reconnect overlap (docs/RUNBOOK.md:39 "loopStopCh/heartbeatStopCh
\* prevent leaks on reconnect").
OneAttendant ==
    \A i \in RuntimeIds :
        IsDeribit(i) /\ ~runtimes[i].stopped /\ runtimes[i].conn # 0
        => /\ Cardinality(Readers(i)) <= 1
           /\ \E l \in runtimes[i].loops : l.gen = runtimes[i].gen
           /\ runtimes[i].gen \in runtimes[i].beats

\* Once Stop has returned, no message of the user's orders is handled, not
\* even on the connection that a reconnect under way may still open, and
\* which nobody closes (docs/deribit-integration.md:703).
StoppedIsDeaf ==
    \A i \in RuntimeIds :
        IsDeribit(i) /\ runtimes[i].closed /\ runtimes[i].conn # 0 => Readers(i) = {}

\* The manager can stop every runtime that runs: none is replaced or removed
\* without its Stop, through changes of the credentials and failed starts.
RunningIsManaged ==
    \A i \in RuntimeIds : ~runtimes[i].stopped => entries[runtimes[i].user] = i

\* The subscriptions that the price manager remembers are those that the venue
\* has on the present connection, so that none is left out after a reconnect.
SubscriptionsAreReal == price.up => price.subs = price.served

Served(u) ==
    /\ entries[u] # 0
    /\ LET r == runtimes[entries[u]] IN r.key = accounts[u] /\ r.up /\ ~r.lost

\* The monitor has given up, or its listen key has expired: the manager takes
\* the runtime for a running one.
Lost(u) == entries[u] # 0 /\ runtimes[entries[u]].lost

\* The orders of every user are watched, and again after each break or change
\* of the credentials, unless the user is removed or the runtime lost for good.
ServedAgain ==
    \A u \in Users : accounts[u] # 0 ~> accounts[u] = 0 \/ Served(u) \/ Lost(u)

\* A price stream comes, and comes again after each break, for every option
\* that a position is held in (docs/deribit-integration.md:584).
PricesFlow ==
    \A o \in Options :
        o \in held /\ cycle.pc # "off" ~> o \notin held \/ o \in price.served
=============================================================================
