--------------------------- MODULE Streams_proofs ---------------------------
(***************************************************************************)
(* The safety of module Streams for any number of users, options,          *)
(* runtimes, broken connections and failures: every runtime is managed, a  *)
(* connection has one reader, which a stopped monitor has not, and the     *)
(* subscriptions remembered are those of the venue.  Last, the bounds that *)
(* TypeOK gives: a new connection for each broken one, and no more.        *)
(***************************************************************************)
EXTENDS Streams, FiniteSetTheorems, SequenceTheorems, TLAPS

LoopType == [gen : Nat, pc : LoopPcs, conn : Nat, tries : Nat]
RuntimeType ==
    [user : Users, key : Nat, stopped : BOOLEAN, closed : BOOLEAN, conn : Nat,
     up : BOOLEAN, gen : Nat, loops : SUBSET LoopType, beats : SUBSET Nat,
     lost : BOOLEAN]

\* Of a Deribit monitor: a connection has the number of its channels, a loop
\* reads that of its own; there is one loop for each number, and one with a
\* heartbeat for the present one while the monitor runs.
Attended(r) ==
    /\ r.gen > 0 /\ r.conn \in {0, r.gen}
    /\ \A l \in r.loops : l.gen <= r.gen /\ (l.pc = "read" => l.conn = l.gen)
    /\ \A l, m \in r.loops : l.gen = m.gen => l = m
    /\ ~r.stopped /\ r.conn # 0 =>
         (\E l \in r.loops : l.gen = r.gen) /\ r.gen \in r.beats

\* Once Stop has returned there is no reader of a connection.
Deaf(r) ==
    /\ r.closed => r.stopped
    /\ r.closed /\ r.conn # 0 => \A l \in r.loops : l.pc = "read" => l.conn # r.conn

Good(r) == /\ r \in RuntimeType
           /\ r.closed => r.stopped
           /\ r.user \in DeribitUsers => Attended(r) /\ Deaf(r)

\* What a step of a monitor keeps of a runtime.
Continues(r, n) ==
    Good(n) /\ n.user = r.user /\ n.stopped = r.stopped /\ n.closed = r.closed

\* The manager's variable, in and between its passes.
ManagerOK(m) ==
    /\ "pc" \in DOMAIN m
    /\ m.pc \in {"users", "stop", "start"} =>
         /\ {"list", "todo"} \subseteq DOMAIN m
         /\ m.list \in [Users -> Nat]
         /\ m.todo \subseteq Users
    /\ m.pc \in {"stop", "start"} => m.user \in Users

\* What the manager knows of the runtimes.
Managed(m, es, rs) ==
    /\ es \in [Users -> 0 .. Len(rs)]
    /\ \A u \in Users : es[u] # 0 => rs[es[u]].user = u
    /\ \A i \in 1 .. Len(rs) : ~rs[i].stopped => es[rs[i].user] = i
    /\ m.pc = "stop" => es[m.user] # 0 /\ rs[es[m.user]].stopped
    /\ m.pc = "start" => es[m.user] = 0

\* The inductive invariant of the order streams ...
OrderInv ==
    /\ accounts \in [Users -> Nat]
    /\ ManagerOK(manager)
    /\ Managed(manager, entries, runtimes)
    /\ runtimes \in Seq(RuntimeType)
    /\ \A i \in RuntimeIds : Good(runtimes[i])

\* ... and that of the prices.
PriceInv ==
    /\ price \in [conn : BOOLEAN, up : BOOLEAN, subs : SUBSET Options,
                  served : SUBSET Options]
    /\ held \in SUBSET Options
    /\ cycle.pc = "subscribe" => cycle.todo \subseteq Options
    /\ price.up => price.conn /\ price.subs = price.served
-----------------------------------------------------------------------------
(* What a step of a monitor makes of its record.                           *)

\* A loop in another state: a reader only of the connection that it belongs
\* to, and none once Stop has returned.
LEMMA WithGood ==
    ASSUME NEW r, Good(r), NEW l \in r.loops, NEW new \in LoopType,
           new.gen = l.gen,
           r.user \in DeribitUsers /\ new.pc = "read" =>
               new.conn = new.gen /\ ~r.closed
    PROVE  /\ Continues(r, [r EXCEPT !.loops = (@ \ {l}) \cup {new}])
           /\ [r EXCEPT !.loops = (@ \ {l}) \cup {new}].conn = r.conn
<1> DEFINE S == (r.loops \ {l}) \cup {new}
           n == [r EXCEPT !.loops = S]
<1>1. r \in RuntimeType /\ S \in SUBSET LoopType
  BY DEF Good, RuntimeType
<1>2. /\ n \in RuntimeType
      /\ n.loops = S /\ n.user = r.user /\ n.stopped = r.stopped
      /\ n.closed = r.closed /\ n.conn = r.conn /\ n.gen = r.gen
      /\ n.beats = r.beats
  BY <1>1 DEF RuntimeType
<1> SUFFICES Continues(r, n) /\ n.conn = r.conn
  BY DEF n
<1> HIDE DEF n
<1>3. CASE r.user \in DeribitUsers
  <2>1. Attended(r) /\ Deaf(r)
    BY <1>3 DEF Good
  <2>2. Attended(n)
    BY <1>1, <1>2, <1>3, <2>1 DEF Attended, RuntimeType, LoopType
  <2>3. Deaf(n)
    BY <1>1, <1>2, <1>3, <2>1 DEF Deaf
  <2> QED
    BY <1>2, <2>2, <2>3 DEF Continues, Good, Deaf
<1>4. CASE r.user \notin DeribitUsers
  BY <1>2, <1>4 DEF Continues, Good
<1> QED
  BY <1>3, <1>4

\* A loop that ends: one whose channel is closed, or of a monitor without a
\* connection.
LEMMA WithoutGood ==
    ASSUME NEW r, Good(r), NEW l \in r.loops,
           r.user \in DeribitUsers => r.stopped \/ l.gen < r.gen \/ r.conn = 0
    PROVE  Continues(r, [r EXCEPT !.loops = @ \ {l}])
<1> DEFINE S == r.loops \ {l}
           n == [r EXCEPT !.loops = S]
<1>1. r \in RuntimeType /\ S \in SUBSET LoopType
  BY DEF Good, RuntimeType
<1>2. /\ n \in RuntimeType
      /\ n.loops = S /\ n.user = r.user /\ n.stopped = r.stopped
      /\ n.closed = r.closed /\ n.conn = r.conn /\ n.gen = r.gen
      /\ n.beats = r.beats
  BY <1>1 DEF RuntimeType
<1> SUFFICES Continues(r, n)
  BY DEF n
<1> HIDE DEF n
<1>3. CASE r.user \in DeribitUsers
  <2>1. Attended(r) /\ Deaf(r)
    BY <1>3 DEF Good
  <2>2. Attended(n)
    BY <1>1, <1>2, <1>3, <2>1 DEF Attended, RuntimeType, LoopType
  <2>3. Deaf(n)
    BY <1>1, <1>2, <1>3, <2>1 DEF Deaf
  <2> QED
    BY <1>2, <2>2, <2>3 DEF Continues, Good, Deaf
<1>4. CASE r.user \notin DeribitUsers
  BY <1>2, <1>4 DEF Continues, Good
<1> QED
  BY <1>3, <1>4

\* A monitor whose connection is closed.
LEMMA DisconnectedGood ==
    ASSUME NEW r, Good(r)
    PROVE  Continues(r, [r EXCEPT !.conn = 0, !.up = FALSE])
<1> DEFINE n == [r EXCEPT !.conn = 0, !.up = FALSE]
<1>1. r \in RuntimeType
  BY DEF Good
<1>2. /\ n \in RuntimeType
      /\ n.loops = r.loops /\ n.user = r.user /\ n.stopped = r.stopped
      /\ n.closed = r.closed /\ n.conn = 0 /\ n.gen = r.gen
      /\ n.beats = r.beats
  BY <1>1 DEF RuntimeType
<1> SUFFICES Continues(r, n)
  BY DEF n
<1> HIDE DEF n
<1> QED
  BY <1>2 DEF Continues, Good, Attended, Deaf

\* A record that differs in what the invariant leaves open: whether the venue
\* serves the connection, whether the runtime is lost.
LEMMA SameGood ==
    ASSUME NEW r, Good(r), NEW n \in RuntimeType,
           n.loops = r.loops, n.user = r.user, n.stopped = r.stopped,
           n.closed = r.closed, n.conn = r.conn, n.gen = r.gen, n.beats = r.beats
    PROVE  Continues(r, n)
  BY DEF Continues, Good, Attended, Deaf

\* A runtime of Binance, of which less is known.
LEMMA OtherGood ==
    ASSUME NEW r, Good(r), NEW n \in RuntimeType, r.user \notin DeribitUsers,
           n.user = r.user, n.stopped = r.stopped, n.closed = r.closed
    PROVE  Continues(r, n)
  BY DEF Continues, Good

\* A monitor that is told to stop.
LEMMA StoppedGood ==
    ASSUME NEW r, Good(r)
    PROVE  LET n == [r EXCEPT !.stopped = TRUE]
           IN  Good(n) /\ n.user = r.user /\ n.stopped
<1> DEFINE n == [r EXCEPT !.stopped = TRUE]
<1>1. r \in RuntimeType
  BY DEF Good
<1>2. /\ n \in RuntimeType
      /\ n.loops = r.loops /\ n.user = r.user /\ n.stopped = TRUE
      /\ n.closed = r.closed /\ n.conn = r.conn /\ n.gen = r.gen
      /\ n.beats = r.beats
  BY <1>1 DEF RuntimeType
<1> SUFFICES Good(n) /\ n.user = r.user /\ n.stopped
  BY DEF n
<1> HIDE DEF n
<1> QED
  BY <1>2 DEF Good, Attended, Deaf

\* A monitor told to stop whose Stop returns: that of Deribit has closed the
\* connection.
AfterStop(r, conn, up) == [r EXCEPT !.closed = TRUE, !.conn = conn, !.up = up]

LEMMA ClosedGood ==
    ASSUME NEW r, Good(r), r.stopped, NEW conn \in Nat, NEW up \in BOOLEAN,
           r.user \in DeribitUsers => conn = 0
    PROVE  /\ Good(AfterStop(r, conn, up))
           /\ AfterStop(r, conn, up).user = r.user
           /\ AfterStop(r, conn, up).stopped
<1> DEFINE n == AfterStop(r, conn, up)
<1>1. r \in RuntimeType
  BY DEF Good
<1>2. /\ n \in RuntimeType
      /\ n.loops = r.loops /\ n.user = r.user /\ n.stopped = TRUE
      /\ n.conn = conn /\ n.gen = r.gen
      /\ n.beats = r.beats
  BY <1>1 DEF RuntimeType, AfterStop
<1> SUFFICES Good(n) /\ n.user = r.user /\ n.stopped
  BY DEF n
<1> HIDE DEF n
<1> QED
  BY <1>2 DEF Good, Attended, Deaf

\* A heartbeat that ends: not the one of a connection of a running monitor.
LEMMA BeatEndsGood ==
    ASSUME NEW r, Good(r), NEW gen \in r.beats,
           r.stopped \/ gen < r.gen \/ r.conn = 0
    PROVE  Continues(r, [r EXCEPT !.beats = @ \ {gen}])
<1> DEFINE n == [r EXCEPT !.beats = @ \ {gen}]
<1>1. r \in RuntimeType
  BY DEF Good
<1>2. /\ n \in RuntimeType
      /\ n.loops = r.loops /\ n.user = r.user /\ n.stopped = r.stopped
      /\ n.closed = r.closed /\ n.conn = r.conn /\ n.gen = r.gen
      /\ n.beats = r.beats \ {gen}
  BY <1>1 DEF RuntimeType
<1> SUFFICES Continues(r, n)
  BY DEF n
<1> HIDE DEF n
<1>3. r.gen \in Nat /\ gen \in Nat
  BY <1>1 DEF RuntimeType
<1> QED
  BY <1>2, <1>3 DEF Continues, Good, Attended, Deaf

\* What Connect makes of a Deribit monitor without a connection.
LEMMA ConnectedGood ==
    ASSUME NEW r, Good(r), r.user \in DeribitUsers, r.conn = 0
    PROVE  Continues(r, Connected(r))
<1> DEFINE g == r.gen + 1
           L == r.loops \cup {Loop(g, "check")}
           n == Connected(r)
<1>1. r \in RuntimeType /\ Attended(r) /\ Deaf(r)
  BY DEF Good
<1>2. r.gen \in Nat /\ g \in Nat /\ g > 0 /\ r.loops \subseteq LoopType
  BY <1>1 DEF RuntimeType
<1>3. /\ Loop(g, "check") \in LoopType
      /\ Loop(g, "check").gen = g /\ Loop(g, "check").pc = "check"
  BY <1>2 DEF Loop, LoopType, LoopPcs
<1>4. /\ n \in RuntimeType
      /\ n.loops = L /\ n.user = r.user /\ n.stopped = r.stopped
      /\ n.closed = r.closed /\ n.conn = g /\ n.gen = g
      /\ n.beats = r.beats \cup {g}
  BY <1>1, <1>2, <1>3 DEF RuntimeType, Connected
<1>5. \A l \in r.loops : l.gen \in Nat /\ l.gen < g /\ (l.pc = "read" => l.conn = l.gen)
  BY <1>1, <1>2 DEF Attended, LoopType
<1> HIDE DEF n
<1>6. \A l \in L : l.gen <= g /\ (l.pc = "read" => l.conn = l.gen /\ l.conn # g)
  BY <1>2, <1>3, <1>5
<1>7. \A l, m \in L : l.gen = m.gen => l = m
  BY <1>1, <1>2, <1>3, <1>5 DEF Attended
<1>8. \E l \in L : l.gen = g
  BY <1>3
<1>9. Attended(n)
  BY <1>2, <1>4, <1>6, <1>7, <1>8 DEF Attended
<1>10. Deaf(n)
  BY <1>1, <1>4, <1>6 DEF Deaf
<1>11. Continues(r, n)
  BY <1>4, <1>9, <1>10 DEF Continues, Good, Deaf
<1> QED
  BY <1>11 DEF n

\* A runtime that starts.
LEMMA RuntimeGood ==
    ASSUME NEW u \in Users, NEW key \in Nat, NEW pc \in LoopPcs, pc # "read"
    PROVE  LET n == Runtime(u, key, pc)
           IN  Good(n) /\ n.user = u
<1> DEFINE n == Runtime(u, key, pc)
<1>1. Loop(1, pc) \in LoopType /\ Loop(1, pc).gen = 1 /\ Loop(1, pc).pc = pc
  BY DEF Loop, LoopType
<1>2. /\ n \in RuntimeType
      /\ n.loops = {Loop(1, pc)} /\ n.user = u /\ n.stopped = FALSE
      /\ n.closed = FALSE /\ n.gen = 1
      /\ u \in DeribitUsers => n.conn = 1 /\ n.beats = {1}
  BY <1>1 DEF RuntimeType, Runtime
<1> HIDE DEF n
<1>3. Good(n)
  BY <1>1, <1>2 DEF Good, Attended, Deaf
<1> QED
  BY <1>2, <1>3 DEF n
-----------------------------------------------------------------------------
(* The actions of a monitor.                                               *)

\* Runtime i goes on, the others do not change.
Goes(i) == \E r : /\ Continues(runtimes[i], r)
                  /\ runtimes' = [runtimes EXCEPT ![i] = r]

\* The message loop takes up the connection, loses it, and goes to reconnect.
LEMMA LoopGoes ==
    ASSUME NEW i \in RuntimeIds, Good(runtimes[i]), IsDeribit(i),
           NEW l \in runtimes[i].loops,
           LoopCheck(i, l) \/ ReadError(i, l) \/ ReconnectCheck(i, l)
    PROVE  Goes(i)
<1> DEFINE r == runtimes[i]
<1>1. /\ r \in RuntimeType /\ l \in LoopType
      /\ r.user \in DeribitUsers /\ Attended(r)
  BY DEF Good, RuntimeType, IsDeribit
<1>2. CASE LoopCheck(i, l)
  <2> DEFINE new == [l EXCEPT !.pc = "read", !.conn = r.conn]
  <2>1. CASE Ended(i, l) \/ r.conn = 0
    <3>1. r.stopped \/ l.gen < r.gen \/ r.conn = 0
      BY <2>1 DEF Ended
    <3>2. Continues(r, Without(i, l))
      BY <3>1, WithoutGood DEF Without
    <3> QED
      BY <1>2, <2>1, <3>2 DEF LoopCheck, Change, Goes
  <2>2. CASE ~(Ended(i, l) \/ r.conn = 0)
    <3>1. ~r.stopped /\ l.gen = r.gen /\ r.conn = r.gen
      BY <1>1, <2>2 DEF Ended, Attended, RuntimeType, LoopType
    <3>2. /\ new \in LoopType /\ new.gen = l.gen
          /\ new.conn = new.gen /\ ~r.closed
      BY <1>1, <3>1 DEF LoopType, LoopPcs, RuntimeType, Good
    <3>3. Continues(r, With(i, l, new))
      BY <3>2, WithGood DEF With
    <3> QED
      BY <1>2, <2>2, <3>3 DEF LoopCheck, Change, Goes
  <2> QED
    BY <2>1, <2>2
<1>3. CASE ReadError(i, l)
  <2> DEFINE new == [l EXCEPT !.pc = "wait", !.conn = 0]
             n == With(i, l, new)
  <2>1. new \in LoopType /\ new.gen = l.gen /\ new.pc = "wait"
    BY <1>1 DEF LoopType, LoopPcs
  <2>2. Continues(r, n)
    BY <2>1, WithGood DEF With
  <2>3. runtimes' = [runtimes EXCEPT ![i] = [n EXCEPT !.conn = 0, !.up = FALSE]]
    BY <1>3 DEF ReadError, Change
  <2> HIDE DEF n
  <2>4. Continues(n, [n EXCEPT !.conn = 0, !.up = FALSE])
    BY <2>2, DisconnectedGood DEF Continues
  <2>5. Continues(r, [n EXCEPT !.conn = 0, !.up = FALSE])
    BY <2>2, <2>4 DEF Continues
  <2> QED
    BY <2>3, <2>5 DEF Goes
<1>4. CASE ReconnectCheck(i, l)
  <2> DEFINE pc == IF r.stopped THEN "check" ELSE "connect"
             new == [l EXCEPT !.pc = pc]
  <2>1. pc \in LoopPcs /\ pc # "read"
    BY DEF LoopPcs
  <2>2. runtimes' = [runtimes EXCEPT ![i] = With(i, l, new)]
    BY <1>4 DEF ReconnectCheck, Change
  <2> HIDE DEF pc
  <2>3. new \in LoopType /\ new.gen = l.gen /\ new.pc # "read"
    BY <1>1, <2>1 DEF LoopType
  <2>4. Continues(r, With(i, l, new))
    BY <2>3, WithGood DEF With
  <2> QED
    BY <2>2, <2>4 DEF Goes
<1> QED
  BY <1>2, <1>3, <1>4

\* It connects, or fails to.
LEMMA ReconnectGoes ==
    ASSUME NEW i \in RuntimeIds, Good(runtimes[i]), IsDeribit(i),
           NEW l \in runtimes[i].loops,
           Reconnect(i, l) \/ ReconnectFails(i, l)
    PROVE  Goes(i)
<1> DEFINE r == runtimes[i]
<1>1. r \in RuntimeType /\ l \in LoopType /\ r.user \in DeribitUsers
  BY DEF Good, RuntimeType, IsDeribit
<1>2. CASE Reconnect(i, l)
  <2> DEFINE new == [l EXCEPT !.pc = "check", !.tries = 0]
             back == With(i, l, new)
  <2>1. new \in LoopType /\ new.gen = l.gen /\ new.pc = "check"
    BY <1>1 DEF LoopType, LoopPcs
  <2>2. Continues(r, back) /\ back.conn = r.conn
    BY <2>1, WithGood DEF With
  <2>3. runtimes' = [runtimes EXCEPT ![i] = IF r.conn = 0 THEN Connected(back)
                                                         ELSE back]
    BY <1>2 DEF Reconnect, Change
  <2> HIDE DEF back
  <2>4. CASE r.conn = 0
    <3>1. Continues(back, Connected(back))
      BY <1>1, <2>2, <2>4, ConnectedGood DEF Continues
    <3>2. Continues(r, Connected(back))
      BY <2>2, <3>1 DEF Continues
    <3> QED
      BY <2>3, <2>4, <3>2 DEF Goes
  <2>5. CASE r.conn # 0
    BY <2>2, <2>3, <2>5 DEF Goes
  <2> QED
    BY <2>4, <2>5
<1>3. CASE ReconnectFails(i, l)
  <2>1. CASE l.tries + 1 = MaxTries
    <3> DEFINE new == [l EXCEPT !.pc = "check"]
               n == With(i, l, new)
               m == [n EXCEPT !.lost = TRUE]
    <3>1. new \in LoopType /\ new.gen = l.gen /\ new.pc = "check"
      BY <1>1 DEF LoopType, LoopPcs
    <3>2. Continues(r, n)
      BY <3>1, WithGood DEF With
    <3>3. runtimes' = [runtimes EXCEPT ![i] = m]
      BY <1>3, <2>1 DEF ReconnectFails, Change
    <3> HIDE DEF n
    <3>4. /\ m \in RuntimeType
          /\ m.loops = n.loops /\ m.user = n.user /\ m.stopped = n.stopped
          /\ m.closed = n.closed /\ m.conn = n.conn /\ m.gen = n.gen
          /\ m.beats = n.beats
      BY <3>2 DEF Continues, Good, RuntimeType
    <3> HIDE DEF m
    <3>5. Continues(n, m)
      BY <3>2, <3>4, SameGood DEF Continues
    <3>6. Continues(r, m)
      BY <3>2, <3>5 DEF Continues
    <3> QED
      BY <3>3, <3>6 DEF Goes
  <2>2. CASE l.tries + 1 # MaxTries
    <3> DEFINE k == l.tries + 1
               new == [l EXCEPT !.pc = "wait", !.tries = k]
    <3>1. k \in Nat
      BY <1>1 DEF LoopType
    <3>2. runtimes' = [runtimes EXCEPT ![i] = With(i, l, new)]
      BY <1>3, <2>2 DEF ReconnectFails, Change
    <3> HIDE DEF k
    <3>3. new \in LoopType /\ new.gen = l.gen /\ new.pc = "wait"
      BY <1>1, <3>1 DEF LoopType, LoopPcs
    <3>4. Continues(r, With(i, l, new))
      BY <3>3, WithGood DEF With
    <3> QED
      BY <3>2, <3>4 DEF Goes
  <2> QED
    BY <2>1, <2>2
<1> QED
  BY <1>2, <1>3

\* A heartbeat ends.
LEMMA BeatGoes ==
    ASSUME NEW i \in RuntimeIds, Good(runtimes[i]), NEW gen, BeatEnds(i, gen)
    PROVE  Goes(i)
  BY BeatEndsGood DEF BeatEnds, Change, Goes

\* The loop of a Binance monitor, which dials and waits.
LEMMA UserDataGoes ==
    ASSUME NEW i \in RuntimeIds, Good(runtimes[i]), UserData(i)
    PROVE  Goes(i)
<1> DEFINE r == runtimes[i]
<1>1. r \in RuntimeType /\ r.user \notin DeribitUsers
  BY DEF Good, UserData, IsDeribit
<1>2. PICK l \in r.loops : Dial(i, l) \/ Await(i, l)
  BY DEF UserData
<1>3. l \in LoopType
  BY <1>1, <1>2 DEF RuntimeType
<1>4. Continues(r, Without(i, l))
  BY <1>1, WithoutGood DEF Without
<1>5. ASSUME NEW pc \in {"wait", "dial"}, NEW c \in Nat, NEW b \in BOOLEAN
      PROVE  LET n == With(i, l, [l EXCEPT !.pc = pc])
             IN  /\ Continues(r, [n EXCEPT !.conn = c, !.up = b])
                 /\ Continues(r, [n EXCEPT !.conn = c])
  <2> DEFINE new == [l EXCEPT !.pc = pc]
             n == With(i, l, new)
             m == [n EXCEPT !.conn = c, !.up = b]
             k == [n EXCEPT !.conn = c]
  <2>1. new \in LoopType /\ new.gen = l.gen
    BY <1>3 DEF LoopType, LoopPcs
  <2>2. Continues(r, n)
    BY <1>1, <2>1, WithGood DEF With
  <2> HIDE DEF n
  <2>3. /\ m \in RuntimeType /\ k \in RuntimeType
        /\ m.user = n.user /\ m.stopped = n.stopped /\ m.closed = n.closed
        /\ k.user = n.user /\ k.stopped = n.stopped /\ k.closed = n.closed
    BY <2>2 DEF Continues, Good, RuntimeType
  <2> HIDE DEF m, k
  <2>4. Continues(r, m) /\ Continues(r, k)
    BY <1>1, <2>2, <2>3, OtherGood DEF Continues
  <2> QED
    BY <2>4 DEF n, m, k
<1>6. CASE Dial(i, l)
  <2>1. CASE r.stopped
    BY <1>4, <1>6, <2>1 DEF Dial, Change, Goes
  <2>2. CASE ~r.stopped
    <3> DEFINE m == [With(i, l, [l EXCEPT !.pc = "wait"])
                       EXCEPT !.conn = 1, !.up = TRUE]
    <3>1. runtimes' = [runtimes EXCEPT ![i] = m]
      BY <1>6, <2>2 DEF Dial, Change
    <3>2. Continues(r, m)
      BY <1>5
    <3> QED
      BY <3>1, <3>2 DEF Goes
  <2> QED
    BY <2>1, <2>2
<1>7. CASE Await(i, l)
  <2> DEFINE k == [With(i, l, [l EXCEPT !.pc = "dial"]) EXCEPT !.conn = 0]
  <2>1. \/ runtimes' = [runtimes EXCEPT ![i] = Without(i, l)]
        \/ runtimes' = [runtimes EXCEPT ![i] = k]
    BY <1>7 DEF Await, Change
  <2>2. Continues(r, k)
    BY <1>5
  <2> QED
    BY <1>4, <2>1, <2>2 DEF Goes
<1> QED
  BY <1>2, <1>6, <1>7

\* The venue ends a connection, or a listen key expires.
LEMMA VenueGoes ==
    ASSUME NEW i \in RuntimeIds, Good(runtimes[i]), Break(i) \/ KeyExpires(i)
    PROVE  Goes(i)
<1> DEFINE r == runtimes[i]
           m == [r EXCEPT !.up = FALSE]
           k == [r EXCEPT !.lost = TRUE, !.up = FALSE]
<1>1. r \in RuntimeType
  BY DEF Good
<1>2. /\ m \in RuntimeType
      /\ m.loops = r.loops /\ m.user = r.user /\ m.stopped = r.stopped
      /\ m.closed = r.closed /\ m.conn = r.conn /\ m.gen = r.gen
      /\ m.beats = r.beats
  BY <1>1 DEF RuntimeType
<1>3. /\ k \in RuntimeType
      /\ k.loops = r.loops /\ k.user = r.user /\ k.stopped = r.stopped
      /\ k.closed = r.closed /\ k.conn = r.conn /\ k.gen = r.gen
      /\ k.beats = r.beats
  BY <1>1 DEF RuntimeType
<1>4. \/ runtimes' = [runtimes EXCEPT ![i] = m]
      \/ runtimes' = [runtimes EXCEPT ![i] = k]
  BY DEF Break, KeyExpires, Change
<1> HIDE DEF m, k
<1>5. Continues(r, m) /\ Continues(r, k)
  BY <1>2, <1>3, SameGood
<1> QED
  BY <1>4, <1>5 DEF Goes
-----------------------------------------------------------------------------
(* The steps of the order streams.                                         *)

\* What the manager's entries are.
LEMMA EntriesFacts ==
    ASSUME OrderInv
    PROVE  /\ entries \in [Users -> 0 .. Len(runtimes)] /\ Len(runtimes) \in Nat
           /\ \A u \in Users : entries[u] # 0 => /\ entries[u] \in RuntimeIds
                                                /\ runtimes[entries[u]].user = u
           /\ \A j \in RuntimeIds : runtimes[j].user \in Users
           /\ \A j \in RuntimeIds : ~runtimes[j].stopped => entries[runtimes[j].user] = j
<1>1. Managed(manager, entries, runtimes) /\ runtimes \in Seq(RuntimeType)
  BY DEF OrderInv
<1>2. Len(runtimes) \in Nat
  BY <1>1, LenProperties
<1>3. \A j \in RuntimeIds : runtimes[j].user \in Users
  BY DEF OrderInv, Good, RuntimeType
<1> QED
  BY <1>1, <1>2, <1>3 DEF Managed, RuntimeIds

\* One runtime in another state, the same number of them.
LEMMA OneChanged ==
    ASSUME OrderInv, NEW i \in RuntimeIds, NEW r, Good(r),
           runtimes' = [runtimes EXCEPT ![i] = r]
    PROVE  /\ runtimes' \in Seq(RuntimeType)
           /\ Len(runtimes') = Len(runtimes)
           /\ \A j \in RuntimeIds : runtimes'[j] = IF j = i THEN r ELSE runtimes[j]
           /\ \A j \in RuntimeIds : Good(runtimes'[j])
<1>1. runtimes \in Seq(RuntimeType) /\ r \in RuntimeType
  BY DEF OrderInv, Good
<1>2. /\ runtimes' \in Seq(RuntimeType)
      /\ Len(runtimes') = Len(runtimes)
      /\ \A j \in RuntimeIds : runtimes'[j] = IF j = i THEN r ELSE runtimes[j]
  BY <1>1, ExceptSeq DEF RuntimeIds
<1>3. ASSUME NEW j \in RuntimeIds
      PROVE  Good(runtimes'[j])
  BY <1>2 DEF OrderInv
<1> QED
  BY <1>2, <1>3

\* A step of a monitor.
LEMMA GoesInv ==
    ASSUME OrderInv, NEW i \in RuntimeIds, Goes(i),
           UNCHANGED <<accounts, manager, entries>>
    PROVE  OrderInv'
<1>1. PICK r : /\ Continues(runtimes[i], r)
               /\ runtimes' = [runtimes EXCEPT ![i] = r]
  BY DEF Goes
<1>2. /\ Good(r) /\ r.user = runtimes[i].user /\ r.stopped = runtimes[i].stopped
  BY <1>1 DEF Continues
<1>3. /\ runtimes' \in Seq(RuntimeType)
      /\ Len(runtimes') = Len(runtimes)
      /\ \A j \in RuntimeIds : runtimes'[j] = IF j = i THEN r ELSE runtimes[j]
      /\ \A j \in RuntimeIds : Good(runtimes'[j])
  BY <1>1, <1>2, OneChanged
<1>4. \A j \in RuntimeIds : /\ runtimes'[j].user = runtimes[j].user
                            /\ runtimes'[j].stopped = runtimes[j].stopped
  BY <1>2, <1>3
<1>5. Managed(manager, entries, runtimes)'
  <2>1. Managed(manager, entries, runtimes)
    BY DEF OrderInv
  <2>2. \A u \in Users : entries[u] # 0 => entries[u] \in RuntimeIds
    BY <2>1 DEF Managed, RuntimeIds
  <2>3. manager.pc = "stop" => manager.user \in Users
    BY DEF OrderInv, ManagerOK
  <2> QED
    BY <1>3, <1>4, <2>1, <2>2, <2>3 DEF Managed, RuntimeIds
<1> QED
  BY <1>3, <1>5 DEF OrderInv, RuntimeIds

\* The manager tells a runtime to stop.
LEMMA SignalStopInv ==
    ASSUME OrderInv, NEW u \in Users, manager.pc = "users", entries[u] # 0,
           SignalStop(u), UNCHANGED <<accounts, entries>>
    PROVE  OrderInv'
<1> DEFINE i == entries[u]
           r == [runtimes[i] EXCEPT !.stopped = TRUE]
<1>1. Managed(manager, entries, runtimes) /\ ManagerOK(manager)
  BY DEF OrderInv
<1>2. i \in RuntimeIds /\ Good(runtimes[i])
  BY <1>1 DEF OrderInv, Managed, RuntimeIds
<1>3. Good(r) /\ r.user = runtimes[i].user /\ r.stopped
  BY <1>2, StoppedGood
<1>4. runtimes' = [runtimes EXCEPT ![i] = r] /\ manager' = ForUser(u, "stop")
  BY DEF SignalStop
<1> HIDE DEF r
<1>5. /\ runtimes' \in Seq(RuntimeType)
      /\ Len(runtimes') = Len(runtimes)
      /\ \A j \in RuntimeIds : runtimes'[j] = IF j = i THEN r ELSE runtimes[j]
      /\ \A j \in RuntimeIds : Good(runtimes'[j])
  BY <1>2, <1>3, <1>4, OneChanged
<1>6. ManagerOK(manager')
  BY <1>1, <1>4 DEF ManagerOK, ForUser
<1>7. Managed(manager', entries', runtimes')
  <2>1. manager'.pc = "stop" /\ manager'.user = u
    BY <1>4 DEF ForUser
  <2>2. \A j \in RuntimeIds : /\ runtimes'[j].user = runtimes[j].user
                              /\ ~runtimes'[j].stopped => ~runtimes[j].stopped
    BY <1>3, <1>5
  <2>3. runtimes'[i].stopped /\ entries' = entries
    BY <1>2, <1>3, <1>5
  <2>4. \A v \in Users : entries'[v] # 0 => runtimes'[entries'[v]].user = v
    BY <2>2, <2>3, EntriesFacts
  <2>5. \A j \in RuntimeIds : ~runtimes'[j].stopped => entries'[runtimes'[j].user] = j
    BY <2>2, <2>3, EntriesFacts
  <2>6. entries'[u] # 0 /\ runtimes'[entries'[u]].stopped
    BY <2>3
  <2>7. 1 .. Len(runtimes') = RuntimeIds /\ entries' \in [Users -> 0 .. Len(runtimes')]
    BY <1>5, <2>3, EntriesFacts DEF RuntimeIds
  <2> QED
    BY <2>1, <2>4, <2>5, <2>6, <2>7 DEF Managed
<1> QED
  BY <1>5, <1>6, <1>7 DEF OrderInv, RuntimeIds

\* The manager goes on with its lists.
LEMMA ManagerInv ==
    ASSUME OrderInv, UNCHANGED <<accounts, entries, runtimes>>, ManagerOK(manager'),
           \/ manager'.pc \in {"idle", "users"}
           \/ manager'.pc = "start" /\ entries[manager'.user] = 0
    PROVE  OrderInv'
<1>1. Managed(manager', entries', runtimes')
  BY DEF OrderInv, Managed
<1> QED
  BY <1>1 DEF OrderInv, RuntimeIds

\* A pass begins, takes up a user, and ends.
LEMMA ReconcileInv ==
    ASSUME OrderInv,
           \/ ReconcileBegin \/ ReconcileRemoved \/ StartFails
           \/ \E u \in Users : ReconcileUser(u)
    PROVE  OrderInv'
<1>1. ManagerOK(manager)
  BY DEF OrderInv
<1>2. CASE ReconcileBegin
  <2>1. ManagerOK(manager') /\ manager'.pc = "users"
    BY <1>2 DEF ReconcileBegin, OrderInv, ManagerOK
  <2>2. UNCHANGED <<accounts, entries, runtimes>>
    BY <1>2 DEF ReconcileBegin
  <2> QED
    BY <2>1, <2>2, ManagerInv
<1>3. CASE ReconcileRemoved
  <2>1. CASE ReconcileEnds /\ UNCHANGED runtimes
    <3>1. ManagerOK(manager') /\ manager'.pc = "idle"
      BY <2>1 DEF ReconcileEnds, ManagerOK
    <3>2. UNCHANGED <<accounts, entries, runtimes>>
      BY <1>3, <2>1 DEF ReconcileRemoved
    <3> QED
      BY <3>1, <3>2, ManagerInv
  <2>2. CASE \E u \in Users : entries[u] # 0 /\ SignalStop(u)
    BY <1>3, <2>2, SignalStopInv DEF ReconcileRemoved
  <2> QED
    BY <1>3, <2>1, <2>2 DEF ReconcileRemoved
<1>4. CASE StartFails
  <2>1. ManagerOK(manager') /\ manager'.pc = "idle"
    BY <1>4 DEF StartFails, ReconcileEnds, ManagerOK
  <2>2. UNCHANGED <<accounts, entries, runtimes>>
    BY <1>4 DEF StartFails
  <2> QED
    BY <2>1, <2>2, ManagerInv
<1>5. ASSUME NEW u \in Users, ReconcileUser(u)
      PROVE  OrderInv'
  <2>1. CASE entries[u] = 0
    <3>1. manager' = ForUser(u, "start") /\ UNCHANGED <<accounts, entries, runtimes>>
      BY <1>5, <2>1 DEF ReconcileUser
    <3>2. ManagerOK(manager') /\ manager'.pc = "start" /\ manager'.user = u
      BY <1>1, <1>5, <3>1 DEF ReconcileUser, ManagerOK, ForUser
    <3> QED
      BY <2>1, <3>1, <3>2, ManagerInv
  <2>2. CASE entries[u] # 0 /\ runtimes[entries[u]].key = manager.list[u]
    <3>1. /\ manager' = [manager EXCEPT !.todo = @ \ {u}]
          /\ UNCHANGED <<accounts, entries, runtimes>>
      BY <1>5, <2>2 DEF ReconcileUser
    <3>2. /\ manager.pc = "users" /\ {"pc", "list", "todo"} \subseteq DOMAIN manager
          /\ manager.list \in [Users -> Nat] /\ manager.todo \subseteq Users
      BY <1>1, <1>5 DEF ReconcileUser, ManagerOK
    <3>3. /\ DOMAIN manager' = DOMAIN manager /\ manager'.pc = manager.pc
          /\ manager'.list = manager.list
          /\ manager'.todo = manager.todo \ {u}
      BY <3>1, <3>2
    <3>4. ManagerOK(manager') /\ manager'.pc = "users"
      BY <3>2, <3>3 DEF ManagerOK
    <3> QED
      BY <3>1, <3>4, ManagerInv
  <2>3. CASE entries[u] # 0 /\ runtimes[entries[u]].key # manager.list[u]
    BY <1>5, <2>3, SignalStopInv DEF ReconcileUser
  <2> QED
    BY <2>1, <2>2, <2>3
<1> QED
  BY <1>2, <1>3, <1>4, <1>5

\* Stop returns, and the entry of the runtime is deleted.
LEMMA FinishStopInv ==
    ASSUME OrderInv, FinishStop
    PROVE  OrderInv'
<1> DEFINE u == manager.user
           i == entries[u]
           c == IF IsDeribit(i) THEN 0 ELSE runtimes[i].conn
           b == IF IsDeribit(i) THEN FALSE ELSE runtimes[i].up
           r == [runtimes[i] EXCEPT !.closed = TRUE, !.conn = c, !.up = b]
<1>1. Managed(manager, entries, runtimes) /\ ManagerOK(manager) /\ manager.pc = "stop"
  BY DEF OrderInv, FinishStop
<1>2. u \in Users /\ i # 0 /\ runtimes[i].stopped
  BY <1>1 DEF ManagerOK, Managed
<1>3. i \in RuntimeIds /\ Good(runtimes[i]) /\ runtimes[i].user = u
  BY <1>1, <1>2 DEF OrderInv, Managed, RuntimeIds
<1>4. runtimes' = [runtimes EXCEPT ![i] = r]
  BY DEF FinishStop
<1>5. c \in Nat /\ b \in BOOLEAN /\ (runtimes[i].user \in DeribitUsers => c = 0)
  BY <1>3 DEF Good, RuntimeType, IsDeribit
<1> HIDE DEF c, b
<1>6. Good(r) /\ r.user = runtimes[i].user /\ r.stopped
  <2> DEFINE q == runtimes[i]
  <2>1. Good(q) /\ q.stopped /\ (q.user \in DeribitUsers => c = 0)
    BY <1>2, <1>3, <1>5
  <2> HIDE DEF q
  <2>2. r = AfterStop(q, c, b)
    BY DEF AfterStop, q
  <2> HIDE DEF r
  <2>3. Good(AfterStop(q, c, b)) /\ AfterStop(q, c, b).user = q.user /\ AfterStop(q, c, b).stopped
    <3>1. PICK conn \in Nat, up \in BOOLEAN : conn = c /\ up = b
      BY <1>5
    <3>2. Good(q) /\ q.stopped /\ (q.user \in DeribitUsers => conn = 0)
      BY <2>1, <3>1
    <3>3. /\ Good(AfterStop(q, conn, up)) /\ AfterStop(q, conn, up).user = q.user
          /\ AfterStop(q, conn, up).stopped
      BY <3>2, ClosedGood
    <3> QED
      BY <3>1, <3>3
  <2> QED
    BY <2>2, <2>3 DEF q
<1> HIDE DEF r
<1>7. /\ runtimes' \in Seq(RuntimeType)
      /\ Len(runtimes') = Len(runtimes)
      /\ \A j \in RuntimeIds : runtimes'[j] = IF j = i THEN r ELSE runtimes[j]
      /\ \A j \in RuntimeIds : Good(runtimes'[j])
  BY <1>3, <1>4, <1>6, OneChanged
<1>8. /\ entries' = [entries EXCEPT ![u] = 0] /\ accounts' = accounts
      /\ manager' = IF manager.list[u] = 0
                    THEN [pc |-> "users", list |-> manager.list, todo |-> {}]
                    ELSE ForUser(u, "start")
  BY DEF FinishStop
<1>9. /\ ManagerOK(manager') /\ manager'.pc \in {"users", "start"}
      /\ manager'.pc = "start" => manager'.user = u
  BY <1>1, <1>2, <1>8 DEF ManagerOK, ForUser
<1>10. Managed(manager', entries', runtimes')
  <2>1. \A j \in RuntimeIds : /\ runtimes'[j].user = runtimes[j].user
                              /\ ~runtimes'[j].stopped => ~runtimes[j].stopped /\ j # i
    BY <1>6, <1>7
  <2>2. /\ entries \in [Users -> 0 .. Len(runtimes)]
        /\ entries' \in [Users -> 0 .. Len(runtimes)]
        /\ entries'[u] = 0
        /\ \A v \in Users : v # u => entries'[v] = entries[v]
    BY <1>2, <1>8, EntriesFacts
  <2>3. \A v \in Users : entries'[v] # 0 => runtimes'[entries'[v]].user = v
    BY <2>1, <2>2, EntriesFacts
  <2>4. ASSUME NEW j \in RuntimeIds, ~runtimes'[j].stopped
        PROVE  entries'[runtimes'[j].user] = j
    <3>1. j # i /\ ~runtimes[j].stopped /\ runtimes'[j].user = runtimes[j].user
      BY <2>1, <2>4
    <3>2. runtimes[j].user \in Users /\ entries[runtimes[j].user] = j
      BY <3>1, EntriesFacts
    <3>3. runtimes[j].user # u
      BY <3>1, <3>2
    <3> QED
      BY <2>2, <3>1, <3>2, <3>3
  <2>5. 1 .. Len(runtimes') = RuntimeIds
    BY <1>7 DEF RuntimeIds
  <2> QED
    BY <1>7, <1>9, <2>2, <2>3, <2>4, <2>5 DEF Managed
<1> QED
  BY <1>7, <1>8, <1>9, <1>10 DEF OrderInv, RuntimeIds

\* A runtime is started for a user who has none.
LEMMA StartRuntimeInv ==
    ASSUME OrderInv, StartRuntime
    PROVE  OrderInv'
<1> DEFINE u == manager.user
           pc == IF u \in DeribitUsers THEN "check" ELSE "dial"
           r == Runtime(u, manager.list[u], pc)
           n == Len(runtimes) + 1
<1>1. Managed(manager, entries, runtimes) /\ ManagerOK(manager) /\ manager.pc = "start"
  BY DEF OrderInv, StartRuntime
<1>2. /\ u \in Users /\ entries[u] = 0
      /\ manager.list \in [Users -> Nat] /\ manager.todo \subseteq Users
  BY <1>1 DEF ManagerOK, Managed
<1>3. Good(r) /\ r.user = u /\ r \in RuntimeType
  <2>1. pc \in LoopPcs /\ pc # "read" /\ manager.list[u] \in Nat
    BY <1>2 DEF LoopPcs
  <2> HIDE DEF pc
  <2> QED
    BY <1>2, <2>1, RuntimeGood DEF Good
<1>4. /\ runtimes' = Append(runtimes, r)
      /\ entries' = [entries EXCEPT ![u] = Len(runtimes')]
      /\ manager' = [pc |-> "users", list |-> manager.list, todo |-> manager.todo \ {u}]
      /\ accounts' = accounts
  BY DEF StartRuntime
<1> HIDE DEF r
<1>5. runtimes \in Seq(RuntimeType) /\ Len(runtimes) \in Nat
  BY EntriesFacts DEF OrderInv
<1>6. /\ runtimes' \in Seq(RuntimeType)
      /\ Len(runtimes') = n
      /\ \A j \in RuntimeIds : runtimes'[j] = runtimes[j]
      /\ runtimes'[n] = r
  BY <1>3, <1>4, <1>5, AppendProperties DEF RuntimeIds
<1>7. /\ 1 .. Len(runtimes') = RuntimeIds \cup {n}
      /\ n \in Nat \ {0} /\ n \notin RuntimeIds
  BY <1>5, <1>6 DEF RuntimeIds
<1>8. ManagerOK(manager') /\ manager'.pc = "users"
  BY <1>2, <1>4 DEF ManagerOK
<1>9. \A j \in 1 .. Len(runtimes') : Good(runtimes'[j])
  BY <1>3, <1>6, <1>7 DEF OrderInv
<1>10. Managed(manager', entries', runtimes')
  <2>1. /\ entries \in [Users -> 0 .. Len(runtimes)]
        /\ entries' \in [Users -> 0 .. Len(runtimes')]
        /\ entries'[u] = n
        /\ \A v \in Users : v # u => entries'[v] = entries[v]
    BY <1>2, <1>4, <1>5, <1>6, EntriesFacts
  <2>2. ASSUME NEW v \in Users, entries'[v] # 0
        PROVE  runtimes'[entries'[v]].user = v
    <3>1. CASE v = u
      BY <1>3, <1>6, <2>1, <3>1
    <3>2. CASE v # u
      BY <1>6, <2>1, <2>2, <3>2, EntriesFacts
    <3> QED
      BY <3>1, <3>2
  <2>3. ASSUME NEW j \in 1 .. Len(runtimes'), ~runtimes'[j].stopped
        PROVE  entries'[runtimes'[j].user] = j
    <3>1. CASE j = n
      BY <1>3, <1>6, <2>1, <3>1
    <3>2. CASE j \in RuntimeIds
      <4>1. runtimes[j].user \in Users /\ entries[runtimes[j].user] = j /\ j # 0
        BY <1>6, <2>3, <3>2, EntriesFacts DEF RuntimeIds
      <4>2. runtimes[j].user # u
        BY <1>2, <4>1
      <4> QED
        BY <1>6, <2>1, <3>2, <4>1, <4>2
    <3> QED
      BY <1>7, <3>1, <3>2
  <2> QED
    BY <1>8, <2>1, <2>2, <2>3 DEF Managed
<1> QED
  BY <1>2, <1>4, <1>6, <1>8, <1>9, <1>10 DEF OrderInv, RuntimeIds

\* The table of users is read again.
LEMMA ReloadUsersInv ==
    ASSUME OrderInv, NEW u \in Users, ReloadUsers(u)
    PROVE  OrderInv'
<1>1. accounts' \in [Users -> Nat]
  BY DEF OrderInv, ReloadUsers
<1>2. UNCHANGED <<manager, entries, runtimes>>
  BY DEF ReloadUsers
<1> QED
  BY <1>1, <1>2 DEF OrderInv, RuntimeIds

\* The order streams when a step is one of the prices.
LEMMA OrderUnchanged ==
    ASSUME OrderInv, UNCHANGED orderVars
    PROVE  OrderInv'
  BY DEF orderVars, OrderInv, RuntimeIds

\* The invariant of the order streams holds at the start ...
LEMMA OrderInit == Init => OrderInv
<1> SUFFICES ASSUME Init
             PROVE  OrderInv
  OBVIOUS
<1>1. accounts \in [Users -> Nat] /\ ManagerOK(manager)
  BY DEF Init, ManagerOK
<1>2. runtimes = << >> /\ entries = [u \in Users |-> 0] /\ manager.pc = "idle"
  BY DEF Init
<1>3. runtimes \in Seq(RuntimeType) /\ Len(runtimes) = 0
  BY <1>2, EmptySeq
<1>4. 1 .. Len(runtimes) = {}
  BY <1>3
<1>5. Managed(manager, entries, runtimes)
  BY <1>2, <1>3, <1>4 DEF Managed
<1> QED
  BY <1>1, <1>3, <1>4, <1>5 DEF OrderInv, RuntimeIds

\* ... and every step keeps it.
LEMMA OrderStep == OrderInv /\ [Next]_vars => OrderInv'
<1> SUFFICES ASSUME OrderInv, [Next]_vars
             PROVE  OrderInv'
  OBVIOUS
<1>1. CASE Manage \/ StartFails
  BY <1>1, ReconcileInv, FinishStopInv, StartRuntimeInv DEF Manage
<1>2. CASE \E u \in Users : ReloadUsers(u)
  BY <1>2, ReloadUsersInv
<1>3. ASSUME NEW i \in RuntimeIds,
             \/ Monitor(i) \/ UserData(i) \/ Break(i) \/ KeyExpires(i)
             \/ IsDeribit(i) /\ \E l \in runtimes[i].loops : ReconnectFails(i, l)
      PROVE  OrderInv'
  <2>1. Good(runtimes[i])
    BY DEF OrderInv
  <2>2. Goes(i)
    BY <1>3, <2>1, LoopGoes, ReconnectGoes, BeatGoes, UserDataGoes, VenueGoes
       DEF Monitor
  <2>3. UNCHANGED <<accounts, manager, entries>>
    BY <1>3 DEF Monitor, UserData, Break, KeyExpires, LoopCheck, ReadError,
                ReconnectCheck, Reconnect, ReconnectFails, BeatEnds, Dial, Await, Change
  <2> QED
    BY <2>2, <2>3, GoesInv
<1>4. CASE \/ \E options \in SUBSET Options : Trade(options)
           \/ Prices \/ ClearConnection \/ PriceBreak
           \/ \E o \in Options : SubscribeFails(o)
  <2>1. UNCHANGED orderVars
    BY <1>4 DEF Prices, Trade, PriceStart, EnsureSubscribed, Subscribe,
                SubscribeFails, ClearConnection, PriceBreak
  <2> QED
    BY <2>1, OrderUnchanged
<1>5. CASE UNCHANGED vars
  BY <1>5, OrderUnchanged DEF vars, orderVars
<1> QED
  BY <1>1, <1>2, <1>3, <1>4, <1>5 DEF Next
-----------------------------------------------------------------------------
(* The steps of the prices.                                                *)

\* A new cycle, of nothing or of options to subscribe to.
LEMMA SubscribeToType ==
    ASSUME NEW S \in SUBSET Options
    PROVE  SubscribeTo(S).pc = "subscribe" => SubscribeTo(S).todo \subseteq Options
  BY DEF SubscribeTo

\* The invariant of the prices holds at the start ...
LEMMA PriceInit == Init => PriceInv
<1> SUFFICES ASSUME Init
             PROVE  PriceInv
  OBVIOUS
<1>1. cycle.pc # "subscribe"
  BY DEF Init
<1> QED
  BY <1>1 DEF Init, PriceInv

\* A connection is dialed, or is not.
LEMMA ConnectKeeps ==
    ASSUME PriceInv, PriceConnect
    PROVE  /\ price' \in [conn : BOOLEAN, up : BOOLEAN, subs : SUBSET Options,
                          served : SUBSET Options]
           /\ price'.up => price'.conn /\ price'.subs = price'.served
<1>1. CASE price' = Dialed
  BY <1>1 DEF Dialed
<1>2. CASE UNCHANGED price
  BY <1>2 DEF PriceInv
<1> QED
  BY <1>1, <1>2 DEF PriceConnect

\* Each step of the prices.
LEMMA CycleStep ==
    ASSUME PriceInv, PriceStart \/ EnsureSubscribed
    PROVE  PriceInv'
<1>1. /\ held' = held /\ held \in SUBSET Options
      /\ price' \in [conn : BOOLEAN, up : BOOLEAN, subs : SUBSET Options,
                     served : SUBSET Options]
      /\ price'.up => price'.conn /\ price'.subs = price'.served
  BY ConnectKeeps DEF PriceStart, EnsureSubscribed, PriceInv
<1>2. \/ cycle' = SubscribeTo(held) \/ cycle' = SubscribeTo(held \ price.subs)
      \/ cycle' = [pc |-> "idle"]
  BY DEF PriceStart, EnsureSubscribed
<1>3. cycle'.pc = "subscribe" => cycle'.todo \subseteq Options
  BY <1>1, <1>2, SubscribeToType
<1> QED
  BY <1>1, <1>3 DEF PriceInv

\* An option is subscribed to, or is not.
LEMMA SubscribeStep ==
    ASSUME PriceInv, NEW o \in Options, Subscribe(o) \/ SubscribeFails(o)
    PROVE  PriceInv'
<1>1. /\ held' = held /\ cycle.todo \subseteq Options
      /\ cycle' = SubscribeTo(cycle.todo \ {o})
  BY DEF PriceInv, Subscribe, SubscribeFails
<1>2. cycle'.pc = "subscribe" => cycle'.todo \subseteq Options
  BY <1>1, SubscribeToType
<1>3. CASE price' = price
  BY <1>1, <1>2, <1>3 DEF PriceInv
<1>4. CASE price.conn /\ Subscribe(o)
  <2> DEFINE served == IF price.up THEN price.served \cup {o} ELSE price.served
  <2>1. price' = [price EXCEPT !.subs = price.subs \cup {o}, !.served = served]
    BY <1>4 DEF Subscribe
  <2>2. served \in SUBSET Options /\ (price.up => served = price.served \cup {o})
    BY DEF PriceInv
  <2> HIDE DEF served
  <2> QED
    BY <1>1, <1>2, <1>4, <2>1, <2>2 DEF PriceInv
<1> QED
  BY <1>3, <1>4 DEF Subscribe, SubscribeFails

\* Every step keeps the invariant of the prices.
LEMMA PriceStep == PriceInv /\ [Next]_vars => PriceInv'
<1> SUFFICES ASSUME PriceInv, [Next]_vars
             PROVE  PriceInv'
  OBVIOUS
<1>1. CASE \E options \in SUBSET Options : Trade(options)
  BY <1>1 DEF Trade, PriceInv
<1>2. CASE Prices \/ \E o \in Options : SubscribeFails(o)
  BY <1>2, CycleStep, SubscribeStep DEF Prices
<1>3. CASE ClearConnection
  BY <1>3 DEF ClearConnection, PriceInv
<1>4. CASE PriceBreak
  BY <1>4 DEF PriceBreak, PriceInv
<1>5. CASE UNCHANGED priceVars
  BY <1>5 DEF priceVars, PriceInv
<1>6. CASE \/ Manage \/ StartFails
           \/ \E u \in Users : ReloadUsers(u)
  <2>1. UNCHANGED priceVars
    BY <1>6 DEF Manage, StartFails, ReloadUsers, ReconcileBegin, ReconcileUser,
                ReconcileRemoved, FinishStop, StartRuntime
  <2> QED
    BY <1>5, <2>1
<1>7. ASSUME NEW i \in RuntimeIds,
             \/ Monitor(i) \/ UserData(i) \/ Break(i) \/ KeyExpires(i)
             \/ IsDeribit(i) /\ \E l \in runtimes[i].loops : ReconnectFails(i, l)
      PROVE  PriceInv'
  <2>1. UNCHANGED priceVars
    BY <1>7 DEF Monitor, UserData, Break, KeyExpires, LoopCheck, ReadError,
                ReconnectCheck, Reconnect, ReconnectFails, BeatEnds, Dial, Await, Change
  <2> QED
    BY <1>5, <2>1
<1>8. CASE UNCHANGED vars
  BY <1>5, <1>8 DEF vars, priceVars
<1> QED
  BY <1>1, <1>2, <1>3, <1>4, <1>6, <1>7, <1>8 DEF Next
-----------------------------------------------------------------------------
(* The invariants and what follows from them.                              *)

\* Both invariants hold of every reachable state.
THEOREM StreamsInvariant == Spec => [](OrderInv /\ PriceInv)
<1>1. Init => OrderInv /\ PriceInv
  BY OrderInit, PriceInit
<1>2. (OrderInv /\ PriceInv) /\ [Next]_vars => (OrderInv /\ PriceInv)'
  BY OrderStep, PriceStep
<1> QED
  BY <1>1, <1>2, PTL DEF Spec

\* The loops that read a connection are one at most: they have its number.
LEMMA OneReader ==
    ASSUME OrderInv, NEW i \in RuntimeIds, IsDeribit(i), runtimes[i].conn # 0
    PROVE  Cardinality(Readers(i)) <= 1
<1>1. Attended(runtimes[i])
  BY DEF OrderInv, Good, IsDeribit
<1>2. \A l, m \in Readers(i) : l = m
  BY <1>1 DEF Readers, Attended
<1>3. CASE Readers(i) = {}
  BY <1>3, FS_EmptySet
<1>4. CASE Readers(i) # {}
  <2>1. PICK l : Readers(i) = {l}
    BY <1>2, <1>4
  <2> QED
    BY <2>1, FS_Singleton
<1> QED
  BY <1>3, <1>4

\* A connection of a running Deribit monitor has one reader at most, a message
\* loop and a heartbeat.
THEOREM OneAttendantInvariant == Spec => []OneAttendant
<1>1. OrderInv => OneAttendant
  <2> SUFFICES ASSUME OrderInv, NEW i \in RuntimeIds, IsDeribit(i),
                      ~runtimes[i].stopped, runtimes[i].conn # 0
               PROVE  /\ Cardinality(Readers(i)) <= 1
                      /\ \E l \in runtimes[i].loops : l.gen = runtimes[i].gen
                      /\ runtimes[i].gen \in runtimes[i].beats
    BY DEF OneAttendant
  <2>1. Attended(runtimes[i])
    BY DEF OrderInv, Good, IsDeribit
  <2> QED
    BY <2>1, OneReader DEF Attended
<1> QED
  BY <1>1, StreamsInvariant, PTL

\* No message is handled once Stop of a Deribit monitor has returned.
THEOREM StoppedIsDeafInvariant == Spec => []StoppedIsDeaf
<1>1. OrderInv => StoppedIsDeaf
  BY DEF OrderInv, Good, IsDeribit, StoppedIsDeaf, Deaf, Readers
<1> QED
  BY <1>1, StreamsInvariant, PTL

\* The manager can stop every runtime that runs.
THEOREM RunningIsManagedInvariant == Spec => []RunningIsManaged
<1>1. OrderInv => RunningIsManaged
  BY DEF OrderInv, Managed, RunningIsManaged, RuntimeIds
<1> QED
  BY <1>1, StreamsInvariant, PTL

\* The subscriptions remembered are those that the venue has.
THEOREM SubscriptionsAreRealInvariant == Spec => []SubscriptionsAreReal
<1>1. PriceInv => SubscriptionsAreReal
  BY DEF PriceInv, SubscriptionsAreReal
<1> QED
  BY <1>1, StreamsInvariant, PTL
-----------------------------------------------------------------------------
(* The bounds of the types.  A Deribit monitor gets a new connection, with *)
(* new channels, only for one that has been broken.                        *)

\* A running monitor whose connection the venue does not serve, or any that
\* reconnects: it may get another connection.
Opening(r) == (\E l \in r.loops : l.pc = "connect") \/ (~r.stopped /\ ~r.up)

\* A Deribit monitor when n connections have been broken; only its last loop
\* is more than about to end.
Counted(r, n) ==
    /\ r.beats \subseteq 1 .. r.gen
    /\ r.up => r.conn # 0
    /\ r.gen <= n + 1
    /\ Opening(r) => r.gen <= n
    /\ \A l \in r.loops : /\ l.gen > 0 /\ l.conn <= r.gen /\ l.tries < MaxTries
                          /\ l.gen < r.gen => l.pc = "check"
                          /\ l.pc \in {"wait", "connect"} => r.conn = 0

\* A Binance monitor has one loop for ever.
Single(r) ==
    /\ r.gen = 1 /\ r.conn <= 1 /\ r.beats = {}
    /\ \A l \in r.loops : l.gen = 1 /\ l.conn = 0 /\ l.tries = 0

Bounded(r, n) ==
    /\ r.key \in Keys \ {0}
    /\ r.user \in DeribitUsers => Counted(r, n)
    /\ r.user \notin DeribitUsers => Single(r)

\* The credentials that the manager's pass has read.
ListOK(m) ==
    /\ m.pc \in {"idle", "users", "stop", "start"}
    /\ m.pc # "idle" => /\ m.list \in [Users -> Keys]
                        /\ \A u \in m.todo : m.list[u] # 0
    /\ m.pc = "start" => m.list[m.user] # 0

BoundInv ==
    /\ reloads \in 0 .. MaxReloads
    /\ breaks \in 0 .. MaxBreaks
    /\ \A u \in Users : accounts[u] <= reloads + 1
    /\ ListOK(manager)
    /\ \A i \in RuntimeIds : Bounded(runtimes[i], breaks)

\* A loop in another state, which does not come to connect of itself.
LEMMA WithCounted ==
    ASSUME NEW r, Good(r), NEW n \in Nat, Counted(r, n), NEW l \in r.loops,
           NEW new \in LoopType, new.gen = l.gen,
           new.conn <= r.gen, new.tries < MaxTries,
           l.gen < r.gen => new.pc = "check",
           new.pc \in {"wait", "connect"} => r.conn = 0,
           new.pc = "connect" => Opening(r)
    PROVE  Counted([r EXCEPT !.loops = (@ \ {l}) \cup {new}], n)
<1> DEFINE S == (r.loops \ {l}) \cup {new}
           m == [r EXCEPT !.loops = S]
<1>1. /\ m.loops = S /\ m.stopped = r.stopped /\ m.up = r.up
      /\ m.conn = r.conn /\ m.gen = r.gen /\ m.beats = r.beats
  BY DEF Good, RuntimeType
<1> SUFFICES Counted(m, n)
  BY DEF m
<1> HIDE DEF m
<1>2. Opening(m) => Opening(r)
  BY <1>1 DEF Opening
<1>3. \A k \in S : /\ k.gen > 0 /\ k.conn <= r.gen /\ k.tries < MaxTries
                   /\ k.gen < r.gen => k.pc = "check"
                   /\ k.pc \in {"wait", "connect"} => r.conn = 0
  BY DEF Counted
<1> HIDE DEF S
<1> QED
  BY <1>1, <1>2, <1>3 DEF Counted

\* A loop that ends.
LEMMA WithoutCounted ==
    ASSUME NEW r, Good(r), NEW n \in Nat, Counted(r, n), NEW l \in r.loops
    PROVE  Counted([r EXCEPT !.loops = @ \ {l}], n)
<1> DEFINE m == [r EXCEPT !.loops = @ \ {l}]
<1>1. /\ m.loops = r.loops \ {l} /\ m.stopped = r.stopped /\ m.up = r.up
      /\ m.conn = r.conn /\ m.gen = r.gen /\ m.beats = r.beats
  BY DEF Good, RuntimeType
<1> SUFFICES Counted(m, n)
  BY DEF m
<1> HIDE DEF m
<1> QED
  BY <1>1 DEF Counted, Opening

\* A connection that the venue does not serve is closed.
LEMMA DisconnectedCounted ==
    ASSUME NEW r, Good(r), NEW n \in Nat, Counted(r, n), ~r.up \/ r.stopped
    PROVE  Counted([r EXCEPT !.conn = 0, !.up = FALSE], n)
<1> DEFINE m == [r EXCEPT !.conn = 0, !.up = FALSE]
<1>1. /\ m.loops = r.loops /\ m.stopped = r.stopped /\ m.up = FALSE
      /\ m.conn = 0 /\ m.gen = r.gen /\ m.beats = r.beats
  BY DEF Good, RuntimeType
<1> SUFFICES Counted(m, n)
  BY DEF m
<1> HIDE DEF m
<1>2. r.gen \in Nat /\ \A l \in r.loops : l.conn \in Nat
  BY DEF Good, RuntimeType, LoopType
<1> QED
  BY <1>1, <1>2 DEF Counted, Opening

\* Connect, for a monitor that was to get a connection.
LEMMA ConnectedCounted ==
    ASSUME NEW r, Good(r), NEW n \in Nat, Counted(r, n), r.gen <= n,
           \A l \in r.loops : l.pc = "check"
    PROVE  Counted(Connected(r), n)
<1> DEFINE g == r.gen + 1
           L == r.loops \cup {Loop(g, "check")}
           m == Connected(r)
<1>1. /\ m.loops = L /\ m.stopped = r.stopped /\ m.up = TRUE
      /\ m.conn = g /\ m.gen = g /\ m.beats = r.beats \cup {g}
  BY DEF Good, RuntimeType, Connected
<1>2. r.gen \in Nat /\ \A l \in r.loops : l.conn \in Nat /\ l.gen \in Nat
  BY DEF Good, RuntimeType, LoopType
<1>3. \A l \in L : /\ l.gen > 0 /\ l.conn <= g /\ l.tries < MaxTries
                   /\ l.pc = "check"
  BY <1>2, BoundsAssumption DEF Counted, Loop
<1>4. m.beats \subseteq 1 .. g /\ g <= n + 1 /\ g # 0
  BY <1>1, <1>2 DEF Counted
<1> HIDE DEF m, L, g
<1>5. ~Opening(m)
  BY <1>1, <1>3 DEF Opening
<1>6. \A l \in m.loops : /\ l.gen > 0 /\ l.conn <= m.gen /\ l.tries < MaxTries
                         /\ l.gen < m.gen => l.pc = "check"
                         /\ l.pc \in {"wait", "connect"} => m.conn = 0
  BY <1>1, <1>3
<1>7. m.beats \subseteq 1 .. m.gen /\ m.gen <= n + 1 /\ m.conn # 0
  BY <1>1, <1>4
<1>8. Counted(m, n)
  BY <1>5, <1>6, <1>7 DEF Counted
<1> QED
  BY <1>8 DEF m

\* What is known of a runtime of Deribit and one of its loops.
LEMMA LoopBounds ==
    ASSUME BoundInv, NEW i \in RuntimeIds, Good(runtimes[i]), IsDeribit(i),
           NEW l \in runtimes[i].loops
    PROVE  /\ runtimes[i] \in RuntimeType /\ l \in LoopType
           /\ runtimes[i].user \in DeribitUsers /\ runtimes[i].key \in Keys \ {0}
           /\ Attended(runtimes[i]) /\ Counted(runtimes[i], breaks) /\ breaks \in Nat
           /\ runtimes[i].gen \in Nat /\ runtimes[i].conn \in Nat
           /\ l.gen \in Nat /\ l.conn \in Nat /\ l.tries \in Nat
           /\ l.gen <= runtimes[i].gen /\ l.conn <= runtimes[i].gen /\ l.tries < MaxTries
           /\ l.gen < runtimes[i].gen => l.pc = "check"
           /\ l.pc \in {"wait", "connect"} => runtimes[i].conn = 0
           /\ runtimes[i].up \in BOOLEAN /\ (runtimes[i].up => runtimes[i].conn # 0)
  BY BoundsAssumption DEF BoundInv, Bounded, Good, RuntimeType, LoopType, IsDeribit,
                          Attended, Counted

\* The message loop takes up the connection, loses it, and goes to reconnect.
LEMMA LoopCounts ==
    ASSUME BoundInv, NEW i \in RuntimeIds, Good(runtimes[i]), IsDeribit(i),
           NEW l \in runtimes[i].loops,
           LoopCheck(i, l) \/ ReadError(i, l) \/ ReconnectCheck(i, l)
    PROVE  \E r : /\ Bounded(r, breaks) /\ r.user = runtimes[i].user
                  /\ runtimes' = [runtimes EXCEPT ![i] = r]
<1> DEFINE r == runtimes[i]
<1>1. /\ r \in RuntimeType /\ l \in LoopType
      /\ r.user \in DeribitUsers /\ r.key \in Keys \ {0}
      /\ Attended(r) /\ Counted(r, breaks) /\ breaks \in Nat
      /\ r.gen \in Nat /\ r.conn \in Nat
      /\ l.gen \in Nat /\ l.conn \in Nat /\ l.tries \in Nat
      /\ l.gen <= r.gen /\ l.conn <= r.gen /\ l.tries < MaxTries
      /\ l.gen < r.gen => l.pc = "check"
      /\ l.pc \in {"wait", "connect"} => r.conn = 0
      /\ r.up \in BOOLEAN /\ (r.up => r.conn # 0)
  BY LoopBounds
<1>2. ASSUME NEW n, n.user = r.user, n.key = r.key, Counted(n, breaks)
      PROVE  Bounded(n, breaks) /\ n.user = r.user
  BY <1>1, <1>2 DEF Bounded
<1>3. \A new : With(i, l, new).user = r.user /\ With(i, l, new).key = r.key
  BY <1>1 DEF With, RuntimeType
<1>4. CASE LoopCheck(i, l)
  <2>1. CASE Ended(i, l) \/ r.conn = 0
    <3>1. Counted(Without(i, l), breaks)
      BY <1>1, WithoutCounted DEF Without
    <3>2. Without(i, l).user = r.user /\ Without(i, l).key = r.key
      BY <1>1 DEF Without, RuntimeType
    <3>3. runtimes' = [runtimes EXCEPT ![i] = Without(i, l)]
      BY <1>4, <2>1 DEF LoopCheck, Change
    <3> QED
      BY <1>2, <3>1, <3>2, <3>3
  <2>2. CASE ~(Ended(i, l) \/ r.conn = 0)
    <3> DEFINE new == [l EXCEPT !.pc = "read", !.conn = r.conn]
    <3>1. ~r.stopped /\ l.gen = r.gen /\ r.conn = r.gen
      BY <1>1, <2>2 DEF Ended, Attended
    <3>2. /\ new \in LoopType /\ new.gen = l.gen /\ new.pc = "read"
          /\ new.conn = r.gen /\ new.tries = l.tries
      BY <1>1, <3>1 DEF LoopType, LoopPcs
    <3> HIDE DEF new
    <3>3. Counted(With(i, l, new), breaks)
      BY <1>1, <3>1, <3>2, WithCounted DEF With
    <3>4. runtimes' = [runtimes EXCEPT ![i] = With(i, l, new)]
      BY <1>4, <2>2 DEF LoopCheck, Change, new
    <3> QED
      BY <1>2, <1>3, <3>3, <3>4
  <2> QED
    BY <2>1, <2>2
<1>5. CASE ReadError(i, l)
  <2> DEFINE new == [l EXCEPT !.pc = "wait", !.conn = 0]
             drop == [r EXCEPT !.conn = 0, !.up = FALSE]
             m == [drop EXCEPT !.loops = (@ \ {l}) \cup {new}]
  <2>1. ~r.up /\ l.pc = "read"
    BY <1>1, <1>5 DEF ReadError, Attended
  <2>2. Counted(drop, breaks) /\ Good(drop)
    BY <1>1, <2>1, DisconnectedCounted, DisconnectedGood DEF Continues
  <2>3. /\ drop.loops = r.loops /\ drop.conn = 0 /\ drop.gen = r.gen
        /\ drop.user = r.user /\ drop.key = r.key
    BY <1>1 DEF RuntimeType
  <2>4. new \in LoopType /\ new.gen = l.gen /\ new.pc = "wait" /\ new.conn = 0 /\ new.tries = l.tries
    BY <1>1 DEF LoopType, LoopPcs
  <2>5. runtimes' = [runtimes EXCEPT ![i] = m]
    <3>1. runtimes' = [runtimes EXCEPT ![i] = [With(i, l, new) EXCEPT !.conn = 0, !.up = FALSE]]
      BY <1>5 DEF ReadError, Change
    <3>2. [With(i, l, new) EXCEPT !.conn = 0, !.up = FALSE] = m
      BY <1>1 DEF With, RuntimeType
    <3> QED
      BY <3>1, <3>2
  <2>6. m.user = r.user /\ m.key = r.key
    BY <1>1 DEF RuntimeType
  <2> HIDE DEF new, drop
  <2>7. l.gen >= r.gen
    BY <1>1, <2>1
  <2>8. Counted(m, breaks)
    BY <1>1, <2>2, <2>3, <2>4, <2>7, WithCounted
  <2> HIDE DEF m
  <2> QED
    BY <1>2, <2>5, <2>6, <2>8
<1>6. CASE ReconnectCheck(i, l)
  <2> DEFINE pc == IF r.stopped THEN "check" ELSE "connect"
             new == [l EXCEPT !.pc = pc]
  <2>1. pc \in {"check", "connect"} /\ (pc = "connect" => ~r.stopped) /\ l.pc = "wait"
    BY <1>6 DEF ReconnectCheck
  <2>2. runtimes' = [runtimes EXCEPT ![i] = With(i, l, new)]
    BY <1>6 DEF ReconnectCheck, Change
  <2>3. pc = "connect" => Opening(r)
    BY <1>1, <2>1 DEF Opening
  <2> HIDE DEF pc
  <2>4. new \in LoopType /\ new.gen = l.gen /\ new.pc = pc /\ new.conn = l.conn /\ new.tries = l.tries
    BY <1>1, <2>1 DEF LoopType, LoopPcs
  <2> HIDE DEF new
  <2>5. l.gen >= r.gen /\ r.conn = 0
    BY <1>1, <2>1
  <2>6. Counted(With(i, l, new), breaks)
    BY <1>1, <2>3, <2>4, <2>5, WithCounted DEF With
  <2> QED
    BY <1>2, <1>3, <2>2, <2>6
<1> QED
  BY <1>4, <1>5, <1>6

\* The one loop that is more than about to end: all others have an older
\* channel.
LEMMA OthersCheck ==
    ASSUME NEW r, Good(r), r.user \in DeribitUsers, NEW n \in Nat, Counted(r, n),
           NEW l \in r.loops, l.pc # "check", NEW k \in r.loops, k # l
    PROVE  k.pc = "check"
<1>1. r.gen \in Nat /\ k.gen \in Nat /\ l.gen \in Nat /\ Attended(r)
  BY DEF Good, RuntimeType, LoopType
<1>2. l.gen = r.gen /\ k.gen # l.gen /\ k.gen <= r.gen
  BY <1>1 DEF Attended, Counted
<1> QED
  BY <1>1, <1>2 DEF Counted

\* It connects, or fails to.
LEMMA ReconnectCounts ==
    ASSUME BoundInv, NEW i \in RuntimeIds, Good(runtimes[i]), IsDeribit(i),
           NEW l \in runtimes[i].loops,
           Reconnect(i, l) \/ ReconnectFails(i, l)
    PROVE  \E r : /\ Bounded(r, breaks) /\ r.user = runtimes[i].user
                  /\ runtimes' = [runtimes EXCEPT ![i] = r]
<1> DEFINE r == runtimes[i]
<1>1. /\ r \in RuntimeType /\ l \in LoopType
      /\ r.user \in DeribitUsers /\ r.key \in Keys \ {0}
      /\ Attended(r) /\ Counted(r, breaks) /\ breaks \in Nat
      /\ r.gen \in Nat /\ r.conn \in Nat
      /\ l.gen \in Nat /\ l.conn \in Nat /\ l.tries \in Nat
      /\ l.gen <= r.gen /\ l.conn <= r.gen /\ l.tries < MaxTries
      /\ l.gen < r.gen => l.pc = "check"
      /\ l.pc \in {"wait", "connect"} => r.conn = 0
      /\ r.up \in BOOLEAN /\ (r.up => r.conn # 0)
  BY LoopBounds
<1>2. l.pc = "connect" /\ r.conn = 0 /\ l.gen >= r.gen
  BY <1>1 DEF Reconnect, ReconnectFails
<1>3. Opening(r) /\ r.gen <= breaks
  BY <1>1, <1>2 DEF Opening, Counted
<1>4. ASSUME NEW new \in LoopType, new.gen = l.gen, new.pc \in {"check", "wait"},
             new.conn = l.conn, new.tries < MaxTries
      PROVE  LET n == With(i, l, new)
             IN  /\ Counted(n, breaks) /\ Good(n)
                 /\ n.user = r.user /\ n.key = r.key /\ n.conn = 0 /\ n.gen = r.gen
                 /\ n.loops = (r.loops \ {l}) \cup {new}
  <2>1. Counted(With(i, l, new), breaks)
    BY <1>1, <1>2, <1>4, WithCounted DEF With
  <2>2. Good(With(i, l, new))
    BY <1>1, <1>4, WithGood DEF With, Continues
  <2> QED
    BY <1>1, <1>2, <2>1, <2>2 DEF With, RuntimeType
<1>5. CASE Reconnect(i, l)
  <2> DEFINE new == [l EXCEPT !.pc = "check", !.tries = 0]
             back == With(i, l, new)
  <2>1. /\ new \in LoopType /\ new.gen = l.gen /\ new.pc = "check"
        /\ new.conn = l.conn /\ new.tries = 0
    BY <1>1 DEF LoopType, LoopPcs
  <2>2. runtimes' = [runtimes EXCEPT ![i] = Connected(back)]
    <3>1. runtimes' = [runtimes EXCEPT ![i] = IF r.conn = 0 THEN Connected(back) ELSE back]
      BY <1>5 DEF Reconnect, Change
    <3> QED
      BY <1>2, <3>1
  <2> HIDE DEF new
  <2>3. /\ Counted(back, breaks) /\ Good(back)
        /\ back.user = r.user /\ back.key = r.key /\ back.gen = r.gen
        /\ back.loops = (r.loops \ {l}) \cup {new}
    BY <1>4, <2>1, BoundsAssumption
  <2>4. \A k \in r.loops : k # l => k.pc = "check"
    BY <1>1, <1>2, OthersCheck
  <2> HIDE DEF back
  <2>5. Counted(Connected(back), breaks)
    BY <1>1, <1>3, <2>1, <2>3, <2>4, ConnectedCounted
  <2>6. Connected(back).user = r.user /\ Connected(back).key = r.key
    BY <2>3 DEF Connected, Good, RuntimeType
  <2>7. Bounded(Connected(back), breaks)
    BY <1>1, <2>5, <2>6 DEF Bounded
  <2> QED
    BY <2>2, <2>6, <2>7
<1>6. CASE ReconnectFails(i, l)
  <2>1. CASE l.tries + 1 = MaxTries
    <3> DEFINE new == [l EXCEPT !.pc = "check"]
               n == With(i, l, new)
               m == [n EXCEPT !.lost = TRUE]
    <3>1. /\ new \in LoopType /\ new.gen = l.gen /\ new.pc = "check"
          /\ new.conn = l.conn /\ new.tries = l.tries
      BY <1>1 DEF LoopType, LoopPcs
    <3>2. runtimes' = [runtimes EXCEPT ![i] = m]
      BY <1>6, <2>1 DEF ReconnectFails, Change
    <3> HIDE DEF new
    <3>3. Counted(n, breaks) /\ Good(n) /\ n.user = r.user /\ n.key = r.key
      BY <1>1, <1>4, <3>1
    <3> HIDE DEF n
    <3>4. /\ m.loops = n.loops /\ m.stopped = n.stopped /\ m.up = n.up
          /\ m.conn = n.conn /\ m.gen = n.gen /\ m.beats = n.beats
          /\ m.user = n.user /\ m.key = n.key
      BY <3>3 DEF Good, RuntimeType
    <3> HIDE DEF m
    <3>5. Counted(m, breaks)
      BY <3>3, <3>4 DEF Counted, Opening
    <3> QED
      BY <1>1, <3>2, <3>3, <3>4, <3>5 DEF Bounded
  <2>2. CASE l.tries + 1 # MaxTries
    <3> DEFINE t == l.tries + 1
               new == [l EXCEPT !.pc = "wait", !.tries = t]
    <3>1. t \in Nat /\ t < MaxTries
      BY <1>1, <2>2, BoundsAssumption
    <3>2. runtimes' = [runtimes EXCEPT ![i] = With(i, l, new)]
      BY <1>6, <2>2 DEF ReconnectFails, Change
    <3> HIDE DEF t
    <3>3. /\ new \in LoopType /\ new.gen = l.gen /\ new.pc = "wait"
          /\ new.conn = l.conn /\ new.tries = t
      BY <1>1, <3>1 DEF LoopType, LoopPcs
    <3> HIDE DEF new
    <3>4. /\ Counted(With(i, l, new), breaks)
          /\ With(i, l, new).user = r.user /\ With(i, l, new).key = r.key
      BY <1>4, <3>1, <3>3
    <3> QED
      BY <1>1, <3>2, <3>4 DEF Bounded
  <2> QED
    BY <2>1, <2>2
<1> QED
  BY <1>5, <1>6

\* A heartbeat ends.
LEMMA BeatCounts ==
    ASSUME BoundInv, NEW i \in RuntimeIds, Good(runtimes[i]), IsDeribit(i),
           NEW gen, BeatEnds(i, gen)
    PROVE  \E r : /\ Bounded(r, breaks) /\ r.user = runtimes[i].user
                  /\ runtimes' = [runtimes EXCEPT ![i] = r]
<1> DEFINE r == runtimes[i]
           m == [r EXCEPT !.beats = @ \ {gen}]
<1>1. Bounded(r, breaks) /\ r \in RuntimeType /\ r.user \in DeribitUsers
  BY DEF BoundInv, Good, IsDeribit
<1>2. /\ m.loops = r.loops /\ m.stopped = r.stopped /\ m.up = r.up
      /\ m.conn = r.conn /\ m.gen = r.gen /\ m.beats = r.beats \ {gen}
      /\ m.user = r.user /\ m.key = r.key
  BY <1>1 DEF RuntimeType
<1>3. runtimes' = [runtimes EXCEPT ![i] = m]
  BY DEF BeatEnds, Change
<1> HIDE DEF m
<1>4. Bounded(m, breaks)
  BY <1>1, <1>2 DEF Bounded, Counted, Opening
<1> QED
  BY <1>2, <1>3, <1>4

\* The loop of a Binance monitor.
LEMMA UserDataCounts ==
    ASSUME BoundInv, NEW i \in RuntimeIds, Good(runtimes[i]), UserData(i)
    PROVE  \E r : /\ Bounded(r, breaks) /\ r.user = runtimes[i].user
                  /\ runtimes' = [runtimes EXCEPT ![i] = r]
<1> DEFINE r == runtimes[i]
<1>1. Bounded(r, breaks) /\ r \in RuntimeType /\ r.user \notin DeribitUsers
  BY DEF BoundInv, Good, UserData, IsDeribit
<1>2. PICK l \in r.loops : Dial(i, l) \/ Await(i, l)
  BY DEF UserData
<1>3. ASSUME NEW n, n.user = r.user, n.key = r.key, n.gen = 1, n.beats = {},
             n.conn \in {0, 1}, n.conn <= 1,
             \A k \in n.loops : k.gen = 1 /\ k.conn = 0 /\ k.tries = 0
      PROVE  Bounded(n, breaks) /\ n.user = r.user
  BY <1>1, <1>3 DEF Bounded, Single
<1>4. r.gen = 1 /\ r.beats = {} /\ r.conn <= 1 /\ r.conn \in {0, 1}
  BY <1>1 DEF Bounded, Single, RuntimeType
<1>5. \A k \in r.loops : k.gen = 1 /\ k.conn = 0 /\ k.tries = 0
  BY <1>1 DEF Bounded, Single
<1>6. l \in LoopType
  BY <1>1, <1>2 DEF RuntimeType
<1>7. ASSUME NEW n, n = Without(i, l)
      PROVE  Bounded(n, breaks) /\ n.user = r.user
  <2>1. /\ n.user = r.user /\ n.key = r.key /\ n.gen = 1 /\ n.beats = {}
        /\ n.conn = r.conn /\ n.loops = r.loops \ {l}
    BY <1>1, <1>4, <1>7 DEF Without, RuntimeType
  <2> QED
    BY <1>3, <1>4, <1>5, <2>1
<1>8. ASSUME NEW pc \in {"wait", "dial"}, NEW c \in {0, 1}, NEW b, NEW n,
             \/ n = [With(i, l, [l EXCEPT !.pc = pc]) EXCEPT !.conn = c, !.up = b]
             \/ n = [With(i, l, [l EXCEPT !.pc = pc]) EXCEPT !.conn = c]
      PROVE  Bounded(n, breaks) /\ n.user = r.user
  <2> DEFINE new == [l EXCEPT !.pc = pc]
  <2>1. new.gen = 1 /\ new.conn = 0 /\ new.tries = 0
    BY <1>2, <1>5, <1>6 DEF LoopType
  <2> HIDE DEF new
  <2>2. /\ n.user = r.user /\ n.key = r.key /\ n.gen = 1 /\ n.beats = {}
        /\ n.conn = c /\ n.loops = (r.loops \ {l}) \cup {new}
    BY <1>1, <1>4, <1>8 DEF With, RuntimeType, new
  <2>3. n.conn <= 1 /\ n.conn \in {0, 1}
    BY <2>2
  <2> QED
    BY <1>3, <1>5, <2>1, <2>2, <2>3
<1>9. \/ runtimes' = [runtimes EXCEPT ![i] = Without(i, l)]
      \/ runtimes' = [runtimes EXCEPT ![i] = [With(i, l, [l EXCEPT !.pc = "wait"])
                                                EXCEPT !.conn = 1, !.up = TRUE]]
      \/ runtimes' = [runtimes EXCEPT ![i] = [With(i, l, [l EXCEPT !.pc = "dial"])
                                                EXCEPT !.conn = 0]]
  BY <1>2 DEF Dial, Await, Change
<1> QED
  BY <1>7, <1>8, <1>9

\* More broken connections allow more.
LEMMA MoreBreaks ==
    ASSUME NEW r, Good(r), NEW n \in Nat, Bounded(r, n)
    PROVE  Bounded(r, n + 1)
<1>1. r.gen \in Nat
  BY DEF Good, RuntimeType
<1> QED
  BY <1>1 DEF Bounded, Counted

\* A connection of a Deribit monitor breaks, or that of a Binance one.
LEMMA BreakCounts ==
    ASSUME BoundInv, NEW i \in RuntimeIds, Good(runtimes[i]), Break(i)
    PROVE  \E r : /\ Bounded(r, breaks + 1) /\ r.user = runtimes[i].user
                  /\ runtimes' = [runtimes EXCEPT ![i] = r]
<1> DEFINE r == runtimes[i]
           m == [r EXCEPT !.up = FALSE]
<1>1. Bounded(r, breaks) /\ r \in RuntimeType /\ r.gen \in Nat /\ breaks \in Nat
  BY BoundsAssumption DEF BoundInv, Good, RuntimeType
<1>2. /\ m.loops = r.loops /\ m.stopped = r.stopped /\ m.up = FALSE
      /\ m.conn = r.conn /\ m.gen = r.gen /\ m.beats = r.beats
      /\ m.user = r.user /\ m.key = r.key
  BY <1>1 DEF RuntimeType
<1>3. runtimes' = [runtimes EXCEPT ![i] = m]
  BY DEF Break
<1> HIDE DEF m
<1>4. Bounded(m, breaks + 1)
  BY <1>1, <1>2 DEF Bounded, Counted, Single
<1> QED
  BY <1>2, <1>3, <1>4

\* A listen key expires.
LEMMA KeyCounts ==
    ASSUME BoundInv, NEW i \in RuntimeIds, Good(runtimes[i]), KeyExpires(i)
    PROVE  \E r : /\ Bounded(r, breaks) /\ r.user = runtimes[i].user
                  /\ runtimes' = [runtimes EXCEPT ![i] = r]
<1> DEFINE r == runtimes[i]
           m == [r EXCEPT !.lost = TRUE, !.up = FALSE]
<1>1. Bounded(r, breaks) /\ r \in RuntimeType /\ r.user \notin DeribitUsers
  BY DEF BoundInv, Good, KeyExpires, IsDeribit
<1>2. /\ m.loops = r.loops
      /\ m.conn = r.conn /\ m.gen = r.gen /\ m.beats = r.beats
      /\ m.user = r.user /\ m.key = r.key
  BY <1>1 DEF RuntimeType
<1>3. runtimes' = [runtimes EXCEPT ![i] = m]
  BY DEF KeyExpires, Change
<1> HIDE DEF m
<1>4. Bounded(m, breaks)
  BY <1>1, <1>2 DEF Bounded, Single
<1> QED
  BY <1>2, <1>3, <1>4

\* Stop is called of a runtime, and returns.
LEMMA StoppedBounded ==
    ASSUME NEW r, Good(r), NEW n \in Nat, Bounded(r, n)
    PROVE  LET m == [r EXCEPT !.stopped = TRUE]
           IN  Bounded(m, n)
<1> DEFINE m == [r EXCEPT !.stopped = TRUE]
<1>1. /\ m.loops = r.loops /\ m.stopped = TRUE /\ m.up = r.up
      /\ m.conn = r.conn /\ m.gen = r.gen /\ m.beats = r.beats
      /\ m.user = r.user /\ m.key = r.key
  BY DEF Good, RuntimeType
<1> SUFFICES Bounded(m, n)
  BY DEF m
<1> HIDE DEF m
<1>2. Opening(m) => Opening(r)
  BY <1>1 DEF Opening
<1> QED
  BY <1>1, <1>2 DEF Bounded, Counted, Single

LEMMA ClosedBounded ==
    ASSUME NEW r, Good(r), r.stopped, NEW n \in Nat, Bounded(r, n),
           NEW conn, NEW up,
           r.user \in DeribitUsers => conn = 0 /\ up = FALSE,
           r.user \notin DeribitUsers => conn = r.conn
    PROVE  Bounded(AfterStop(r, conn, up), n) /\ AfterStop(r, conn, up).user = r.user
<1> DEFINE m == AfterStop(r, conn, up)
<1>1. /\ m.loops = r.loops /\ m.stopped = TRUE /\ m.up = up
      /\ m.conn = conn /\ m.gen = r.gen /\ m.beats = r.beats
      /\ m.user = r.user /\ m.key = r.key
  BY DEF Good, RuntimeType, AfterStop
<1> SUFFICES Bounded(m, n) /\ m.user = r.user
  BY DEF m
<1> HIDE DEF m
<1>2. Opening(m) => Opening(r)
  BY <1>1 DEF Opening
<1>3. r.user \in DeribitUsers => Counted(m, n)
  BY <1>1, <1>2 DEF Bounded, Counted
<1>4. r.user \notin DeribitUsers => Single(m)
  BY <1>1 DEF Bounded, Single
<1> QED
  BY <1>1, <1>3, <1>4 DEF Bounded

\* A runtime that starts.
LEMMA StartBounded ==
    ASSUME NEW u \in Users, NEW key \in Keys \ {0}, NEW n \in Nat
    PROVE  Bounded(Runtime(u, key, IF u \in DeribitUsers THEN "check" ELSE "dial"), n)
<1> DEFINE pc == IF u \in DeribitUsers THEN "check" ELSE "dial"
           m == Runtime(u, key, pc)
           l == Loop(1, pc)
<1>1. /\ l.gen = 1 /\ l.conn = 0 /\ l.tries = 0 /\ l.pc = pc
      /\ m.loops = {l} /\ m.user = u /\ m.key = key /\ m.gen = 1
      /\ m.conn = (IF u \in DeribitUsers THEN 1 ELSE 0) /\ m.up = (u \in DeribitUsers)
      /\ m.beats = (IF u \in DeribitUsers THEN {1} ELSE {})
  BY DEF Loop, Runtime
<1> HIDE DEF m, l
<1>2. CASE u \in DeribitUsers
  <2>1. ~Opening(m) /\ pc = "check"
    BY <1>1, <1>2 DEF Opening
  <2>2. Counted(m, n)
    BY <1>1, <1>2, <2>1, BoundsAssumption DEF Counted
  <2>3. Bounded(m, n)
    BY <1>1, <1>2, <2>2 DEF Bounded
  <2> QED
    BY <2>3 DEF m
<1>3. CASE u \notin DeribitUsers
  <2>1. Single(m)
    BY <1>1, <1>3 DEF Single
  <2>2. Bounded(m, n)
    BY <1>1, <1>3, <2>1 DEF Bounded
  <2> QED
    BY <2>2 DEF m
<1> QED
  BY <1>2, <1>3

\* One runtime in another state.
LEMMA BoundChanged ==
    ASSUME OrderInv, BoundInv, NEW i \in RuntimeIds, NEW r, Bounded(r, breaks),
           runtimes' = [runtimes EXCEPT ![i] = r], ListOK(manager'),
           UNCHANGED <<accounts, reloads, breaks>>
    PROVE  BoundInv'
<1>1. /\ Len(runtimes') = Len(runtimes)
      /\ \A j \in RuntimeIds : runtimes'[j] = IF j = i THEN r ELSE runtimes[j]
  <2> DEFINE S == RuntimeType \cup {r}
  <2>1. runtimes \in Seq(S) /\ r \in S
    BY SeqMonotonic DEF OrderInv
  <2> QED
    BY <2>1, ExceptSeq DEF RuntimeIds
<1>2. RuntimeIds' = RuntimeIds
  BY <1>1 DEF RuntimeIds
<1>3. \A j \in RuntimeIds : Bounded(runtimes'[j], breaks)
  BY <1>1 DEF BoundInv
<1> QED
  BY <1>2, <1>3 DEF BoundInv

\* The manager goes on with its lists, and tells a runtime to stop.
LEMMA ReconcileBounds ==
    ASSUME OrderInv, BoundInv,
           \/ ReconcileBegin \/ ReconcileRemoved \/ StartFails
           \/ \E u \in Users : ReconcileUser(u)
    PROVE  BoundInv'
<1>1. /\ ManagerOK(manager) /\ ListOK(manager)
      /\ accounts \in [Users -> Nat] /\ reloads \in Nat /\ breaks \in Nat
      /\ entries \in [Users -> 0 .. Len(runtimes)] /\ Len(runtimes) \in Nat
  BY EntriesFacts, BoundsAssumption DEF OrderInv, BoundInv
<1>2. UNCHANGED <<accounts, reloads, breaks>>
  BY DEF ReconcileBegin, ReconcileRemoved, StartFails, ReconcileUser
<1>3. ASSUME UNCHANGED runtimes, ListOK(manager')
      PROVE  BoundInv'
  BY <1>2, <1>3 DEF BoundInv, RuntimeIds
<1>4. ASSUME manager.pc = "users", NEW u \in Users, entries[u] # 0, SignalStop(u)
      PROVE  BoundInv'
  <2> DEFINE i == entries[u]
             r == [runtimes[i] EXCEPT !.stopped = TRUE]
  <2>1. i \in RuntimeIds
    BY <1>1, <1>4 DEF RuntimeIds
  <2>2. Bounded(r, breaks)
    BY <1>1, <2>1, StoppedBounded DEF OrderInv, BoundInv
  <2>3. runtimes' = [runtimes EXCEPT ![i] = r]
    BY <1>4 DEF SignalStop
  <2>4. ListOK(manager')
    BY <1>1, <1>4 DEF SignalStop, ForUser, ListOK
  <2> HIDE DEF r, i
  <2> QED
    BY <1>2, <2>1, <2>2, <2>3, <2>4, BoundChanged
<1>5. CASE ReconcileBegin
  <2>1. UNCHANGED runtimes
    BY <1>5 DEF ReconcileBegin
  <2>2. accounts \in [Users -> Keys]
    BY <1>1, BoundsAssumption DEF BoundInv, Keys
  <2>3. ListOK(manager')
    BY <1>5, <2>2 DEF ReconcileBegin, ListOK
  <2> QED
    BY <1>3, <2>1, <2>3
<1>6. CASE ReconcileRemoved
  BY <1>3, <1>4, <1>6 DEF ReconcileRemoved, ReconcileEnds, ListOK
<1>7. CASE StartFails
  BY <1>3, <1>7 DEF StartFails, ReconcileEnds, ListOK
<1>8. ASSUME NEW u \in Users, ReconcileUser(u)
      PROVE  BoundInv'
  <2>1. CASE entries[u] = 0
    <3>1. manager' = ForUser(u, "start") /\ UNCHANGED runtimes
      BY <1>8, <2>1 DEF ReconcileUser
    <3>2. ListOK(manager')
      BY <1>1, <1>8, <3>1 DEF ReconcileUser, ListOK, ForUser
    <3> QED
      BY <1>3, <3>1, <3>2
  <2>2. CASE entries[u] # 0 /\ runtimes[entries[u]].key = manager.list[u]
    <3>1. manager' = [manager EXCEPT !.todo = @ \ {u}] /\ UNCHANGED runtimes
      BY <1>8, <2>2 DEF ReconcileUser
    <3>2. manager.pc = "users" /\ {"pc", "list", "todo"} \subseteq DOMAIN manager
      BY <1>1, <1>8 DEF ReconcileUser, ManagerOK
    <3>3. /\ manager'.pc = "users" /\ manager'.list = manager.list
          /\ manager'.todo = manager.todo \ {u}
      BY <3>1, <3>2
    <3>4. ListOK(manager')
      BY <1>1, <3>2, <3>3 DEF ListOK
    <3> QED
      BY <1>3, <3>1, <3>4
  <2>3. CASE entries[u] # 0 /\ runtimes[entries[u]].key # manager.list[u]
    BY <1>4, <1>8, <2>3 DEF ReconcileUser
  <2> QED
    BY <2>1, <2>2, <2>3
<1> QED
  BY <1>5, <1>6, <1>7, <1>8

\* Stop returns.
LEMMA FinishStopBounds ==
    ASSUME OrderInv, BoundInv, FinishStop
    PROVE  BoundInv'
<1> DEFINE u == manager.user
           i == entries[u]
           q == runtimes[i]
           c == IF IsDeribit(i) THEN 0 ELSE q.conn
           b == IF IsDeribit(i) THEN FALSE ELSE q.up
<1>1. Managed(manager, entries, runtimes) /\ ManagerOK(manager) /\ manager.pc = "stop"
  BY DEF OrderInv, FinishStop
<1>2. u \in Users /\ i # 0 /\ q.stopped
  BY <1>1 DEF ManagerOK, Managed
<1>3. /\ i \in RuntimeIds /\ Good(q) /\ Bounded(q, breaks)
      /\ breaks \in Nat
  BY <1>1, <1>2, BoundsAssumption DEF OrderInv, Managed, RuntimeIds, BoundInv
<1>4. /\ q.user \in DeribitUsers => c = 0 /\ b = FALSE
      /\ q.user \notin DeribitUsers => c = q.conn
  BY DEF IsDeribit
<1>5. runtimes' = [runtimes EXCEPT ![i] = AfterStop(q, c, b)]
  BY DEF FinishStop, AfterStop
<1> HIDE DEF c, b
<1>6. Bounded(AfterStop(q, c, b), breaks)
  BY <1>2, <1>3, <1>4, ClosedBounded
<1>7. ListOK(manager')
  <2>1. ListOK(manager) /\ manager.pc = "stop"
    BY <1>1 DEF BoundInv
  <2>2. manager' = IF manager.list[u] = 0
                   THEN [pc |-> "users", list |-> manager.list, todo |-> {}]
                   ELSE ForUser(u, "start")
    BY DEF FinishStop
  <2> QED
    BY <2>1, <2>2 DEF ListOK, ForUser
<1>8. UNCHANGED <<accounts, reloads, breaks>>
  BY DEF FinishStop
<1> HIDE DEF i, q
<1> QED
  BY <1>3, <1>5, <1>6, <1>7, <1>8, BoundChanged

\* A runtime is started.
LEMMA StartRuntimeBounds ==
    ASSUME OrderInv, BoundInv, StartRuntime
    PROVE  BoundInv'
<1> DEFINE u == manager.user
           key == manager.list[u]
           r == Runtime(u, key, IF u \in DeribitUsers THEN "check" ELSE "dial")
           n == Len(runtimes) + 1
<1>1. /\ ManagerOK(manager) /\ ListOK(manager) /\ manager.pc = "start"
      /\ breaks \in Nat
  BY BoundsAssumption DEF OrderInv, BoundInv, StartRuntime
<1>2. u \in Users /\ key \in Keys \ {0}
  BY <1>1 DEF ManagerOK, ListOK
<1>3. Bounded(r, breaks)
  BY <1>1, <1>2, StartBounded
<1>4. runtimes' = Append(runtimes, r)
  BY DEF StartRuntime
<1>5. ListOK(manager')
  BY <1>1 DEF StartRuntime, ListOK
<1>6. UNCHANGED <<accounts, reloads, breaks>>
  BY DEF StartRuntime
<1> HIDE DEF r
<1>7. /\ Len(runtimes') = n /\ runtimes'[n] = r
      /\ \A j \in RuntimeIds : runtimes'[j] = runtimes[j]
      /\ Len(runtimes) \in Nat
  <2> DEFINE S == RuntimeType \cup {r}
  <2>1. runtimes \in Seq(S) /\ r \in S
    BY SeqMonotonic DEF OrderInv
  <2> HIDE DEF S
  <2> QED
    BY <1>4, <2>1, AppendProperties, LenProperties DEF RuntimeIds
<1>8. RuntimeIds' = RuntimeIds \cup {n}
  BY <1>7 DEF RuntimeIds
<1>9. \A j \in RuntimeIds' : Bounded(runtimes'[j], breaks')
  BY <1>3, <1>6, <1>7, <1>8 DEF BoundInv
<1> QED
  BY <1>5, <1>6, <1>9 DEF BoundInv

\* The users are read again.
LEMMA ReloadBounds ==
    ASSUME OrderInv, BoundInv, NEW u \in Users, ReloadUsers(u)
    PROVE  BoundInv'
<1>1. /\ accounts \in [Users -> Nat] /\ reloads \in Nat /\ reloads < MaxReloads
      /\ reloads' = reloads + 1
      /\ UNCHANGED <<manager, runtimes, breaks>>
  BY BoundsAssumption DEF OrderInv, BoundInv, ReloadUsers
<1>2. PICK key \in {0, accounts[u] + 1} : accounts' = [accounts EXCEPT ![u] = key]
  BY DEF ReloadUsers
<1>3. \A v \in Users : accounts'[v] <= reloads' + 1
  <2>1. accounts[u] \in Nat /\ accounts[u] <= reloads + 1
    BY <1>1 DEF BoundInv
  <2>2. key \in Nat /\ key <= reloads + 2
    BY <1>1, <1>2, <2>1
  <2>3. \A v \in Users : accounts[v] \in Nat /\ accounts[v] <= reloads + 1
    BY <1>1 DEF BoundInv
  <2>4. \A v \in Users : accounts'[v] = IF v = u THEN key ELSE accounts[v]
    BY <1>1, <1>2
  <2> QED
    BY <1>1, <2>2, <2>3, <2>4
<1>4. reloads' \in 0 .. MaxReloads
  BY <1>1, BoundsAssumption
<1> QED
  BY <1>1, <1>3, <1>4 DEF BoundInv, RuntimeIds

\* A step of one runtime.
LEMMA RuntimeBounds ==
    ASSUME OrderInv, BoundInv, NEW i \in RuntimeIds,
           \/ Monitor(i) \/ UserData(i) \/ Break(i) \/ KeyExpires(i)
           \/ IsDeribit(i) /\ \E l \in runtimes[i].loops : ReconnectFails(i, l)
    PROVE  BoundInv'
<1>1. Good(runtimes[i]) /\ ListOK(manager)
  BY DEF OrderInv, BoundInv
<1>2. UNCHANGED <<accounts, manager, reloads>>
  BY DEF Monitor, UserData, Break, KeyExpires, LoopCheck, ReadError,
         ReconnectCheck, Reconnect, ReconnectFails, BeatEnds, Dial, Await, Change
<1>3. CASE ~Break(i)
  <2>1. \E r : /\ Bounded(r, breaks) /\ r.user = runtimes[i].user
               /\ runtimes' = [runtimes EXCEPT ![i] = r]
    BY <1>1, <1>3, LoopCounts, ReconnectCounts, BeatCounts, UserDataCounts, KeyCounts
       DEF Monitor
  <2>2. breaks' = breaks
    BY <1>3 DEF Monitor, UserData, KeyExpires, LoopCheck, ReadError,
         ReconnectCheck, Reconnect, ReconnectFails, BeatEnds, Dial, Await, Change
  <2> QED
    BY <1>1, <1>2, <2>1, <2>2, BoundChanged
<1>4. CASE Break(i)
  <2>1. PICK r : Bounded(r, breaks + 1) /\ runtimes' = [runtimes EXCEPT ![i] = r]
    BY <1>1, <1>4, BreakCounts
  <2>2. /\ Len(runtimes') = Len(runtimes)
        /\ \A j \in RuntimeIds : runtimes'[j] = IF j = i THEN r ELSE runtimes[j]
    <3> DEFINE S == RuntimeType \cup {r}
    <3>1. runtimes \in Seq(S) /\ r \in S
      BY SeqMonotonic DEF OrderInv
    <3> QED
      BY <2>1, <3>1, ExceptSeq DEF RuntimeIds
  <2>3. breaks \in Nat /\ breaks' = breaks + 1 /\ breaks' \in 0 .. MaxBreaks
    BY <1>4, BoundsAssumption DEF Break, BoundInv
  <2>4. RuntimeIds' = RuntimeIds
    BY <2>2 DEF RuntimeIds
  <2>5. \A j \in RuntimeIds : Bounded(runtimes'[j], breaks')
    BY <2>1, <2>2, <2>3, MoreBreaks DEF BoundInv, OrderInv
  <2> QED
    BY <1>1, <1>2, <2>3, <2>4, <2>5 DEF BoundInv
<1> QED
  BY <1>3, <1>4

\* The bounds hold at the start, and every step keeps them.
LEMMA BoundInit == Init => BoundInv
<1> SUFFICES ASSUME Init
             PROVE  BoundInv
  OBVIOUS
<1>1. /\ reloads \in 0 .. MaxReloads /\ reloads \in Nat /\ breaks \in 0 .. MaxBreaks
      /\ accounts \in [Users -> {0, 1}]
  BY BoundsAssumption DEF Init
<1>2. ListOK(manager)
  BY DEF Init, ListOK
<1>3. RuntimeIds = {}
  <2>1. Len(runtimes) = 0
    BY DEF Init
  <2> QED
    BY <2>1 DEF RuntimeIds
<1>4. \A u \in Users : accounts[u] <= reloads + 1
  <2> SUFFICES ASSUME NEW u \in Users
               PROVE  accounts[u] <= reloads + 1
    OBVIOUS
  <2>1. accounts[u] \in {0, 1}
    BY <1>1
  <2> QED
    BY <1>1, <2>1
<1> QED
  BY <1>1, <1>2, <1>3, <1>4 DEF BoundInv

LEMMA BoundStep == OrderInv /\ BoundInv /\ [Next]_vars => BoundInv'
<1> SUFFICES ASSUME OrderInv, BoundInv, [Next]_vars
             PROVE  BoundInv'
  OBVIOUS
<1>1. CASE Manage \/ StartFails
  BY <1>1, ReconcileBounds, FinishStopBounds, StartRuntimeBounds DEF Manage
<1>2. CASE \E u \in Users : ReloadUsers(u)
  BY <1>2, ReloadBounds
<1>3. ASSUME NEW i \in RuntimeIds,
             \/ Monitor(i) \/ UserData(i) \/ Break(i) \/ KeyExpires(i)
             \/ IsDeribit(i) /\ \E l \in runtimes[i].loops : ReconnectFails(i, l)
      PROVE  BoundInv'
  BY <1>3, RuntimeBounds
<1>4. CASE \/ \E options \in SUBSET Options : Trade(options)
           \/ Prices \/ ClearConnection
           \/ \E o \in Options : SubscribeFails(o)
           \/ UNCHANGED vars
  <2>1. UNCHANGED <<accounts, manager, runtimes, reloads, breaks>>
    BY <1>4 DEF Prices, Trade, PriceStart, EnsureSubscribed, Subscribe,
                SubscribeFails, ClearConnection, orderVars, vars
  <2> QED
    BY <2>1 DEF BoundInv, RuntimeIds
<1>5. CASE PriceBreak
  <2>1. UNCHANGED <<accounts, manager, runtimes, reloads>>
    BY <1>5 DEF PriceBreak, orderVars
  <2>2. breaks \in Nat /\ breaks' = breaks + 1 /\ breaks' \in 0 .. MaxBreaks
    BY <1>5, BoundsAssumption DEF PriceBreak, BoundInv
  <2>3. \A i \in RuntimeIds : Bounded(runtimes[i], breaks + 1)
    BY <2>2, MoreBreaks DEF BoundInv, OrderInv
  <2> QED
    BY <2>1, <2>2, <2>3 DEF BoundInv, RuntimeIds
<1> QED
  BY <1>1, <1>2, <1>3, <1>4, <1>5 DEF Next

\* Where the risk cycle stands.
PhaseOK == cycle.pc \in {"start", "off", "idle", "subscribe"}

LEMMA PhaseStep == PhaseOK /\ [Next]_vars => PhaseOK'
<1> SUFFICES ASSUME PhaseOK, [Next]_vars
             PROVE  PhaseOK'
  OBVIOUS
<1>1. \A S : SubscribeTo(S).pc \in {"idle", "subscribe"}
  BY DEF SubscribeTo
<1>2. CASE Prices \/ \E o \in Options : SubscribeFails(o)
  <2>1. \/ \E S : cycle' = SubscribeTo(S)
        \/ cycle' = [pc |-> "idle"]
    BY <1>2 DEF Prices, PriceStart, EnsureSubscribed, Subscribe, SubscribeFails
  <2> QED
    BY <1>1, <2>1 DEF PhaseOK
<1>3. CASE UNCHANGED cycle
  BY <1>3 DEF PhaseOK
<1>4. CASE \/ \E options \in SUBSET Options : Trade(options)
           \/ ClearConnection \/ PriceBreak \/ UNCHANGED vars
  BY <1>3, <1>4 DEF Trade, ClearConnection, PriceBreak, vars
<1>5. CASE \/ Manage \/ StartFails
           \/ \E u \in Users : ReloadUsers(u)
  <2>1. UNCHANGED priceVars
    BY <1>5 DEF Manage, StartFails, ReloadUsers, ReconcileBegin, ReconcileUser,
                ReconcileRemoved, FinishStop, StartRuntime
  <2> QED
    BY <1>3, <2>1 DEF priceVars
<1>6. ASSUME NEW i \in RuntimeIds,
             \/ Monitor(i) \/ UserData(i) \/ Break(i) \/ KeyExpires(i)
             \/ IsDeribit(i) /\ \E l \in runtimes[i].loops : ReconnectFails(i, l)
      PROVE  PhaseOK'
  <2>1. UNCHANGED priceVars
    BY <1>6 DEF Monitor, UserData, Break, KeyExpires, LoopCheck, ReadError,
                ReconnectCheck, Reconnect, ReconnectFails, BeatEnds, Dial, Await, Change
  <2> QED
    BY <1>3, <2>1 DEF priceVars
<1> QED
  BY <1>2, <1>4, <1>5, <1>6 DEF Next

\* A runtime within its bounds has the type that TypeOK gives it.
LEMMA RuntimeTyped ==
    ASSUME NEW r, Good(r), NEW n \in 0 .. MaxBreaks, Bounded(r, n)
    PROVE  r \in [user : Users, key : Keys \ {0}, stopped : BOOLEAN,
                  closed : BOOLEAN, conn : 0 .. MaxBreaks + 1, up : BOOLEAN,
                  gen : 1 .. MaxBreaks + 1, lost : BOOLEAN,
                  loops : SUBSET [gen : 1 .. MaxBreaks + 1, pc : LoopPcs,
                                  conn : 0 .. MaxBreaks + 1, tries : 0 .. MaxTries - 1],
                  beats : SUBSET (1 .. MaxBreaks + 1)]
<1> DEFINE top == MaxBreaks + 1
<1>1. r \in RuntimeType /\ r.gen \in Nat /\ r.conn \in Nat /\ r.key \in Keys \ {0}
  BY DEF Good, RuntimeType, Bounded
<1>2. MaxBreaks \in Nat /\ MaxTries \in Nat \ {0} /\ n \in Nat /\ n + 1 <= top /\ top \in Nat
  BY BoundsAssumption
<1>3. \A l \in r.loops : /\ l \in LoopType
                         /\ l.gen \in Nat /\ l.conn \in Nat /\ l.tries \in Nat
  BY <1>1 DEF RuntimeType, LoopType
<1>4. /\ r.gen > 0 /\ r.gen <= top /\ r.conn <= top
      /\ \A l \in r.loops : l.gen > 0 /\ l.gen <= top /\ l.conn <= top /\ l.tries < MaxTries
      /\ r.beats \subseteq 1 .. r.gen
  <2>1. CASE r.user \in DeribitUsers
    <3>1. Attended(r) /\ Counted(r, n)
      BY <2>1 DEF Good, Bounded
    <3>2. r.gen <= top /\ r.conn <= r.gen /\ r.gen > 0 /\ r.beats \subseteq 1 .. r.gen
      BY <1>1, <1>2, <3>1 DEF Attended, Counted
    <3>3. \A l \in r.loops : l.gen > 0 /\ l.gen <= r.gen /\ l.conn <= r.gen /\ l.tries < MaxTries
      BY <3>1 DEF Attended, Counted
    <3> HIDE DEF top
    <3> QED
      BY <1>1, <1>2, <1>3, <3>2, <3>3
  <2>2. CASE r.user \notin DeribitUsers
    BY <1>1, <1>2, <1>3, <2>2 DEF Bounded, Single
  <2> QED
    BY <2>1, <2>2
<1> HIDE DEF top
<1>5. r.loops \in SUBSET [gen : 1 .. top, pc : LoopPcs, conn : 0 .. top, tries : 0 .. MaxTries - 1]
  <2> SUFFICES ASSUME NEW l \in r.loops
               PROVE  l \in [gen : 1 .. top, pc : LoopPcs, conn : 0 .. top,
                             tries : 0 .. MaxTries - 1]
    OBVIOUS
  <2>1. l.gen \in 1 .. top /\ l.conn \in 0 .. top /\ l.tries \in 0 .. MaxTries - 1
    BY <1>2, <1>3, <1>4
  <2> QED
    BY <1>3, <2>1 DEF LoopType
<1>6. r.gen \in 1 .. top /\ r.conn \in 0 .. top /\ r.beats \in SUBSET (1 .. top)
  BY <1>1, <1>2, <1>4
<1> QED
  BY <1>1, <1>5, <1>6 DEF RuntimeType, top

\* The types and bounds of all variables: no runtime is started without
\* credentials, and a Deribit monitor connects once more than connections have
\* been broken, at most.
THEOREM TypeInvariant == Spec => []TypeOK
<1>1. Init => BoundInv /\ PhaseOK
  BY BoundInit DEF Init, PhaseOK
<1>2. OrderInv /\ (BoundInv /\ PhaseOK) /\ [Next]_vars => (BoundInv /\ PhaseOK)'
  BY BoundStep, PhaseStep
<1>3. OrderInv /\ PriceInv /\ BoundInv /\ PhaseOK => TypeOK
  <2> SUFFICES ASSUME OrderInv, PriceInv, BoundInv, PhaseOK
               PROVE  TypeOK
    OBVIOUS
  <2> DEFINE T == [user : Users, key : Keys \ {0}, stopped : BOOLEAN,
                   closed : BOOLEAN, conn : 0 .. MaxBreaks + 1, up : BOOLEAN,
                   gen : 1 .. MaxBreaks + 1, lost : BOOLEAN,
                   loops : SUBSET [gen : 1 .. MaxBreaks + 1, pc : LoopPcs,
                                   conn : 0 .. MaxBreaks + 1, tries : 0 .. MaxTries - 1],
                   beats : SUBSET (1 .. MaxBreaks + 1)]
  <2>1. \A i \in RuntimeIds : runtimes[i] \in T
    BY RuntimeTyped DEF OrderInv, BoundInv
  <2> HIDE DEF T
  <2>2. runtimes \in Seq(T)
    <3>1. runtimes \in [1 .. Len(runtimes) -> RuntimeType] /\ Len(runtimes) \in Nat
      BY LenProperties DEF OrderInv
    <3>2. runtimes \in [1 .. Len(runtimes) -> T]
      BY <2>1, <3>1 DEF RuntimeIds
    <3> QED
      BY <3>1, <3>2, SeqDef
  <2>3. accounts \in [Users -> Keys]
    <3>1. /\ accounts \in [Users -> Nat] /\ reloads \in Nat /\ reloads <= MaxReloads
          /\ MaxReloads \in Nat /\ \A u \in Users : accounts[u] <= reloads + 1
      BY BoundsAssumption DEF OrderInv, BoundInv
    <3> QED
      BY <3>1 DEF Keys
  <2>4. /\ manager.pc \in {"idle", "users", "stop", "start"}
        /\ entries \in [Users -> 0 .. Len(runtimes)]
    BY EntriesFacts DEF BoundInv, ListOK
  <2> QED
    BY <2>2, <2>3, <2>4 DEF TypeOK, PriceInv, PhaseOK, T
<1> QED
  BY <1>1, <1>2, <1>3, StreamsInvariant, PTL DEF Spec
=============================================================================
