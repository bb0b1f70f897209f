------------------------- MODULE DeribitSync_proofs ------------------------
(***************************************************************************)
(* Proofs about DeribitSync for every set of options and initial rows, any *)
(* positions, trades and faults.                                           *)
(*                                                                         *)
(* The first part shows that DeribitSync implements NameRegistry: however  *)
(* two syncs interleave their get-or-create calls, strategies and user     *)
(* strategies get one row for each name.  The second is about the rows of  *)
(* positions: types, and what a sync that nothing disturbs does to them.   *)
(***************************************************************************)
EXTENDS DeribitSync, FoldLemmas

TableIds == 1 .. Len(Tables)
Entry == [TableIds -> [Options -> {0, 1}]]

\* A sync with its lists, one with a row in hand; all that they name are
\* options, and the tables that a row is past have their entry in reg.
SyncOK(s, reg) ==
    /\ "pc" \in DOMAIN s
    /\ s.pc \in {"work", "check", "create"} =>
         /\ {"create", "adjust"} \subseteq DOMAIN s
         /\ \A r \in s.create \cup s.adjust : r.option \in Options
    /\ s.pc \in {"check", "create"} =>
         /\ {"row", "table"} \subseteq DOMAIN s
         /\ s.table \in TableIds
         /\ s.row.option \in Options
         /\ \A t \in TableIds : t < s.table => reg[t][s.row.option] = 1

\* The inductive invariant, of all syncs and the registry.
OK(ss, reg) ==
    /\ reg \in Entry
    /\ DOMAIN ss = Syncs
    /\ \A p \in Syncs : SyncOK(ss[p], reg)

RegistryInv == OK(syncs, registry)

\* There are two tables.
LEMMA TwoTables == Len(Tables) = 2 /\ TableIds = {1, 2}
  BY DEF Tables, TableIds

\* An entry of a registry, and a registry with one more.
LEMMA EntryType ==
    ASSUME NEW reg \in Entry, NEW t \in TableIds, NEW o \in Options
    PROVE  /\ reg[t][o] \in {0, 1}
           /\ [reg EXCEPT ![t][o] = 1] \in Entry
           /\ [reg EXCEPT ![t][o] = 1][t][o] = 1
           /\ \A u \in TableIds, x \in Options :
                reg[u][x] = 1 => [reg EXCEPT ![t][o] = 1][u][x] = 1
  BY DEF Entry

\* What holds of a sync holds when more entries are there.
LEMMA SyncOKMore ==
    ASSUME NEW s, NEW reg, NEW more,
           \A t \in TableIds, o \in Options : reg[t][o] = 1 => more[t][o] = 1,
           SyncOK(s, reg)
    PROVE  SyncOK(s, more)
  BY DEF SyncOK

\* What is kept of a sync that only differs in what the invariant leaves open.
LEMMA SameOK ==
    ASSUME NEW s, NEW n, NEW reg, SyncOK(s, reg),
           DOMAIN n = DOMAIN s,
           \A f \in DOMAIN s : f \notin {"quiet", "delete"} => n[f] = s[f]
    PROVE  SyncOK(n, reg)
<1>1. "pc" \in DOMAIN n /\ n.pc = s.pc
  BY DEF SyncOK
<1>2. CASE s.pc \in {"work", "check", "create"}
  <2>1. {"create", "adjust"} \subseteq DOMAIN s
    BY <1>2 DEF SyncOK
  <2>2. n.create = s.create /\ n.adjust = s.adjust
    BY <2>1
  <2>3. CASE s.pc = "work"
    BY <1>1, <2>1, <2>2, <2>3 DEF SyncOK
  <2>4. CASE s.pc # "work"
    <3>1. {"row", "table"} \subseteq DOMAIN s
      BY <1>2, <2>4 DEF SyncOK
    <3>2. n.row = s.row /\ n.table = s.table
      BY <3>1
    <3> QED
      BY <1>1, <2>1, <2>2, <3>1, <3>2 DEF SyncOK
  <2> QED
    BY <2>3, <2>4
<1>3. CASE s.pc \notin {"work", "check", "create"}
  BY <1>1, <1>3 DEF SyncOK
<1> QED
  BY <1>2, <1>3

\* The two fields that the invariant leaves open.
LEMMA QuietOK ==
    ASSUME NEW s, NEW v, NEW reg, SyncOK(s, reg)
    PROVE  SyncOK([s EXCEPT !.quiet = v], reg)
<1> DEFINE n == [s EXCEPT !.quiet = v]
<1>1. DOMAIN n = DOMAIN s /\ \A f \in DOMAIN s : f # "quiet" => n[f] = s[f]
  OBVIOUS
<1> QED
  BY <1>1, SameOK

LEMMA DeleteOK ==
    ASSUME NEW s, NEW v, NEW reg, SyncOK(s, reg)
    PROVE  SyncOK([s EXCEPT !.delete = v], reg)
<1> DEFINE n == [s EXCEPT !.delete = v]
<1>1. DOMAIN n = DOMAIN s /\ \A f \in DOMAIN s : f # "delete" => n[f] = s[f]
  OBVIOUS
<1> QED
  BY <1>1, SameOK

\* What is kept when one sync goes on, and no entry is taken away.
LEMMA GotoOK ==
    ASSUME NEW ss, NEW reg, OK(ss, reg), NEW p \in Syncs, NEW s, NEW more \in Entry,
           SyncOK(s, more),
           \A t \in TableIds, o \in Options : reg[t][o] = 1 => more[t][o] = 1
    PROVE  OK([ss EXCEPT ![p] = s], more)
<1>1. DOMAIN [ss EXCEPT ![p] = s] = Syncs
  BY DEF OK
<1>2. ASSUME NEW q \in Syncs
      PROVE  SyncOK([ss EXCEPT ![p] = s][q], more)
  <2>1. CASE q = p
    BY <2>1 DEF OK
  <2>2. CASE q # p
    <3>1. [ss EXCEPT ![p] = s][q] = ss[q] /\ SyncOK(ss[q], reg)
      BY <2>2 DEF OK
    <3> QED
      BY <3>1, SyncOKMore
  <2> QED
    BY <2>1, <2>2
<1> QED
  BY <1>1, <1>2 DEF OK

\* What is kept when the syncs are only told that they are disturbed.
LEMMA DisturbedOK ==
    ASSUME OK(syncs, registry)
    PROVE  OK(Disturbed, registry)
<1>1. ASSUME NEW p \in Syncs
      PROVE  SyncOK(Disturbed[p], registry)
  <2>1. SyncOK(syncs[p], registry)
    BY DEF OK
  <2>2. Disturbed[p] \in {syncs[p], [syncs[p] EXCEPT !.quiet = FALSE]}
    BY DEF Disturbed
  <2> QED
    BY <2>1, <2>2, QuietOK
<1>2. DOMAIN Disturbed = Syncs
  BY DEF Disturbed
<1> QED
  BY <1>1, <1>2 DEF OK

\* A sync with its lists, and one that has a row of them in hand.
LEMMA ListsOK ==
    ASSUME NEW s, NEW reg,
           \A r \in s.create \cup s.adjust : r.option \in Options
    PROVE  SyncOK(Lists(s), reg)
  BY DEF SyncOK, Lists

\* A row in hand, before the call that is about the given table.
LEMMA InHandOK ==
    ASSUME NEW s, NEW reg, NEW row, row.option \in Options,
           \A r \in s.create \cup s.adjust : r.option \in Options,
           NEW table \in TableIds,
           \A t \in TableIds : t < table => reg[t][row.option] = 1
    PROVE  SyncOK(RowInHand(s, "check", row, table), reg)
<1> DEFINE n == RowInHand(s, "check", row, table)
<1>1. /\ DOMAIN n = {"pc", "quiet", "create", "delete", "adjust", "row", "table"}
      /\ n.pc = "check" /\ n.row = row /\ n.table = table
      /\ n.create = s.create \ {row} /\ n.adjust = s.adjust \ {row}
  BY DEF RowInHand
<1>2. \A r \in n.create \cup n.adjust : r.option \in Options
  BY <1>1
<1> HIDE DEF n
<1> QED
  BY <1>1, <1>2 DEF SyncOK, n

\* The answer to a call, once the entry that it is about is there.
LEMMA AnswerOK ==
    ASSUME RegistryInv, NEW p \in Syncs, syncs[p].pc \in {"check", "create"},
           Answer(p), registry' \in Entry,
           \A t \in TableIds, o \in Options : registry[t][o] = 1 => registry'[t][o] = 1,
           registry'[syncs[p].table][syncs[p].row.option] = 1
    PROVE  RegistryInv'
<1> DEFINE s == syncs[p]
<1>0. OK(syncs, registry)
  BY DEF RegistryInv
<1>1. SyncOK(s, registry)
  BY DEF RegistryInv, OK
<1>2. /\ \A r \in s.create \cup s.adjust : r.option \in Options
      /\ s.table \in TableIds
      /\ s.row.option \in Options
      /\ \A t \in TableIds : t < s.table => registry[t][s.row.option] = 1
  BY <1>1 DEF SyncOK
<1>3. CASE s.table < Len(Tables)
  <2>1. syncs' = [syncs EXCEPT ![p] = RowInHand(s, "check", s.row, s.table + 1)]
    BY <1>3 DEF Answer, Goto
  <2>2. s.table + 1 \in TableIds
    BY <1>2, <1>3, TwoTables
  <2>3. \A t \in TableIds : t < s.table + 1 => registry'[t][s.row.option] = 1
    BY <1>2, TwoTables
  <2>4. SyncOK(RowInHand(s, "check", s.row, s.table + 1), registry')
    BY <1>2, <2>2, <2>3, InHandOK
  <2>5. OK([syncs EXCEPT ![p] = RowInHand(s, "check", s.row, s.table + 1)], registry')
    BY <1>0, <2>4, GotoOK
  <2> QED
    BY <2>1, <2>5 DEF RegistryInv
<1>4. CASE ~(s.table < Len(Tables))
  <2>1. syncs' = [syncs EXCEPT ![p] = Lists(s)]
    BY <1>4 DEF Answer, Goto
  <2>2. SyncOK(Lists(s), registry')
    BY <1>2, ListsOK
  <2>3. OK([syncs EXCEPT ![p] = Lists(s)], registry')
    BY <1>0, <2>2, GotoOK
  <2> QED
    BY <2>1, <2>3 DEF RegistryInv
<1> QED
  BY <1>3, <1>4
-----------------------------------------------------------------------------
\* At the start the registry is empty and no sync has a row in hand.
LEMMA InitOK == Init => RegistryInv
<1> SUFFICES ASSUME Init PROVE RegistryInv
  OBVIOUS
<1>1. registry \in Entry
  BY DEF Init, Entry, TableIds
<1>2. ASSUME NEW p \in Syncs
      PROVE  SyncOK(syncs[p], registry)
  <2>1. syncs[p] \in {Idle, Begun}
    BY DEF Init
  <2> QED
    BY <2>1 DEF Idle, Begun, SyncOK
<1>3. DOMAIN syncs = Syncs
  BY DEF Init
<1> QED
  BY <1>1, <1>2, <1>3 DEF RegistryInv, OK

\* Of what happens beside the syncs.
LEMMA OutsideOK ==
    ASSUME RegistryInv, UNCHANGED registry, syncs' = Disturbed \/ UNCHANGED syncs
    PROVE  RegistryInv'
<1>1. OK(syncs, registry) /\ OK(Disturbed, registry)
  BY DisturbedOK DEF RegistryInv
<1> QED
  BY <1>1 DEF RegistryInv

\* Of a step of one sync that changes no entry.
LEMMA SyncStepOK ==
    ASSUME RegistryInv, NEW p \in Syncs, NEW s, SyncOK(s, registry), UNCHANGED registry,
           \/ syncs' = [syncs EXCEPT ![p] = s]
           \/ syncs' = [Disturbed EXCEPT ![p] = s]
    PROVE  RegistryInv'
<1>1. OK(syncs, registry) /\ OK(Disturbed, registry) /\ registry \in Entry
  BY DisturbedOK DEF RegistryInv, OK
<1>2. OK([syncs EXCEPT ![p] = s], registry)
  BY <1>1, GotoOK
<1>3. OK([Disturbed EXCEPT ![p] = s], registry)
  BY <1>1, GotoOK
<1> QED
  BY <1>2, <1>3 DEF RegistryInv

\* The steps of a sync, one by one.
LEMMA QueryOK ==
    ASSUME RegistryInv, NEW p \in Syncs, NEW failed, Query(p, failed)
    PROVE  RegistryInv'
<1> DEFINE s == [pc |-> "match",
                 quiet |-> failed = {} /\ ~InFlight /\ \A q \in Syncs : ~Active(q),
                 seen |-> [o \in Options |-> IF o \in failed THEN 0 ELSE venue[o]]]
<1>1. SyncOK(s, registry)
  BY DEF SyncOK
<1>2. syncs' = [Disturbed EXCEPT ![p] = s] /\ UNCHANGED registry
  BY DEF Query, tables
<1> HIDE DEF s
<1> QED
  BY <1>1, <1>2, SyncStepOK

LEMMA MatchOK ==
    ASSUME RegistryInv, NEW p \in Syncs, Match(p)
    PROVE  RegistryInv'
<1> DEFINE seen == syncs[p].seen
           s == [pc |-> "work", quiet |-> syncs[p].quiet, create |-> ToCreate(seen),
                 delete |-> ToDelete(seen), adjust |-> ToAdjust(seen)]
<1>1. \A r \in ToCreate(seen) \cup ToAdjust(seen) : r.option \in Options
  BY DEF ToCreate, ToAdjust, Row, Keys
<1> HIDE DEF seen
<1>2. SyncOK(s, registry)
  BY <1>1 DEF SyncOK
<1>3. syncs' = [syncs EXCEPT ![p] = s] /\ UNCHANGED registry
  BY DEF Match, Goto, tables, seen
<1> HIDE DEF s
<1> QED
  BY <1>2, <1>3, SyncStepOK

LEMMA TakeOK ==
    ASSUME RegistryInv, NEW p \in Syncs, TakeCreate(p) \/ TakeAdjust(p)
    PROVE  RegistryInv'
<1>1. PICK row \in syncs[p].create \cup syncs[p].adjust :
        Goto(p, RowInHand(syncs[p], "check", row, 1))
  BY DEF TakeCreate, TakeAdjust
<1>2. syncs[p].pc = "work" /\ UNCHANGED registry
  BY DEF TakeCreate, TakeAdjust, tables
<1>3. \A r \in syncs[p].create \cup syncs[p].adjust : r.option \in Options
  BY <1>2 DEF RegistryInv, OK, SyncOK
<1>4. 1 \in TableIds /\ \A t \in TableIds : ~(t < 1)
  BY TwoTables
<1>5. SyncOK(RowInHand(syncs[p], "check", row, 1), registry)
  BY <1>1, <1>3, <1>4, InHandOK
<1> QED
  BY <1>1, <1>2, <1>5, SyncStepOK DEF Goto

LEMMA DeleteRowOK ==
    ASSUME RegistryInv, NEW p \in Syncs, DeleteRow(p)
    PROVE  RegistryInv'
<1>1. PICK id : Goto(p, [syncs[p] EXCEPT !.delete = @ \ {id}])
  BY DEF DeleteRow
<1>2. SyncOK(syncs[p], registry)
  BY DEF RegistryInv, OK
<1> DEFINE s == [syncs[p] EXCEPT !.delete = @ \ {id}]
<1>3. SyncOK(s, registry)
  BY <1>2, DeleteOK
<1>4. syncs' = [syncs EXCEPT ![p] = s] /\ UNCHANGED registry
  BY <1>1 DEF DeleteRow, Goto
<1> HIDE DEF s
<1> QED
  BY <1>3, <1>4, SyncStepOK

LEMMA FinishOK ==
    ASSUME RegistryInv, NEW p \in Syncs, syncs' = [syncs EXCEPT ![p] = Idle],
           UNCHANGED registry
    PROVE  RegistryInv'
<1>1. SyncOK(Idle, registry)
  BY DEF Idle, SyncOK
<1> QED
  BY <1>1, SyncStepOK

LEMMA LockOK ==
    ASSUME RegistryInv, LockSyncMu
    PROVE  RegistryInv'
<1>1. SyncOK(Begun, registry) /\ "monitor" \in Syncs
  BY DEF Begun, SyncOK, Syncs
<1>2. syncs' = [syncs EXCEPT !["monitor"] = Begun] /\ UNCHANGED registry
  BY DEF LockSyncMu, tables
<1> QED
  BY <1>1, <1>2, SyncStepOK

LEMMA CallFailsOK ==
    ASSUME RegistryInv, NEW p \in Syncs, CallFails(p)
    PROVE  RegistryInv'
<1> DEFINE s == [Lists(syncs[p]) EXCEPT !.quiet = FALSE]
<1>1. \A r \in syncs[p].create \cup syncs[p].adjust : r.option \in Options
  BY DEF CallFails, RegistryInv, OK, SyncOK
<1>2. SyncOK(s, registry)
  BY <1>1, ListsOK, QuietOK
<1>3. syncs' = [syncs EXCEPT ![p] = s] /\ UNCHANGED registry
  BY DEF CallFails, Goto, tables
<1> HIDE DEF s
<1> QED
  BY <1>2, <1>3, SyncStepOK

\* A call in the UOS: the entry that it is about.
LEMMA CallOK ==
    ASSUME RegistryInv, NEW p \in Syncs, syncs[p].pc \in {"check", "create"}
    PROVE  /\ syncs[p].table \in TableIds
           /\ syncs[p].row.option \in Options
           /\ Entries(p) \in {0, 1}
           /\ registry \in Entry
<1>1. SyncOK(syncs[p], registry) /\ registry \in Entry
  BY DEF RegistryInv, OK
<1>2. syncs[p].table \in TableIds /\ syncs[p].row.option \in Options
  BY <1>1 DEF SyncOK
<1> QED
  BY <1>1, <1>2, EntryType DEF Entries

\* The look under the read lock, and then that under the lock.
LEMMA CheckOK ==
    ASSUME RegistryInv, NEW p \in Syncs, Check(p)
    PROVE  RegistryInv'
<1>1. syncs[p].pc = "check" /\ UNCHANGED registry
  BY DEF Check
<1>2. /\ registry \in Entry /\ Entries(p) \in {0, 1}
  BY <1>1, CallOK
<1>3. CASE Entries(p) > 0
  <2>1. Answer(p)
    BY <1>3 DEF Check
  <2>2. registry[syncs[p].table][syncs[p].row.option] = 1
    BY <1>2, <1>3 DEF Entries
  <2> QED
    BY <1>1, <1>2, <2>1, <2>2, AnswerOK
<1>4. CASE ~(Entries(p) > 0)
  <2> DEFINE s == [syncs[p] EXCEPT !.pc = "create"]
  <2>1. SyncOK(syncs[p], registry)
    BY DEF RegistryInv, OK
  <2>2. /\ DOMAIN s = DOMAIN syncs[p]
        /\ \A f \in DOMAIN s : f # "pc" => s[f] = syncs[p][f]
        /\ "pc" \in DOMAIN s => s.pc = "create"
    OBVIOUS
  <2>3. syncs' = [syncs EXCEPT ![p] = s]
    BY <1>4 DEF Check, Goto
  <2> HIDE DEF s
  <2>4. SyncOK(s, registry)
    BY <1>1, <2>1, <2>2 DEF SyncOK
  <2> QED
    BY <1>1, <2>3, <2>4, SyncStepOK
<1> QED
  BY <1>3, <1>4

\* A creation leaves the entry there, and takes none away.
LEMMA CreateEffect ==
    ASSUME RegistryInv, NEW p \in Syncs, Create(p)
    PROVE  /\ registry' \in Entry
           /\ registry'[syncs[p].table][syncs[p].row.option] = 1
           /\ \A t \in TableIds, o \in Options : registry[t][o] = 1 => registry'[t][o] = 1
           /\ Entries(p) = 0 =>
                registry' = [registry EXCEPT ![syncs[p].table][syncs[p].row.option] = 1]
           /\ Entries(p) # 0 => UNCHANGED registry
<1> DEFINE t == syncs[p].table
           o == syncs[p].row.option
<1>1. /\ t \in TableIds /\ o \in Options
      /\ Entries(p) \in {0, 1} /\ registry \in Entry
  BY CallOK DEF Create
<1>2. registry' = IF Entries(p) > 0 THEN registry
                  ELSE [registry EXCEPT ![t][o] = 1]
  BY DEF Create
<1>3. Entries(p) = registry[t][o]
  BY DEF Entries
<1> HIDE DEF t, o
<1>4. /\ registry' \in Entry
      /\ registry'[t][o] = 1
      /\ \A u \in TableIds, x \in Options : registry[u][x] = 1 => registry'[u][x] = 1
      /\ Entries(p) = 0 => registry' = [registry EXCEPT ![t][o] = 1]
      /\ Entries(p) # 0 => registry' = registry
  <2>1. CASE Entries(p) = 0
    <3> DEFINE more == [registry EXCEPT ![t][o] = 1]
    <3>1. registry' = more
      BY <1>2, <2>1
    <3>2. /\ more \in Entry
          /\ more[t][o] = 1
          /\ \A u \in TableIds, x \in Options : registry[u][x] = 1 => more[u][x] = 1
      BY <1>1, EntryType
    <3>3. Entries(p) = 0 => registry' = [registry EXCEPT ![t][o] = 1]
      BY <3>1
    <3> HIDE DEF more
    <3> QED
      BY <2>1, <3>1, <3>2, <3>3
  <2>2. CASE Entries(p) = 1
    <3>1. registry' = registry
      BY <1>2, <2>2
    <3>2. registry[t][o] = 1
      BY <1>3, <2>2
    <3> QED
      BY <1>1, <2>2, <3>1, <3>2
  <2> QED
    BY <1>1, <2>1, <2>2
<1> QED
  BY <1>4 DEF t, o

\* So a creation keeps the invariant.
LEMMA CreateOK ==
    ASSUME RegistryInv, NEW p \in Syncs, Create(p)
    PROVE  RegistryInv'
<1>1. syncs[p].pc \in {"check", "create"} /\ Answer(p)
  BY DEF Create
<1> QED
  BY <1>1, CreateEffect, AnswerOK

\* Every step keeps the invariant.
LEMMA StepOK == RegistryInv /\ [Next]_vars => RegistryInv'
<1> SUFFICES ASSUME RegistryInv, [Next]_vars PROVE RegistryInv'
  OBVIOUS
<1>1. ASSUME NEW o \in Options, NEW delta, NEW own, NEW messages,
             Trade(o, delta, own, messages) \/ Expire(o)
      PROVE  RegistryInv'
  BY <1>1, OutsideOK DEF Trade, Expire, tables
<1>2. ASSUME NEW i, Register(i) \/ Record(i) \/ GiveUp(i) \/ LoseMessage(i)
      PROVE  RegistryInv'
  BY <1>2, OutsideOK DEF Register, Record, GiveUp, LoseMessage, tables
<1>3. ASSUME NEW p \in Syncs, Sync(p)
      PROVE  RegistryInv'
  <2>1. CASE Query(p, {})
    BY <2>1, QueryOK
  <2>2. CASE Match(p)
    BY <2>2, MatchOK
  <2>3. CASE TakeCreate(p) \/ TakeAdjust(p)
    BY <2>3, TakeOK
  <2>4. CASE DeleteRow(p)
    BY <2>4, DeleteRowOK
  <2>5. CASE Finish(p)
    BY <2>5, FinishOK DEF Finish, tables
  <2>6. CASE Check(p)
    BY <2>6, CheckOK
  <2>7. CASE Create(p)
    BY <2>7, CreateOK
  <2> QED
    BY <1>3, <2>1, <2>2, <2>3, <2>4, <2>5, <2>6, <2>7 DEF Sync
<1>4. ASSUME NEW p \in Syncs, QueryFails(p)
      PROVE  RegistryInv'
  <2>1. CASE \E o \in Options : Query(p, {o})
    BY <2>1, QueryOK
  <2>2. CASE ~\E o \in Options : Query(p, {o})
    BY <1>4, <2>2, FinishOK DEF QueryFails, tables
  <2> QED
    BY <2>1, <2>2
<1>5. ASSUME NEW p \in Syncs, CallFails(p)
      PROVE  RegistryInv'
  BY <1>5, CallFailsOK
<1>6. CASE LockSyncMu
  BY <1>6, LockOK
<1>7. CASE UNCHANGED vars
  BY <1>7, OutsideOK DEF vars, tables
<1> QED
  BY <1>1, <1>2, <1>3, <1>4, <1>5, <1>6, <1>7 DEF Next

\* In every reachable state the entries are those of a registry with at most one
\* row for each name, and a sync is past a table only when its entry is there.
THEOREM RegistryInvariant == Spec => []RegistryInv
  BY InitOK, StepOK, PTL DEF Spec
-----------------------------------------------------------------------------
\* The registry's rows and answers as NameRegistry has them.
Rows == [n \in Names |-> registry[n[1]][n[2]]]
Answers ==
    [p \in Syncs |->
        IF syncs[p].pc \in {"check", "create"}
        THEN {n \in Names : n[1] < syncs[p].table /\ n[2] = syncs[p].row.option}
        ELSE {}]

Answered == Answers \in [Syncs -> SUBSET {n \in Names : Rows[n] = 1}]

\* Who is answered is answered of names that have their row.
LEMMA AnswersHaveRows == RegistryInv => Answered
<1> SUFFICES ASSUME RegistryInv PROVE Answered
  OBVIOUS
<1>1. ASSUME NEW p \in Syncs, syncs[p].pc \in {"check", "create"}, NEW n \in Names,
             n[1] < syncs[p].table, n[2] = syncs[p].row.option
      PROVE  Rows[n] = 1
  <2>1. SyncOK(syncs[p], registry)
    BY DEF RegistryInv, OK
  <2>2. n[1] \in TableIds
    BY DEF Names, TableIds
  <2>3. registry[n[1]][n[2]] = 1
    BY <1>1, <2>1, <2>2 DEF SyncOK
  <2> QED
    BY <2>3 DEF Rows
<1> QED
  BY <1>1 DEF Answered, Answers

\* Initial states are initial states of NameRegistry.
LEMMA RefinesInit == Init => Registry!Init
<1> SUFFICES ASSUME Init PROVE Registry!Init
  OBVIOUS
<1>1. ASSUME NEW n \in Names
      PROVE  registry[n[1]][n[2]] = 0
  BY DEF Init, Names
<1>2. ASSUME NEW p \in Syncs
      PROVE  syncs[p].pc \notin {"check", "create"}
  BY DEF Init, Idle, Begun
<1> QED
  BY <1>1, <1>2 DEF Registry!Init

\* The registry changes when a sync creates an entry, and at no other time.
LEMMA WhoWrites ==
    ASSUME [Next]_vars
    PROVE  UNCHANGED registry \/ \E p \in Syncs : Create(p)
<1>1. ASSUME NEW p \in Syncs, Sync(p) \/ QueryFails(p) \/ CallFails(p), ~Create(p)
      PROVE  UNCHANGED registry
  BY <1>1 DEF Sync, Query, Match, TakeCreate, DeleteRow, TakeAdjust, Finish, Check,
              QueryFails, CallFails, tables
<1> QED
  BY <1>1 DEF Next, Trade, Expire, Register, Record, GiveUp, LoseMessage, LockSyncMu,
              vars, tables

\* To NameRegistry a creation is a new row of a name without one, or nothing.
LEMMA RowsStep ==
    ASSUME RegistryInv, NEW p \in Syncs, Create(p)
    PROVE  \/ UNCHANGED Rows
           \/ \E n \in Names : Rows[n] = 0 /\ Rows' = [Rows EXCEPT ![n] = 1]
<1> DEFINE t == syncs[p].table
           o == syncs[p].row.option
<1>1. /\ t \in TableIds /\ o \in Options
      /\ Entries(p) \in {0, 1} /\ registry \in Entry
      /\ Entries(p) = registry[t][o]
  BY CallOK DEF Create, Entries
<1>2. CASE Entries(p) = 1
  <2>1. Entries(p) # 0
    BY <1>2
  <2>2. UNCHANGED registry
    BY <2>1, CreateEffect
  <2> QED
    BY <2>2 DEF Rows
<1>3. CASE Entries(p) = 0
  <2>1. registry' = [registry EXCEPT ![t][o] = 1]
    BY <1>3, CreateEffect
  <2> HIDE DEF t, o
  <2> DEFINE m == <<t, o>>
  <2>2. m \in Names /\ m[1] = t /\ m[2] = o
    BY <1>1 DEF Names, TableIds
  <2>3. Rows[m] = 0
    BY <1>1, <1>3, <2>2 DEF Rows
  <2>4. ASSUME NEW n \in Names
        PROVE  Rows'[n] = [Rows EXCEPT ![m] = 1][n]
    <3>1. n = <<n[1], n[2]>> /\ n[1] \in TableIds /\ n[2] \in Options
      BY DEF Names, TableIds
    <3>2. Rows'[n] = registry'[n[1]][n[2]] /\ Rows[n] = registry[n[1]][n[2]]
      BY DEF Rows
    <3>3. CASE n = m
      <4>1. registry'[n[1]][n[2]] = 1
        BY <1>1, <2>1, <2>2, <3>3 DEF Entry
      <4> QED
        BY <3>2, <3>3, <4>1, <2>2 DEF Rows
    <3>4. CASE n # m
      <4>1. n[1] # t \/ n[2] # o
        BY <3>1, <3>4
      <4>2. registry'[n[1]][n[2]] = registry[n[1]][n[2]]
        BY <1>1, <2>1, <3>1, <4>1 DEF Entry
      <4> QED
        BY <3>2, <3>4, <4>2 DEF Rows
    <3> QED
      BY <3>3, <3>4
  <2>5. Rows' = [Rows EXCEPT ![m] = 1]
    BY <2>4 DEF Rows
  <2> QED
    BY <2>2, <2>3, <2>5
<1> QED
  BY <1>1, <1>2, <1>3

\* Every step is a step of NameRegistry, or nothing to it.
LEMMA RefinesStep ==
    RegistryInv /\ Answered' /\ [Next]_vars => [Registry!Next]_Registry!vars
<1> SUFFICES ASSUME RegistryInv, Answered', [Next]_vars PROVE Registry!Next
  OBVIOUS
<1>1. \/ UNCHANGED Rows
      \/ \E n \in Names : Rows[n] = 0 /\ Rows' = [Rows EXCEPT ![n] = 1]
  BY WhoWrites, RowsStep DEF Rows
<1>2. Answers' \in [Syncs -> SUBSET {n \in Names : Rows'[n] = 1}]
  BY DEF Answered
<1> QED
  BY <1>1, <1>2 DEF Registry!Next, Rows, Answers

\* The get-or-create calls give a name one row, for every set of options,
\* however the two syncs interleave them.
THEOREM OneRowPerNameProperty == Spec => OneRowPerName
<1>1. Init => Registry!Init
  BY RefinesInit
<1>2. RegistryInv => Answered
  BY AnswersHaveRows
<1>3. RegistryInv /\ Answered' /\ [Next]_vars => [Registry!Next]_Registry!vars
  BY RefinesStep
<1> QED
  BY <1>1, <1>2, <1>3, RegistryInvariant, PTL DEF Spec, OneRowPerName, Registry!Spec
-----------------------------------------------------------------------------
(* What the rows of a set add up to.                                       *)

Quantities(set) == [r \in set |-> r.qty]

\* The rows' quantities, by a function that is given for more rows.
LEMMA QtyOfSubset ==
    ASSUME NEW S, IsFiniteSet(S), \A r \in S : r.qty \in Nat, NEW T \in SUBSET S
    PROVE  /\ QtyOf(T) = SumFunctionOnSet(Quantities(S), T)
           /\ QtyOf(T) \in Nat
<1>1. QtyOf(T) = SumFunctionOnSet(Quantities(T), T)
  BY DEF QtyOf, SumFunction, Quantities
<1>2. IsFiniteSet(T)
  BY FS_Subset
<1>3. \A r \in T : Quantities(T)[r] \in Int /\ Quantities(T)[r] = Quantities(S)[r]
  BY DEF Quantities
<1>4. SumFunctionOnSet(Quantities(T), T) = SumFunctionOnSet(Quantities(S), T)
  BY <1>2, <1>3, SumEqual
<1>5. \A r \in T : Quantities(T)[r] \in Nat
  BY DEF Quantities
<1>6. SumFunctionOnSet(Quantities(T), T) \in Nat
  BY <1>2, <1>5, SumNat
<1> QED
  BY <1>1, <1>4, <1>6

\* None, one more, and some of the rows.
LEMMA QtyOfNone == QtyOf({}) = 0
<1>1. DOMAIN [r \in {} |-> r.qty] = {}
  OBVIOUS
<1> QED
  BY <1>1, SumEmpty DEF QtyOf, SumFunction

LEMMA QtyOfMore ==
    ASSUME NEW S, IsFiniteSet(S), \A r \in S : r.qty \in Nat,
           NEW x, x \notin S, x.qty \in Nat
    PROVE  QtyOf(S \cup {x}) = QtyOf(S) + x.qty
<1> DEFINE T == S \cup {x}
<1>1. IsFiniteSet(T) /\ \A r \in T : r.qty \in Nat
  BY FS_AddElement
<1>2. S \in SUBSET T /\ T \in SUBSET T
  OBVIOUS
<1> HIDE DEF T
<1>3. /\ QtyOf(T) = SumFunctionOnSet(Quantities(T), T)
      /\ QtyOf(S) = SumFunctionOnSet(Quantities(T), S)
      /\ QtyOf(S) \in Nat
  BY <1>1, <1>2, QtyOfSubset
<1>4. /\ Quantities(T)[x] \in Int /\ Quantities(T)[x] = x.qty
      /\ \A r \in S : Quantities(T)[r] \in Int
  BY <1>1 DEF T, Quantities
<1>5. SumFunctionOnSet(Quantities(T), S \cup {x}) =
        Quantities(T)[x] + SumFunctionOnSet(Quantities(T), S)
  BY <1>4, SumAdd
<1> QED
  BY <1>3, <1>4, <1>5 DEF T

LEMMA QtyOfSome ==
    ASSUME NEW S, IsFiniteSet(S), \A r \in S : r.qty \in Nat, NEW T \in SUBSET S
    PROVE  QtyOf(T) <= QtyOf(S)
<1>1. /\ QtyOf(T) = SumFunctionOnSet(Quantities(S), T)
      /\ QtyOf(S) = SumFunctionOnSet(Quantities(S), S)
  BY QtyOfSubset
<1>2. \A r \in S : Quantities(S)[r] \in Nat
  BY DEF Quantities
<1>3. SumFunctionOnSet(Quantities(S), T) <= SumFunctionOnSet(Quantities(S), S)
  BY <1>2, SumGrows
<1> QED
  BY <1>1, <1>3

\* What the venue has on a side.
LEMMA QtyType ==
    ASSUME NEW net \in Int, NEW side
    PROVE  Qty(net, side) \in Nat
<1>1. ASSUME NEW x \in Int PROVE Max({x, 0}) \in Nat
  <2>1. {x, 0} \in SUBSET Int /\ {x, 0} # {} /\ IsFiniteSet({x, 0})
    <3>1. IsFiniteSet({x} \cup {0})
      BY FS_Singleton, FS_AddElement
    <3>2. {x, 0} = {x} \cup {0}
      OBVIOUS
    <3> QED
      BY <3>1, <3>2
  <2>2. Max({x, 0}) \in {x, 0} /\ \A y \in {x, 0} : y <= Max({x, 0})
    BY <2>1, LargestElement
  <2> QED
    BY <2>2
<1>2. -net \in Int
  OBVIOUS
<1> QED
  BY <1>1, <1>2 DEF Qty
-----------------------------------------------------------------------------
(* Types.                                                                  *)

\* The messages that the monitor has yet to handle.
MessagesOf(ts) == [i \in 1 .. Len(ts) |-> ts[i].messages]
Told(ts) == SumFunctionOnSet(MessagesOf(ts), 1 .. Len(ts))

LEMMA ToldType ==
    ASSUME NEW ts \in Seq(TradeType)
    PROVE  /\ Len(ts) \in Nat /\ DOMAIN ts = 1 .. Len(ts) /\ IsFiniteSet(1 .. Len(ts))
           /\ \A i \in 1 .. Len(ts) :
                ts[i] \in TradeType /\ MessagesOf(ts)[i] = ts[i].messages
                /\ MessagesOf(ts)[i] \in Nat
           /\ Told(ts) \in Nat
<1>1. Len(ts) \in Nat /\ DOMAIN ts = 1 .. Len(ts)
  BY LenProperties
<1>2. IsFiniteSet(1 .. Len(ts))
  BY <1>1, FS_Interval
<1>3. ASSUME NEW i \in 1 .. Len(ts)
      PROVE  ts[i] \in TradeType /\ MessagesOf(ts)[i] = ts[i].messages
             /\ MessagesOf(ts)[i] \in Nat
  <2>1. ts[i] \in TradeType
    BY ElementOfSeq
  <2>2. ts[i].messages \in Nat
    BY <2>1 DEF TradeType
  <2> QED
    BY <2>1, <2>2 DEF MessagesOf
<1>4. Told(ts) \in Nat
  BY <1>2, <1>3, SumNat DEF Told
<1> QED
  BY <1>1, <1>2, <1>3, <1>4

\* A trade more.
LEMMA ToldOfMore ==
    ASSUME NEW ts \in Seq(TradeType), NEW t \in TradeType
    PROVE  /\ Append(ts, t) \in Seq(TradeType)
           /\ Len(Append(ts, t)) = Len(ts) + 1
           /\ Told(Append(ts, t)) = Told(ts) + t.messages
<1> DEFINE n == Len(ts)
           new == Append(ts, t)
<1>1. /\ new \in Seq(TradeType) /\ Len(new) = n + 1
      /\ new[n + 1] = t /\ \A i \in 1 .. n : new[i] = ts[i]
  BY AppendProperties
<1>2. n \in Nat
  BY ToldType
<1> HIDE DEF new
<1>3. /\ \A i \in 1 .. n : /\ MessagesOf(ts)[i] \in Int
                           /\ MessagesOf(ts)[i] = MessagesOf(new)[i]
      /\ MessagesOf(new)[n + 1] = t.messages /\ MessagesOf(new)[n + 1] \in Int
      /\ IsFiniteSet(1 .. n)
  <2>1. \A i \in 1 .. n : MessagesOf(ts)[i] = ts[i].messages /\ MessagesOf(ts)[i] \in Int
    BY ToldType
  <2>2. \A i \in 1 .. n + 1 : MessagesOf(new)[i] = new[i].messages
                              /\ MessagesOf(new)[i] \in Int
    BY <1>1, ToldType
  <2>3. IsFiniteSet(1 .. n)
    BY ToldType
  <2> QED
    BY <1>1, <1>2, <2>1, <2>2, <2>3
<1>4. SumFunctionOnSet(MessagesOf(ts), 1 .. n) = SumFunctionOnSet(MessagesOf(new), 1 .. n)
  BY <1>3, SumEqual
<1>5. 1 .. n + 1 = (1 .. n) \cup {n + 1} /\ n + 1 \notin 1 .. n
  BY <1>2
<1>6. SumFunctionOnSet(MessagesOf(new), (1 .. n) \cup {n + 1}) =
        MessagesOf(new)[n + 1] + SumFunctionOnSet(MessagesOf(new), 1 .. n)
  BY <1>3, <1>5, SumAdd
<1>7. Told(new) = t.messages + Told(ts)
  BY <1>1, <1>3, <1>4, <1>5, <1>6 DEF Told
<1>8. Told(ts) \in Nat /\ t.messages \in Nat
  <2>1. t.messages \in Nat
    BY DEF TradeType
  <2> QED
    BY <2>1, ToldType
<1> QED
  BY <1>1, <1>7, <1>8 DEF new

\* A trade that changes.
LEMMA ToldOfChange ==
    ASSUME NEW ts \in Seq(TradeType), NEW i \in DOMAIN ts, NEW t \in TradeType
    PROVE  /\ [ts EXCEPT ![i] = t] \in Seq(TradeType)
           /\ Len([ts EXCEPT ![i] = t]) = Len(ts)
           /\ Told([ts EXCEPT ![i] = t]) = Told(ts) - ts[i].messages + t.messages
<1> DEFINE n == Len(ts)
           new == [ts EXCEPT ![i] = t]
<1>1. /\ new \in Seq(TradeType) /\ Len(new) = n
      /\ new[i] = t /\ \A j \in 1 .. n : j # i => new[j] = ts[j]
  BY ExceptSeq, LenProperties
<1>2. n \in Nat /\ i \in 1 .. n /\ IsFiniteSet(1 .. n) /\ IsFiniteSet((1 .. n) \ {i})
  BY ToldType, FS_RemoveElement
<1> HIDE DEF new
<1>3. /\ \A j \in 1 .. n : /\ MessagesOf(ts)[j] = ts[j].messages
                           /\ MessagesOf(ts)[j] \in Int
      /\ \A j \in 1 .. n : /\ MessagesOf(new)[j] = new[j].messages
                           /\ MessagesOf(new)[j] \in Int
  BY <1>1, ToldType
<1>4. /\ Told(ts) = MessagesOf(ts)[i] + SumFunctionOnSet(MessagesOf(ts), (1 .. n) \ {i})
      /\ SumFunctionOnSet(MessagesOf(ts), (1 .. n) \ {i}) \in Int
  BY <1>2, <1>3, SumRemove DEF Told
<1>5. Told(new) = MessagesOf(new)[i] + SumFunctionOnSet(MessagesOf(new), (1 .. n) \ {i})
  <2>1. \A j \in 1 .. n : MessagesOf(new)[j] \in Int
    BY <1>3
  <2> HIDE DEF n
  <2>2. SumFunctionOnSet(MessagesOf(new), 1 .. n) =
          MessagesOf(new)[i] + SumFunctionOnSet(MessagesOf(new), (1 .. n) \ {i})
    BY <1>2, <2>1, SumRemove
  <2>3. Told(new) = SumFunctionOnSet(MessagesOf(new), 1 .. n)
    BY <1>1 DEF Told
  <2> QED
    BY <2>2, <2>3
<1>6. \A j \in (1 .. n) \ {i} : /\ MessagesOf(ts)[j] \in Int
                                /\ MessagesOf(ts)[j] = MessagesOf(new)[j]
  BY <1>1, <1>3
<1>7. SumFunctionOnSet(MessagesOf(ts), (1 .. n) \ {i}) =
        SumFunctionOnSet(MessagesOf(new), (1 .. n) \ {i})
  BY <1>2, <1>6, SumEqual
<1>8. MessagesOf(ts)[i] = ts[i].messages /\ MessagesOf(new)[i] = t.messages
      /\ MessagesOf(ts)[i] \in Int /\ MessagesOf(new)[i] \in Int
  BY <1>1, <1>2, <1>3
<1>9. PICK rest \in Int : SumFunctionOnSet(MessagesOf(ts), (1 .. n) \ {i}) = rest
  BY <1>4
<1>10. Told(new) = Told(ts) - ts[i].messages + t.messages
  BY <1>4, <1>5, <1>7, <1>8, <1>9
<1> QED
  BY <1>1, <1>10 DEF new

\* Rows below a number, each with an id of its own; the trades and what waits
\* for their messages; the syncs.
RowsOK(rs, n) ==
    /\ n \in Nat \ {0}
    /\ rs \subseteq RowsBelow(n) /\ IsFiniteSet(rs)
    /\ \A r, x \in rs : r.id = x.id => r = x
TradesOK(ts, w) ==
    /\ ts \in Seq(TradeType) /\ Len(ts) <= MaxTrades
    /\ w \in Nat /\ w + Told(ts) <= 2 * Len(ts)
SyncsOK(ss, n) == ss \in [Syncs -> SyncStates(n)]

\* The inductive invariant of the types.  A message is one of its trade or a
\* goroutine that waits, so that two per trade are the most.
TypeInv ==
    /\ venue \in [Options -> -MaxQty .. MaxQty]
    /\ RowsOK(rows, nextId)
    /\ TradesOK(trades, waiting)
    /\ SyncsOK(syncs, nextId)
    /\ spoiled \in BOOLEAN
    /\ faults \in 0 .. MaxFaults

\* The rows with one more, and with some less.
LEMMA RowsMore ==
    ASSUME NEW rs, NEW n, RowsOK(rs, n), NEW x \in RowsBelow(n + 1), x.id = n
    PROVE  RowsOK(rs \cup {x}, n + 1) /\ x \notin rs
<1>1. n \in Nat \ {0} /\ n + 1 \in Nat \ {0}
  BY DEF RowsOK
<1>2. \A r \in rs : r \in RowsBelow(n + 1) /\ r.id # n
  BY <1>1 DEF RowsOK, RowsBelow
<1>3. IsFiniteSet(rs \cup {x})
  BY FS_AddElement DEF RowsOK
<1>4. rs \cup {x} \subseteq RowsBelow(n + 1) /\ x \notin rs
  BY <1>2
<1>5. \A r, y \in rs \cup {x} : r.id = y.id => r = y
  BY <1>2 DEF RowsOK
<1> QED
  BY <1>1, <1>3, <1>4, <1>5 DEF RowsOK

LEMMA RowsLess ==
    ASSUME NEW rs, NEW n, RowsOK(rs, n), NEW T \in SUBSET rs
    PROVE  RowsOK(T, n)
  BY FS_Subset DEF RowsOK

\* Quantities of such rows.
LEMMA RowsQty ==
    ASSUME NEW rs, NEW n, RowsOK(rs, n)
    PROVE  IsFiniteSet(rs) /\ \A r \in rs : r.qty \in Nat
  BY DEF RowsOK, RowsBelow

\* States of a sync, by its pc.
LEMMA StatesByPc ==
    ASSUME NEW n, NEW s \in SyncStates(n)
    PROVE  /\ s.pc \in {"idle", "begin", "match", "work", "check", "create"}
           /\ s.pc \in {"idle", "begin"} => s \in {Idle, Begun}
           /\ s.pc = "match" => s \in MatchStates
           /\ s.pc = "work" => s \in WorkStates(n)
           /\ s.pc \in {"check", "create"} => s \in CallStates(n)
<1>1. CASE s \in {Idle, Begun}
  BY <1>1 DEF Idle, Begun
<1>2. CASE s \in MatchStates
  BY <1>2 DEF MatchStates
<1>3. CASE s \in WorkStates(n)
  BY <1>3 DEF WorkStates
<1>4. CASE s \in CallStates(n)
  BY <1>4 DEF CallStates
<1> QED
  BY <1>1, <1>2, <1>3, <1>4 DEF SyncStates

LEMMA StatesGrow ==
    ASSUME NEW n \in Nat
    PROVE  SyncStates(n) \subseteq SyncStates(n + 1)
<1>1. 1 .. n - 1 \subseteq 1 .. (n + 1) - 1
  OBVIOUS
<1>2. WorkStates(n) \subseteq WorkStates(n + 1)
  BY <1>1 DEF WorkStates
<1>3. CallStates(n) \subseteq CallStates(n + 1)
  BY <1>1 DEF CallStates
<1> QED
  BY <1>2, <1>3 DEF SyncStates

\* A sync that is told that it is disturbed.
LEMMA DisturbedType ==
    ASSUME NEW n, SyncsOK(syncs, n)
    PROVE  SyncsOK(Disturbed, n)
<1>1. ASSUME NEW p \in Syncs PROVE Disturbed[p] \in SyncStates(n)
  <2> DEFINE s == syncs[p]
  <2>1. s \in SyncStates(n)
    BY DEF SyncsOK
  <2>2. Disturbed[p] = IF s.pc \notin {"idle", "begin"}
                       THEN [s EXCEPT !.quiet = FALSE] ELSE s
    BY DEF Disturbed, Active
  <2> HIDE DEF s
  <2>3. CASE s \in MatchStates
    <3>1. [s EXCEPT !.quiet = FALSE] \in MatchStates
      BY <2>3 DEF MatchStates
    <3> QED
      BY <2>1, <2>2, <3>1 DEF SyncStates
  <2>4. CASE s \in WorkStates(n)
    <3>1. [s EXCEPT !.quiet = FALSE] \in WorkStates(n)
      BY <2>4 DEF WorkStates
    <3> QED
      BY <2>1, <2>2, <3>1 DEF SyncStates
  <2>5. CASE s \in CallStates(n)
    <3>1. [s EXCEPT !.quiet = FALSE] \in CallStates(n)
      BY <2>5 DEF CallStates
    <3> QED
      BY <2>1, <2>2, <3>1 DEF SyncStates
  <2>6. CASE s \in {Idle, Begun}
    <3>1. s.pc \in {"idle", "begin"}
      BY <2>6 DEF Idle, Begun
    <3> QED
      BY <2>1, <2>2, <3>1
  <2> QED
    BY <2>1, <2>3, <2>4, <2>5, <2>6 DEF SyncStates
<1>2. Disturbed \in [Syncs -> SyncStates(n)]
  BY <1>1 DEF Disturbed
<1> QED
  BY <1>2 DEF SyncsOK

\* The lists of a sync, and a row in hand.
LEMMA ListsType ==
    ASSUME NEW n, NEW s \in WorkStates(n) \cup CallStates(n), NEW quiet \in BOOLEAN
    PROVE  /\ Lists(s) \in WorkStates(n)
           /\ [Lists(s) EXCEPT !.quiet = quiet] \in WorkStates(n)
  BY DEF WorkStates, CallStates, Lists

LEMMA InHandType ==
    ASSUME NEW n, NEW s \in WorkStates(n) \cup CallStates(n), NEW row \in RowType,
           NEW table \in DOMAIN Tables
    PROVE  RowInHand(s, "check", row, table) \in CallStates(n)
  BY DEF WorkStates, CallStates, RowInHand

\* What MatchPositions lists.
LEMMA PlanType ==
    ASSUME RowsOK(rows, nextId), NEW seen \in [Options -> -MaxQty .. MaxQty]
    PROVE  /\ ToCreate(seen) \in SUBSET RowType
           /\ ToAdjust(seen) \in SUBSET RowType
           /\ ToDelete(seen) \in SUBSET (1 .. nextId - 1)
<1>1. ASSUME NEW k \in Keys
      PROVE  /\ k[1] \in Options /\ k[2] \in Sides
             /\ Qty(seen[k[1]], k[2]) \in Nat /\ Books(k) \in Nat
  <2>1. k[1] \in Options /\ k[2] \in Sides
    BY DEF Keys
  <2>2. seen[k[1]] \in Int
    BY <2>1, BoundsAssumption
  <2>3. Qty(seen[k[1]], k[2]) \in Nat
    BY <2>2, QtyType
  <2>4. RowsOf(k) \in SUBSET rows
    BY DEF RowsOf
  <2>5. Books(k) \in Nat
    BY <2>4, RowsQty, QtyOfSubset DEF Books
  <2> QED
    BY <2>1, <2>3, <2>5
<1>2. ASSUME NEW k \in Keys, NEW q \in Nat \ {0} PROVE Row(k, q) \in RowType
  BY <1>1 DEF Row, RowType
<1>3. ASSUME NEW r \in ToCreate(seen) PROVE r \in RowType
  <2>1. PICK k \in Keys : Qty(seen[k[1]], k[2]) > 0 /\ r = Row(k, Qty(seen[k[1]], k[2]))
    BY DEF ToCreate
  <2> QED
    BY <1>1, <1>2, <2>1
<1>4. ASSUME NEW r \in ToAdjust(seen) PROVE r \in RowType
  <2>1. PICK k \in Keys : /\ Qty(seen[k[1]], k[2]) > Books(k)
                          /\ r = Row(k, Qty(seen[k[1]], k[2]) - Books(k))
    BY DEF ToAdjust
  <2>2. Qty(seen[k[1]], k[2]) - Books(k) \in Nat \ {0}
    BY <1>1, <2>1
  <2> QED
    BY <1>2, <2>1, <2>2
<1>5. ASSUME NEW i \in ToDelete(seen) PROVE i \in 1 .. nextId - 1
  <2>1. PICK r \in rows : i = r.id
    BY DEF ToDelete, RowsOf
  <2> QED
    BY <2>1 DEF RowsOK, RowsBelow
<1> QED
  BY <1>3, <1>4, <1>5

\* A step of one sync that changes no row, and one that adds one.
LEMMA GotoType ==
    ASSUME TypeInv, NEW p \in Syncs, NEW s \in SyncStates(nextId),
           \/ syncs' = [syncs EXCEPT ![p] = s]
           \/ syncs' = [Disturbed EXCEPT ![p] = s]
    PROVE  SyncsOK(syncs', nextId)
<1>1. SyncsOK(syncs, nextId) /\ SyncsOK(Disturbed, nextId)
  BY DisturbedType DEF TypeInv
<1> QED
  BY <1>1 DEF SyncsOK

LEMMA AnswerType ==
    ASSUME TypeInv, NEW p \in Syncs, syncs[p].pc \in {"check", "create"}, Answer(p)
    PROVE  /\ RowsOK(rows', nextId') /\ SyncsOK(syncs', nextId')
           /\ UNCHANGED <<venue, trades, waiting, spoiled>>
<1> DEFINE s == syncs[p]
<1>1. s \in CallStates(nextId)
  <2>1. s \in SyncStates(nextId)
    BY DEF TypeInv, SyncsOK
  <2> QED
    BY <2>1, StatesByPc
<1>2. s.row \in RowType /\ s.table \in DOMAIN Tables /\ nextId \in Nat \ {0}
  BY <1>1 DEF CallStates, TypeInv, RowsOK
<1>3. UNCHANGED <<venue, trades, waiting, spoiled>>
  BY DEF Answer, Goto
<1>4. CASE s.table < Len(Tables)
  <2>1. /\ syncs' = [syncs EXCEPT ![p] = RowInHand(s, "check", s.row, s.table + 1)]
        /\ rows' = rows /\ nextId' = nextId
    BY <1>4 DEF Answer, Goto
  <2> HIDE DEF s
  <2>2. s.table + 1 \in DOMAIN Tables
    BY <1>2, <1>4 DEF Tables
  <2>3. RowInHand(s, "check", s.row, s.table + 1) \in SyncStates(nextId)
    BY <1>1, <1>2, <2>2, InHandType DEF SyncStates
  <2>4. SyncsOK(syncs', nextId)
    BY <2>1, <2>3, GotoType
  <2> QED
    BY <1>3, <2>1, <2>4 DEF TypeInv
<1>5. CASE ~(s.table < Len(Tables))
  <2>1. /\ syncs' = [syncs EXCEPT ![p] = Lists(s)]
        /\ rows' = rows \cup {Numbered(nextId, s.row)} /\ nextId' = nextId + 1
    BY <1>5 DEF Answer, Goto
  <2> HIDE DEF s
  <2>2. Lists(s) \in SyncStates(nextId)
    BY <1>1, ListsType DEF SyncStates
  <2>3. SyncsOK(syncs', nextId)
    BY <2>1, <2>2, GotoType
  <2>4. SyncsOK(syncs', nextId + 1)
    BY <1>2, <2>3, StatesGrow DEF SyncsOK
  <2>5. Numbered(nextId, s.row) \in RowsBelow(nextId + 1)
        /\ Numbered(nextId, s.row).id = nextId
    BY <1>2 DEF Numbered, RowType, RowsBelow
  <2>6. RowsOK(rows \cup {Numbered(nextId, s.row)}, nextId + 1)
    BY <2>5, RowsMore DEF TypeInv
  <2> QED
    BY <1>3, <2>1, <2>4, <2>6
<1> QED
  BY <1>4, <1>5

\* What the trades and messages do.
LEMMA TradeType1 ==
    ASSUME TypeInv, NEW o \in Options, NEW delta \in {-1, 1}, NEW own \in BOOLEAN,
           NEW messages \in 1 .. 2, Trade(o, delta, own, messages)
    PROVE  TypeInv'
<1> DEFINE t == [option |-> o, delta |-> delta, own |-> own, registered |-> FALSE,
                 recorded |-> FALSE, messages |-> messages]
<1>1. t \in TradeType /\ t.messages \in 0 .. 2
  BY DEF TradeType
<1>2. trades' = Append(trades, t) /\ syncs' = Disturbed /\ Len(trades) < MaxTrades
      /\ UNCHANGED <<rows, nextId, waiting, spoiled, faults>>
  BY DEF Trade, tables
<1>3. venue' \in [Options -> -MaxQty .. MaxQty]
  BY DEF Trade, TypeInv
<1> HIDE DEF t
<1>4. trades \in Seq(TradeType) /\ waiting \in Nat
      /\ waiting + Told(trades) <= 2 * Len(trades)
  BY DEF TypeInv, TradesOK
<1>5. /\ Append(trades, t) \in Seq(TradeType)
      /\ Len(Append(trades, t)) = Len(trades) + 1
      /\ Told(Append(trades, t)) = Told(trades) + t.messages
      /\ Told(trades) \in Nat /\ Len(trades) \in Nat
  BY <1>1, <1>4, ToldOfMore, ToldType
<1>6. PICK told \in Nat, n \in Nat : told = Told(trades) /\ n = Len(trades)
  BY <1>5
<1>7. waiting + (told + t.messages) <= 2 * (n + 1) /\ n + 1 <= MaxTrades
  <2>1. waiting \in Nat /\ waiting + told <= 2 * n
    BY <1>4, <1>6
  <2>2. PICK m \in 0 .. 2 : m = t.messages
    BY <1>1
  <2>3. waiting + (told + m) <= 2 * (n + 1)
    BY <2>1
  <2>4. n < MaxTrades /\ MaxTrades \in Nat
    BY <1>2, <1>6, BoundsAssumption
  <2>5. n + 1 <= MaxTrades
    BY <2>4
  <2> QED
    BY <2>2, <2>3, <2>5
<1>8. TradesOK(trades', waiting')
  BY <1>2, <1>4, <1>5, <1>6, <1>7 DEF TradesOK
<1>9. SyncsOK(Disturbed, nextId)
  BY DisturbedType DEF TypeInv
<1> QED
  BY <1>2, <1>3, <1>8, <1>9 DEF TypeInv

\* A change of a trade, which leaves fewer messages of it, and some that wait.
LEMMA TradeChanges ==
    ASSUME TypeInv, NEW i \in DOMAIN trades, NEW t \in TradeType,
           trades' = [trades EXCEPT ![i] = t], waiting' \in Nat,
           waiting' + t.messages <= waiting + trades[i].messages
    PROVE  TradesOK(trades', waiting')
<1>1. /\ trades \in Seq(TradeType) /\ waiting \in Nat /\ Len(trades) <= MaxTrades
      /\ waiting + Told(trades) <= 2 * Len(trades)
  BY DEF TypeInv, TradesOK
<1>2. /\ trades' \in Seq(TradeType) /\ Len(trades') = Len(trades)
      /\ Told(trades') = Told(trades) - trades[i].messages + t.messages
      /\ Told(trades) \in Nat /\ Len(trades) \in Nat /\ trades[i] \in TradeType
  BY <1>1, ToldOfChange, ToldType
<1>3. t.messages \in Nat /\ trades[i].messages \in Nat
  BY <1>2 DEF TradeType
<1>4. PICK told \in Nat, n \in Nat, m \in Nat, l \in Nat, w \in Nat, v \in Nat :
        told = Told(trades) /\ n = Len(trades) /\ m = trades[i].messages
        /\ l = t.messages /\ w = waiting /\ v = waiting'
  BY <1>1, <1>2, <1>3
<1>5. v + (told - m + l) <= 2 * n
  <2>1. w + told <= 2 * n
    BY <1>1, <1>4
  <2>2. v + l <= w + m
    BY <1>4
  <2> QED
    BY <2>1, <2>2
<1> QED
  BY <1>1, <1>2, <1>4, <1>5 DEF TradesOK

LEMMA MessagesType ==
    ASSUME TypeInv, NEW i \in DOMAIN trades,
           Register(i) \/ GiveUp(i) \/ LoseMessage(i) \/ Record(i)
    PROVE  TypeInv'
<1>1. /\ trades \in Seq(TradeType) /\ trades[i] \in TradeType /\ waiting \in Nat
  BY ToldType DEF TypeInv, TradesOK
<1>2. /\ trades[i].option \in Options /\ trades[i].messages \in 0 .. 2
  BY <1>1 DEF TradeType
<1>3. CASE Register(i)
  <2> DEFINE t == [trades[i] EXCEPT !.registered = TRUE]
  <2>1. t \in TradeType /\ t.messages = trades[i].messages
    BY <1>1 DEF TradeType
  <2>2. trades' = [trades EXCEPT ![i] = t] /\ waiting' = waiting
    BY <1>3 DEF Register
  <2> HIDE DEF t
  <2>3. waiting' + t.messages <= waiting + trades[i].messages
    BY <1>1, <1>2, <2>1, <2>2
  <2>4. TradesOK(trades', waiting')
    BY <1>1, <2>1, <2>2, <2>3, TradeChanges
  <2> QED
    BY <1>3, <2>4 DEF Register, TypeInv, tables
<1>4. CASE GiveUp(i)
  <2> DEFINE t == [trades[i] EXCEPT !.messages = @ - 1]
  <2>0. trades[i].messages - 1 \in 0 .. 2
    BY <1>2, <1>4 DEF GiveUp
  <2>1. t \in TradeType /\ t.messages = trades[i].messages - 1
    BY <1>1, <2>0 DEF TradeType
  <2>2. trades' = [trades EXCEPT ![i] = t] /\ waiting' = waiting + 1
    BY <1>4 DEF GiveUp
  <2> HIDE DEF t
  <2>3. waiting' \in Nat /\ waiting' + t.messages <= waiting + trades[i].messages
    BY <1>1, <1>2, <2>1, <2>2
  <2>4. TradesOK(trades', waiting')
    BY <2>1, <2>2, <2>3, TradeChanges
  <2> QED
    BY <1>4, <2>4 DEF GiveUp, TypeInv, tables
<1>5. CASE LoseMessage(i)
  <2> DEFINE t == [trades[i] EXCEPT !.messages = 0]
  <2>1. t \in TradeType /\ t.messages = 0
    BY <1>1 DEF TradeType
  <2>2. trades' = [trades EXCEPT ![i] = t] /\ waiting' = waiting
    BY <1>5 DEF LoseMessage
  <2> HIDE DEF t
  <2>3. waiting' + t.messages <= waiting + trades[i].messages
    BY <1>1, <1>2, <2>1, <2>2
  <2>4. TradesOK(trades', waiting')
    BY <1>1, <2>1, <2>2, <2>3, TradeChanges
  <2>5. spoiled' \in BOOLEAN /\ faults' \in 0 .. MaxFaults
    <3>1. faults \in Nat /\ MaxFaults \in Nat /\ faults < MaxFaults /\ faults' = faults + 1
      BY <1>5, BoundsAssumption DEF LoseMessage, Fault, TypeInv
    <3>2. faults' \in 0 .. MaxFaults
      BY <3>1
    <3>3. spoiled' \in BOOLEAN
      BY <1>5 DEF LoseMessage
    <3> QED
      BY <3>2, <3>3
  <2> QED
    BY <1>5, <2>4, <2>5 DEF LoseMessage, TypeInv, tables
<1>6. CASE Record(i)
  <2> DEFINE t == [trades[i] EXCEPT !.recorded = TRUE, !.messages = 0]
             x == [id |-> nextId, option |-> trades[i].option, qty |-> 1,
                   side |-> IF trades[i].delta > 0 THEN "LONG" ELSE "SHORT"]
  <2>1. t \in TradeType /\ t.messages = 0
    <3> DEFINE r == [trades[i] EXCEPT !.recorded = TRUE]
    <3>1. r \in TradeType
      BY <1>1 DEF TradeType
    <3>2. t = [r EXCEPT !.messages = 0]
      OBVIOUS
    <3> HIDE DEF r, t
    <3> QED
      BY <3>1, <3>2 DEF TradeType
  <2>2. /\ trades' = [trades EXCEPT ![i] = t] /\ waiting' = waiting
        /\ rows' = rows \cup {x} /\ nextId' = nextId + 1 /\ syncs' = Disturbed
        /\ UNCHANGED <<venue, spoiled, faults>>
    BY <1>6 DEF Record
  <2>3. nextId \in Nat \ {0}
    BY DEF TypeInv, RowsOK
  <2>4. x \in RowsBelow(nextId + 1) /\ x.id = nextId
    BY <1>2, <2>3 DEF RowsBelow, Sides
  <2> HIDE DEF t, x
  <2>5. waiting' + t.messages <= waiting + trades[i].messages
    BY <1>1, <1>2, <2>1, <2>2
  <2>6. TradesOK(trades', waiting')
    BY <1>1, <2>1, <2>2, <2>5, TradeChanges
  <2>7. RowsOK(rows', nextId')
    BY <2>2, <2>4, RowsMore DEF TypeInv
  <2>8. SyncsOK(Disturbed, nextId + 1)
    <3>1. SyncsOK(Disturbed, nextId)
      BY DisturbedType DEF TypeInv
    <3> QED
      BY <2>3, <3>1, StatesGrow DEF SyncsOK
  <2> QED
    BY <2>2, <2>6, <2>7, <2>8 DEF TypeInv
<1> QED
  BY <1>3, <1>4, <1>5, <1>6

\* What the syncs do.
LEMMA SyncsType ==
    ASSUME TypeInv, NEW p \in Syncs,
           Sync(p) \/ QueryFails(p) \/ CallFails(p) \/ LockSyncMu
    PROVE  TypeInv'
<1> DEFINE s == syncs[p]
           n == nextId
<1>1. /\ venue \in [Options -> -MaxQty .. MaxQty] /\ RowsOK(rows, n)
      /\ TradesOK(trades, waiting) /\ s \in SyncStates(n)
      /\ spoiled \in BOOLEAN /\ faults \in 0 .. MaxFaults
      /\ 1 \in DOMAIN Tables
  BY DEF TypeInv, SyncsOK, Tables
<1>2. ASSUME Fault PROVE faults' \in 0 .. MaxFaults
  BY <1>1, <1>2, BoundsAssumption DEF Fault
<1>3. ASSUME NEW v \in SyncStates(n),
             \/ syncs' = [syncs EXCEPT ![p] = v] \/ syncs' = [Disturbed EXCEPT ![p] = v],
             RowsOK(rows', nextId'), nextId' = n, UNCHANGED <<venue, trades, waiting>>,
             spoiled' \in BOOLEAN, faults' \in 0 .. MaxFaults
      PROVE  TypeInv'
  BY <1>1, <1>3, GotoType DEF TypeInv
<1>4. ASSUME NEW failed \in SUBSET Options, Query(p, failed),
             faults' \in 0 .. MaxFaults
      PROVE  TypeInv'
  <2> DEFINE quiet == failed = {} /\ ~InFlight /\ \A q \in Syncs : ~Active(q)
             seen == [o \in Options |-> IF o \in failed THEN 0 ELSE venue[o]]
             v == [pc |-> "match", quiet |-> quiet, seen |-> seen]
  <2>1. seen \in [Options -> -MaxQty .. MaxQty]
    BY <1>1, BoundsAssumption
  <2>2. quiet \in BOOLEAN
    OBVIOUS
  <2>3. v \in SyncStates(n)
    <3> HIDE DEF quiet, seen
    <3> QED
      BY <2>1, <2>2 DEF MatchStates, SyncStates
  <2>4. syncs' = [Disturbed EXCEPT ![p] = v]
        /\ UNCHANGED <<venue, trades, rows, nextId, waiting, spoiled>>
    BY <1>4 DEF Query, tables
  <2> HIDE DEF v
  <2> QED
    BY <1>1, <1>3, <1>4, <2>3, <2>4
<1>5. CASE Match(p)
  <2>1. s.pc = "match" /\ s \in MatchStates
    BY <1>1, <1>5, StatesByPc DEF Match
  <2> DEFINE seen == s.seen
             v == [pc |-> "work", quiet |-> s.quiet, create |-> ToCreate(seen),
                   delete |-> ToDelete(seen), adjust |-> ToAdjust(seen)]
  <2>2. seen \in [Options -> -MaxQty .. MaxQty] /\ s.quiet \in BOOLEAN
    BY <2>1 DEF MatchStates
  <2>3. syncs' = [syncs EXCEPT ![p] = v]
        /\ UNCHANGED <<venue, trades, rows, nextId, waiting, spoiled, faults>>
    BY <1>5 DEF Match, Goto, tables
  <2> HIDE DEF seen, s
  <2>4. /\ ToCreate(seen) \in SUBSET RowType /\ ToAdjust(seen) \in SUBSET RowType
        /\ ToDelete(seen) \in SUBSET (1 .. n - 1)
    BY <1>1, <2>2, PlanType
  <2>5. v \in SyncStates(n)
    BY <2>2, <2>4 DEF WorkStates, SyncStates
  <2> HIDE DEF v
  <2> QED
    BY <1>1, <1>3, <2>3, <2>5
<1>6. CASE TakeCreate(p) \/ TakeAdjust(p)
  <2>1. PICK row \in s.create \cup s.adjust : Goto(p, RowInHand(s, "check", row, 1))
    BY <1>6 DEF TakeCreate, TakeAdjust
  <2>2. s \in WorkStates(n) /\ UNCHANGED <<rows, nextId, faults>>
    BY <1>1, <1>6, StatesByPc DEF TakeCreate, TakeAdjust, tables
  <2>3. row \in RowType
    BY <2>1, <2>2 DEF WorkStates
  <2>4. RowInHand(s, "check", row, 1) \in SyncStates(n)
    BY <1>1, <2>2, <2>3, InHandType DEF SyncStates
  <2>5. syncs' = [syncs EXCEPT ![p] = RowInHand(s, "check", row, 1)]
        /\ UNCHANGED <<venue, trades, waiting, spoiled>>
    BY <2>1 DEF Goto
  <2> HIDE DEF s
  <2> QED
    BY <1>1, <1>3, <2>2, <2>4, <2>5
<1>7. CASE DeleteRow(p)
  <2>1. PICK id \in s.delete : /\ Goto(p, [s EXCEPT !.delete = @ \ {id}])
                               /\ rows' = {r \in rows : r.id # id}
    BY <1>7 DEF DeleteRow
  <2>2. s \in WorkStates(n) /\ UNCHANGED <<nextId, faults>>
    BY <1>1, <1>7, StatesByPc DEF DeleteRow
  <2> DEFINE v == [s EXCEPT !.delete = @ \ {id}]
  <2>3. syncs' = [syncs EXCEPT ![p] = v] /\ UNCHANGED <<venue, trades, waiting, spoiled>>
    BY <2>1 DEF Goto
  <2> HIDE DEF s
  <2>4. v \in SyncStates(n)
    BY <2>2 DEF WorkStates, SyncStates
  <2>5. RowsOK(rows', nextId')
    BY <1>1, <2>1, <2>2, RowsLess
  <2> HIDE DEF v
  <2> QED
    BY <1>1, <1>3, <2>2, <2>3, <2>4, <2>5
<1>8. ASSUME syncs' = [syncs EXCEPT ![p] = Idle],
             UNCHANGED <<venue, trades, tables, waiting>>,
             spoiled' \in BOOLEAN, faults' \in 0 .. MaxFaults
      PROVE  TypeInv'
  <2>1. Idle \in SyncStates(n)
    BY DEF SyncStates
  <2> QED
    BY <1>1, <1>3, <1>8, <2>1 DEF tables
<1>9. CASE Finish(p)
  <2>1. s \in WorkStates(n)
    BY <1>1, <1>9, StatesByPc DEF Finish
  <2>2. (~s.quiet) \in BOOLEAN
    OBVIOUS
  <2> QED
    BY <1>1, <1>8, <1>9, <2>2 DEF Finish
<1>10. CASE Check(p)
  <2>1. CASE Answer(p)
    <3>1. s.pc \in {"check", "create"} /\ UNCHANGED faults
      BY <1>10 DEF Check
    <3> QED
      BY <1>1, <2>1, <3>1, AnswerType DEF TypeInv
  <2>2. CASE ~Answer(p)
    <3> DEFINE v == [s EXCEPT !.pc = "create"]
    <3>1. s \in CallStates(n)
      BY <1>1, <1>10, StatesByPc DEF Check
    <3>2. syncs' = [syncs EXCEPT ![p] = v]
          /\ UNCHANGED <<venue, trades, rows, nextId, waiting, spoiled, faults>>
      BY <1>10, <2>2 DEF Check, Goto
    <3> HIDE DEF s
    <3>3. v \in SyncStates(n)
      BY <3>1 DEF CallStates, SyncStates
    <3> HIDE DEF v
    <3> QED
      BY <1>1, <1>3, <3>2, <3>3
  <2> QED
    BY <2>1, <2>2
<1>11. CASE Create(p)
  <2>1. s.pc \in {"check", "create"} /\ Answer(p) /\ UNCHANGED faults
    BY <1>11 DEF Create
  <2> QED
    BY <1>1, <2>1, AnswerType DEF TypeInv
<1>12. CASE CallFails(p)
  <2> DEFINE v == [Lists(s) EXCEPT !.quiet = FALSE]
  <2>1. s \in CallStates(n) /\ Fault
    BY <1>1, <1>12, StatesByPc DEF CallFails
  <2>2. syncs' = [syncs EXCEPT ![p] = v]
        /\ UNCHANGED <<venue, trades, rows, nextId, waiting, spoiled>>
    BY <1>12 DEF CallFails, Goto, tables
  <2> HIDE DEF s
  <2>3. v \in SyncStates(n)
    BY <2>1, ListsType DEF SyncStates
  <2> HIDE DEF v
  <2> QED
    BY <1>1, <1>2, <1>3, <2>1, <2>2, <2>3
<1>13. CASE QueryFails(p)
  <2>1. faults' \in 0 .. MaxFaults
    BY <1>2, <1>13 DEF QueryFails
  <2>2. CASE \E o \in Options : Query(p, {o})
    BY <1>4, <2>1, <2>2
  <2>3. CASE ~\E o \in Options : Query(p, {o})
    BY <1>8, <1>13, <2>1, <2>3 DEF QueryFails
  <2> QED
    BY <2>2, <2>3
<1>14. CASE LockSyncMu
  <2>1. waiting' = waiting - 1 /\ waiting > 0 /\ waiting \in Nat
        /\ syncs' = [syncs EXCEPT !["monitor"] = Begun]
        /\ UNCHANGED <<venue, trades, rows, nextId, spoiled, faults>>
    BY <1>1, <1>14 DEF LockSyncMu, TradesOK, tables
  <2>2. TradesOK(trades', waiting')
    <3>1. Told(trades) \in Nat /\ Len(trades) \in Nat
      BY <1>1, ToldType DEF TradesOK
    <3> QED
      BY <1>1, <2>1, <3>1 DEF TradesOK
  <2>3. Begun \in SyncStates(n) /\ "monitor" \in Syncs
    BY DEF SyncStates, Syncs
  <2>4. SyncsOK(syncs', n)
    BY <2>1, <2>3, GotoType
  <2> QED
    BY <1>1, <2>1, <2>2, <2>4 DEF TypeInv
<1>15. CASE Query(p, {}) /\ UNCHANGED faults
  BY <1>1, <1>4, <1>15
<1> QED
  BY <1>5, <1>6, <1>7, <1>9, <1>10, <1>11, <1>12, <1>13, <1>14, <1>15 DEF Sync

\* At the start the rows are some of those of the last run.
LEMMA TypeInit == Init => TypeInv
<1> SUFFICES ASSUME Init PROVE TypeInv
  OBVIOUS
<1> DEFINE Ids == {r.id : r \in InitialRows}
           S == Ids \cup {0}
<1>1. IsFiniteSet(S) /\ S \in SUBSET Int /\ S # {}
  <2>1. IsFiniteSet(Ids)
    <3> DEFINE f == [r \in InitialRows |-> r.id]
    <3>1. f \in Surjection(InitialRows, Ids)
      BY DEF Surjection
    <3> HIDE DEF f, Ids
    <3> QED
      BY <3>1, RowsAssumption, FS_Surjection
  <2>2. Ids \in SUBSET Int
    BY RowsAssumption
  <2> HIDE DEF Ids
  <2>3. IsFiniteSet(S)
    BY <2>1, FS_AddElement
  <2> QED
    BY <2>2, <2>3
<1>2. Max(S) \in S /\ \A y \in S : y <= Max(S)
  <2> HIDE DEF S
  <2> QED
    BY <1>1, LargestElement
<1>3. nextId = Max(S) + 1
  BY DEF Init
<1>4. PICK m \in Int : m = Max(S)
  BY <1>1, <1>2
<1>5. nextId \in Nat \ {0}
  <2>1. 0 \in S
    OBVIOUS
  <2> HIDE DEF S
  <2> QED
    BY <1>2, <1>3, <1>4, <2>1
<1>6. rows \subseteq RowsBelow(nextId)
  <2>1. ASSUME NEW r \in rows PROVE r \in RowsBelow(nextId)
    <3>1. r \in InitialRows
      BY DEF Init
    <3>2. r \in [id : Nat \ {0}, option : Options, side : Sides, qty : Nat \ {0}]
      BY <3>1, RowsAssumption
    <3>3. r.id \in S
      BY <3>1
    <3>4. r.id \in Nat \ {0} /\ r.id <= m
      BY <1>2, <1>4, <3>2, <3>3
    <3>5. r.id \in 1 .. nextId - 1
      BY <1>3, <1>4, <3>4
    <3> QED
      BY <3>2, <3>5 DEF RowsBelow
  <2> QED
    BY <2>1
<1>7. RowsOK(rows, nextId)
  <2>1. rows \in SUBSET InitialRows
    BY DEF Init
  <2>2. IsFiniteSet(rows) /\ \A r, x \in rows : r.id = x.id => r = x
    BY <2>1, RowsAssumption, FS_Subset
  <2> QED
    BY <1>5, <1>6, <2>2 DEF RowsOK
<1>8. TradesOK(trades, waiting)
  <2>1. trades = << >> /\ waiting = 0
    BY DEF Init
  <2>2. << >> \in Seq(TradeType) /\ Len(<< >>) = 0
    OBVIOUS
  <2>3. 1 .. 0 = {}
    OBVIOUS
  <2>4. Told(<< >>) = 0
    BY <2>2, <2>3, SumEmpty DEF Told
  <2> QED
    BY <2>1, <2>2, <2>4, BoundsAssumption DEF TradesOK
<1>9. SyncsOK(syncs, nextId)
  BY DEF Init, SyncsOK, SyncStates
<1>10. venue \in [Options -> -MaxQty .. MaxQty] /\ spoiled \in BOOLEAN
  BY DEF Init
<1>11. faults \in 0 .. MaxFaults
  BY BoundsAssumption DEF Init
<1> QED
  BY <1>7, <1>8, <1>9, <1>10, <1>11 DEF TypeInv

LEMMA TypeStep == TypeInv /\ [Next]_vars => TypeInv'
<1> SUFFICES ASSUME TypeInv, [Next]_vars PROVE TypeInv'
  OBVIOUS
<1>1. ASSUME NEW o \in Options, Expire(o) PROVE TypeInv'
  <2>1. venue' \in [Options -> -MaxQty .. MaxQty]
    BY <1>1, BoundsAssumption DEF Expire, TypeInv
  <2>2. faults' \in 0 .. MaxFaults
    BY <1>1, BoundsAssumption DEF Expire, Fault, TypeInv
  <2>3. SyncsOK(Disturbed, nextId)
    BY DisturbedType DEF TypeInv
  <2> QED
    BY <1>1, <2>1, <2>2, <2>3 DEF Expire, TypeInv, tables
<1>2. CASE UNCHANGED vars
  BY <1>2 DEF vars, tables, TypeInv
<1>3. CASE LockSyncMu
  BY <1>3, SyncsType DEF Syncs
<1> QED
  BY <1>1, <1>2, <1>3, TradeType1, MessagesType, SyncsType DEF Next

\* The invariant gives the types, the registry being that of RegistryInv.
LEMMA TypeImplied == TypeInv /\ RegistryInv => TypeOK
<1> SUFFICES ASSUME TypeInv, RegistryInv PROVE TypeOK
  OBVIOUS
<1>1. registry \in [DOMAIN Tables -> [Options -> Nat]]
  BY TwoTables DEF RegistryInv, OK, Entry, TableIds, Tables
<1>2. /\ trades \in Seq(TradeType) /\ waiting \in Nat /\ Len(trades) <= MaxTrades
      /\ waiting + Told(trades) <= 2 * Len(trades)
  BY DEF TypeInv, TradesOK
<1>3. Told(trades) \in Nat /\ Len(trades) \in Nat
  BY <1>2, ToldType
<1>4. waiting \in 0 .. 2 * MaxTrades
  BY <1>2, <1>3, BoundsAssumption
<1> QED
  BY <1>1, <1>2, <1>4 DEF TypeOK, TypeInv, RowsOK, SyncsOK

\* Types, for any number of options, rows, trades and faults: the lists of the
\* syncs name rows that were made, and a message starts one goroutine at most.
THEOREM TypeInvariant == Spec => []TypeOK
  BY TypeInit, TypeStep, TypeImplied, RegistryInvariant, PTL DEF Spec
-----------------------------------------------------------------------------
(* Quiet syncs.                                                            *)

\* The rows of an option and side that are not to be deleted; what a sync has
\* yet to create, with the row in hand.
OfKey(r, k) == r.option = k[1] /\ r.side = k[2]
Kept(rs, D, k) == {r \in rs : OfKey(r, k) /\ r.id \notin D}
PlanOf(s) == s.create \cup s.adjust \cup (IF s.pc = "work" THEN {} ELSE {s.row})

\* Of each option and side what is kept and what is planned is what the venue
\* has, v; one row at most is planned for it, and where rows are only to be
\* added none is to be deleted.  The row in hand is on no list any more.
Settles(s, rs, v) ==
    /\ \A r, x \in PlanOf(s) : r.option = x.option /\ r.side = x.side => r = x
    /\ \A k \in Keys :
         /\ \A r \in PlanOf(s) : OfKey(r, k) =>
               QtyOf(Kept(rs, s.delete, k)) + r.qty = Qty(v[k[1]], k[2])
         /\ (\A r \in PlanOf(s) : ~OfKey(r, k)) =>
               QtyOf(Kept(rs, s.delete, k)) = Qty(v[k[1]], k[2])
    /\ \A r \in s.adjust, x \in rs :
         r.option = x.option /\ r.side = x.side => x.id \notin s.delete
    /\ s.pc # "work" => s.row \notin s.create \cup s.adjust

\* While a sync is quiet the other does nothing, and the venue is as it was seen.
Undisturbed(ss, rs, v, p) ==
    ss[p].quiet =>
        /\ \A q \in Syncs \ {p} : ss[q].pc \in {"idle", "begin"}
        /\ ss[p].pc = "match" => ss[p].seen = v
        /\ ss[p].pc \in {"work", "check", "create"} => Settles(ss[p], rs, v)

QuietInv == \A p \in Syncs : Undisturbed(syncs, rows, venue, p)

\* Who is disturbed is not quiet.
LEMMA DisturbedIsNot ==
    ASSUME TypeInv, NEW p \in Syncs PROVE ~Disturbed[p].quiet
  <1>1. syncs[p] \in SyncStates(nextId)
    BY DEF TypeInv, SyncsOK
  <1>2. CASE syncs[p].pc \in {"idle", "begin"}
    <2>1. syncs[p] \in {Idle, Begun}
      BY <1>1, <1>2, StatesByPc
    <2> QED
      BY <1>2, <2>1 DEF Disturbed, Active, Idle, Begun
  <1>3. CASE syncs[p].pc \notin {"idle", "begin"}
    <2>1. syncs[p] \in MatchStates \cup WorkStates(nextId) \cup CallStates(nextId)
      BY <1>1, <1>3 DEF SyncStates, Idle, Begun
    <2>2. "quiet" \in DOMAIN syncs[p]
      BY <2>1 DEF MatchStates, WorkStates, CallStates
    <2>3. Disturbed[p] = [syncs[p] EXCEPT !.quiet = FALSE]
      BY <1>3 DEF Disturbed, Active
    <2> QED
      BY <2>2, <2>3
  <1> QED
    BY <1>2, <1>3

\* Of what happens beside the syncs, and the sync that waits for its turn.
LEMMA QuietOutside ==
    ASSUME TypeInv, QuietInv,
           \/ syncs' = Disturbed
           \/ UNCHANGED <<syncs, rows, venue>>
    PROVE  QuietInv'
<1>1. CASE UNCHANGED <<syncs, rows, venue>>
  BY <1>1 DEF QuietInv
<1>2. CASE syncs' = Disturbed
  <2>1. \A p \in Syncs : ~Disturbed[p].quiet
    BY DisturbedIsNot
  <2>2. ASSUME NEW p \in Syncs, NEW rs, NEW v PROVE Undisturbed(Disturbed, rs, v, p)
    BY <2>1 DEF Undisturbed
  <2>3. \A p \in Syncs : Undisturbed(syncs', rows', venue', p)
    BY <1>2, <2>2
  <2> QED
    BY <2>3 DEF QuietInv
<1> QED
  BY <1>1, <1>2

\* A sync that becomes idle or begins.
LEMMA QuietRest ==
    ASSUME TypeInv, QuietInv, NEW p \in Syncs, NEW s \in {Idle, Begun},
           syncs' = [syncs EXCEPT ![p] = s], UNCHANGED <<rows, venue>>
    PROVE  QuietInv'
<1>1. DOMAIN syncs = Syncs
  BY DEF TypeInv, SyncsOK
<1>2. ASSUME NEW q \in Syncs
      PROVE  Undisturbed([syncs EXCEPT ![p] = s], rows, venue, q)
  <2>1. CASE q = p
    BY <1>1, <2>1 DEF Undisturbed, Idle, Begun
  <2>2. CASE q # p
    BY <1>1, <2>2 DEF QuietInv, Undisturbed, Idle, Begun
  <2> QED
    BY <2>1, <2>2
<1> QED
  BY <1>2 DEF QuietInv

\* A step of a sync that is under way: if the other were quiet, this were not.
LEMMA QuietGoto ==
    ASSUME TypeInv, QuietInv, NEW p \in Syncs, Active(p), NEW s,
           syncs' = [syncs EXCEPT ![p] = s], venue' = venue,
           s.quiet => /\ syncs[p].quiet
                      /\ s.pc \in {"work", "check", "create"}
                      /\ Settles(s, rows', venue)
    PROVE  QuietInv'
<1>1. DOMAIN syncs = Syncs
  BY DEF TypeInv, SyncsOK
<1>2. ASSUME NEW q \in Syncs
      PROVE  Undisturbed([syncs EXCEPT ![p] = s], rows', venue, q)
  <2>1. CASE q = p
    BY <1>1, <2>1 DEF QuietInv, Undisturbed
  <2>2. CASE q # p
    <3>1. ~syncs[q].quiet
      BY <2>2 DEF QuietInv, Undisturbed, Active
    <3> QED
      BY <1>1, <2>2, <3>1 DEF Undisturbed
  <2> QED
    BY <2>1, <2>2
<1> QED
  BY <1>2 DEF QuietInv

\* What the lists of MatchPositions leave of an option and side, and what they add.
LEMMA KeptByMatch ==
    ASSUME RowsOK(rows, nextId), NEW seen, NEW k \in Keys
    PROVE  Kept(rows, ToDelete(seen), k) =
             IF Qty(seen[k[1]], k[2]) < Books(k) THEN {} ELSE RowsOf(k)
<1>1. ASSUME NEW x \in RowsOf(k)
      PROVE  x.id \in ToDelete(seen) <=> Qty(seen[k[1]], k[2]) < Books(k)
  <2>1. ASSUME Qty(seen[k[1]], k[2]) < Books(k) PROVE x.id \in ToDelete(seen)
    BY <2>1 DEF ToDelete
  <2>2. ASSUME x.id \in ToDelete(seen) PROVE Qty(seen[k[1]], k[2]) < Books(k)
    <3>1. PICK j \in Keys : /\ Qty(seen[j[1]], j[2]) < Books(j)
                            /\ \E r \in RowsOf(j) : x.id = r.id
      BY <2>2 DEF ToDelete
    <3>2. PICK r \in RowsOf(j) : x.id = r.id
      BY <3>1
    <3>3. r = x
      BY <3>2 DEF RowsOK, RowsOf
    <3>4. j[1] = k[1] /\ j[2] = k[2]
      BY <3>2, <3>3 DEF RowsOf
    <3>5. j = k
      BY <3>4 DEF Keys
    <3> QED
      BY <3>1, <3>5
  <2> QED
    BY <2>1, <2>2
<1>2. Kept(rows, ToDelete(seen), k) = {x \in RowsOf(k) : x.id \notin ToDelete(seen)}
  BY DEF Kept, OfKey, RowsOf
<1> QED
  BY <1>1, <1>2

LEMMA CreatedByMatch ==
    ASSUME NEW seen, NEW r
    PROVE  /\ r \in ToCreate(seen) =>
                \E k \in Keys :
                   LET q == Qty(seen[k[1]], k[2])
                   IN  /\ r.option = k[1] /\ r.side = k[2] /\ r.qty = q /\ r = Row(k, q)
                       /\ q > 0 /\ (Books(k) = 0 \/ q < Books(k))
           /\ r \in ToAdjust(seen) =>
                \E k \in Keys :
                   LET q == Qty(seen[k[1]], k[2])
                   IN  /\ r.option = k[1] /\ r.side = k[2] /\ r.qty = q - Books(k)
                       /\ r = Row(k, q - Books(k))
                       /\ Books(k) > 0 /\ q > Books(k)
<1>1. ASSUME r \in ToCreate(seen)
      PROVE  \E k \in Keys :
                   LET q == Qty(seen[k[1]], k[2])
                   IN  /\ r.option = k[1] /\ r.side = k[2] /\ r.qty = q /\ r = Row(k, q)
                       /\ q > 0 /\ (Books(k) = 0 \/ q < Books(k))
  <2>1. PICK k \in Keys : /\ r = Row(k, Qty(seen[k[1]], k[2]))
                          /\ Qty(seen[k[1]], k[2]) > 0
                          /\ Books(k) = 0 \/ Qty(seen[k[1]], k[2]) < Books(k)
    BY <1>1 DEF ToCreate
  <2> QED
    BY <2>1 DEF Row
<1>2. ASSUME r \in ToAdjust(seen)
      PROVE  \E k \in Keys :
                   LET q == Qty(seen[k[1]], k[2])
                   IN  /\ r.option = k[1] /\ r.side = k[2] /\ r.qty = q - Books(k)
                       /\ r = Row(k, q - Books(k))
                       /\ Books(k) > 0 /\ q > Books(k)
  <2>1. PICK k \in Keys : /\ r = Row(k, Qty(seen[k[1]], k[2]) - Books(k))
                          /\ Books(k) > 0 /\ Qty(seen[k[1]], k[2]) > Books(k)
    BY <1>2 DEF ToAdjust
  <2> QED
    BY <2>1 DEF Row
<1> QED
  BY <1>1, <1>2

\* So the lists settle what the venue has.
LEMMA MatchSettles ==
    ASSUME RowsOK(rows, nextId), NEW seen \in [Options -> -MaxQty .. MaxQty], NEW s,
           s.pc = "work", s.create = ToCreate(seen), s.delete = ToDelete(seen),
           s.adjust = ToAdjust(seen)
    PROVE  Settles(s, rows, seen)
<1> DEFINE q(k) == Qty(seen[k[1]], k[2])
           Key(r) == <<r.option, r.side>>
<1>0. PlanOf(s) = ToCreate(seen) \cup ToAdjust(seen)
  BY DEF PlanOf
<1>1. ASSUME NEW k \in Keys
      PROVE  q(k) \in Nat /\ Books(k) \in Nat /\ k = <<k[1], k[2]>>
             /\ QtyOf(RowsOf(k)) = Books(k)
  <2>1. seen[k[1]] \in Int
    BY BoundsAssumption DEF Keys
  <2>2. q(k) \in Nat
    BY <2>1, QtyType
  <2>3. RowsOf(k) \in SUBSET rows
    BY DEF RowsOf
  <2>4. Books(k) \in Nat
    BY <2>3, RowsQty, QtyOfSubset DEF Books
  <2> QED
    BY <2>2, <2>4 DEF Keys, Books
<1>2. ASSUME NEW r \in ToCreate(seen)
      PROVE  /\ Key(r) \in Keys /\ r = Row(Key(r), q(Key(r))) /\ r.qty = q(Key(r))
             /\ q(Key(r)) > 0 /\ (Books(Key(r)) = 0 \/ q(Key(r)) < Books(Key(r)))
  <2>1. PICK k \in Keys : /\ r.option = k[1] /\ r.side = k[2]
                          /\ r = Row(k, q(k)) /\ r.qty = q(k)
                          /\ q(k) > 0 /\ (Books(k) = 0 \/ q(k) < Books(k))
    BY CreatedByMatch
  <2>2. Key(r) = k
    BY <1>1, <2>1
  <2> HIDE DEF q, Key
  <2> QED
    BY <2>1, <2>2
<1>3. ASSUME NEW r \in ToAdjust(seen)
      PROVE  /\ Key(r) \in Keys /\ r = Row(Key(r), q(Key(r)) - Books(Key(r)))
             /\ r.qty = q(Key(r)) - Books(Key(r))
             /\ Books(Key(r)) > 0 /\ q(Key(r)) > Books(Key(r))
  <2>1. PICK k \in Keys : /\ r.option = k[1] /\ r.side = k[2]
                          /\ r = Row(k, q(k) - Books(k)) /\ r.qty = q(k) - Books(k)
                          /\ Books(k) > 0 /\ q(k) > Books(k)
    BY CreatedByMatch
  <2>2. Key(r) = k
    BY <1>1, <2>1
  <2> HIDE DEF q, Key
  <2> QED
    BY <2>1, <2>2
<1>4. \A r, k : k \in Keys => (OfKey(r, k) <=> Key(r) = k)
  <2> SUFFICES ASSUME NEW r, NEW k \in Keys PROVE OfKey(r, k) <=> Key(r) = k
    OBVIOUS
  <2>1. k = <<k[1], k[2]>>
    BY <1>1
  <2> QED
    BY <2>1 DEF OfKey
<1>5. \A k \in Keys : Kept(rows, ToDelete(seen), k) =
                        IF q(k) < Books(k) THEN {} ELSE RowsOf(k)
  BY KeptByMatch
<1>6. \A r, x : (r.option = x.option /\ r.side = x.side) => Key(r) = Key(x)
  OBVIOUS
<1>7. \A x \in rows : Key(x) \in Keys
  BY DEF RowsOK, RowsBelow, Keys
<1>8. \A x \in rows : x \in RowsOf(Key(x))
  BY DEF RowsOf
<1>9. \A k \in Keys : /\ \A r \in ToCreate(seen) : Key(r) = k => r.qty = q(k)
                      /\ q(k) > 0 /\ (Books(k) = 0 \/ q(k) < Books(k))
                           => \E r \in ToCreate(seen) : Key(r) = k
                      /\ Books(k) > 0 /\ q(k) > Books(k)
                           => \E r \in ToAdjust(seen) : Key(r) = k
  <2> SUFFICES ASSUME NEW k \in Keys
               PROVE /\ \A r \in ToCreate(seen) : Key(r) = k => r.qty = q(k)
                     /\ q(k) > 0 /\ (Books(k) = 0 \/ q(k) < Books(k))
                           => \E r \in ToCreate(seen) : Key(r) = k
                     /\ Books(k) > 0 /\ q(k) > Books(k)
                           => \E r \in ToAdjust(seen) : Key(r) = k
    OBVIOUS
  <2>1. \A n : Key(Row(k, n)) = k
    BY <1>1 DEF Row
  <2>2. q(k) > 0 /\ (Books(k) = 0 \/ q(k) < Books(k)) => Row(k, q(k)) \in ToCreate(seen)
    BY DEF ToCreate
  <2>3. Books(k) > 0 /\ q(k) > Books(k) => Row(k, q(k) - Books(k)) \in ToAdjust(seen)
    BY DEF ToAdjust
  <2> HIDE DEF q, Key
  <2> QED
    BY <1>2, <2>1, <2>2, <2>3
<1> HIDE DEF q, Key
<1>10. ASSUME NEW r \in PlanOf(s), NEW x \in PlanOf(s), Key(r) = Key(x)
       PROVE  r = x
  <2>1. \A k \in Keys : ~(/\ (Books(k) = 0 \/ q(k) < Books(k))
                          /\ Books(k) > 0 /\ q(k) > Books(k))
    BY <1>1
  <2>2. CASE r \in ToCreate(seen) /\ x \in ToCreate(seen)
    BY <1>2, <1>10, <2>2
  <2>3. CASE r \in ToAdjust(seen) /\ x \in ToAdjust(seen)
    BY <1>3, <1>10, <2>3
  <2>4. CASE (r \in ToCreate(seen) /\ x \in ToAdjust(seen))
             \/ (r \in ToAdjust(seen) /\ x \in ToCreate(seen))
    BY <1>2, <1>3, <1>10, <2>1, <2>4
  <2> QED
    BY <1>0, <2>2, <2>3, <2>4
<1>11. ASSUME NEW k \in Keys, NEW r \in PlanOf(s), Key(r) = k
       PROVE  QtyOf(Kept(rows, s.delete, k)) + r.qty = q(k)
  <2>0. q(k) \in Nat /\ Books(k) \in Nat /\ QtyOf(RowsOf(k)) = Books(k)
    BY <1>1
  <2>1. CASE r \in ToCreate(seen)
    <3>1. r.qty = q(k) /\ (Books(k) = 0 \/ q(k) < Books(k))
      BY <1>2, <1>11, <2>1
    <3>2. QtyOf(Kept(rows, s.delete, k)) = 0
      BY <1>5, <2>0, <3>1, QtyOfNone
    <3> QED
      BY <2>0, <3>1, <3>2
  <2>2. CASE r \in ToAdjust(seen)
    <3>1. r.qty = q(k) - Books(k) /\ q(k) > Books(k)
      BY <1>3, <1>11, <2>2
    <3>2. QtyOf(Kept(rows, s.delete, k)) = Books(k)
      BY <1>5, <2>0, <3>1
    <3> QED
      BY <2>0, <3>1, <3>2
  <2> QED
    BY <1>0, <2>1, <2>2
<1>12. ASSUME NEW k \in Keys, \A r \in PlanOf(s) : Key(r) # k
       PROVE  QtyOf(Kept(rows, s.delete, k)) = q(k)
  <2>0. q(k) \in Nat /\ Books(k) \in Nat /\ QtyOf(RowsOf(k)) = Books(k)
    BY <1>1
  <2>1. /\ ~(q(k) > 0 /\ (Books(k) = 0 \/ q(k) < Books(k)))
        /\ ~(Books(k) > 0 /\ q(k) > Books(k))
    BY <1>0, <1>9, <1>12
  <2>2. q(k) = Books(k) \/ (q(k) = 0 /\ q(k) < Books(k))
    BY <2>0, <2>1
  <2>3. QtyOf(Kept(rows, s.delete, k)) = IF q(k) < Books(k) THEN 0 ELSE Books(k)
    BY <1>5, <2>0, QtyOfNone
  <2> QED
    BY <2>0, <2>2, <2>3
<1>13. ASSUME NEW r \in s.adjust, NEW x \in rows, Key(r) = Key(x)
       PROVE  x.id \notin s.delete
  <2>1. q(Key(x)) > Books(Key(x)) /\ Key(x) \in Keys
    BY <1>3, <1>13
  <2>2. ~(q(Key(x)) < Books(Key(x)))
    BY <1>1, <2>1
  <2>3. x \in Kept(rows, ToDelete(seen), Key(x))
    BY <1>5, <1>8, <2>1, <2>2
  <2> QED
    BY <2>3 DEF Kept
<1> QED
  BY <1>4, <1>6, <1>10, <1>11, <1>12, <1>13 DEF Settles, q

\* A sync that takes a row in hand, or goes on to its next call, plans the same.
LEMMA InHandSettles ==
    ASSUME NEW s, NEW rs, NEW v, Settles(s, rs, v), NEW row \in PlanOf(s), NEW pc,
           pc # "work", NEW table, s.pc # "work" => row = s.row
    PROVE  Settles(RowInHand(s, pc, row, table), rs, v)
<1> DEFINE n == RowInHand(s, pc, row, table)
<1>1. /\ n.pc = pc /\ n.row = row /\ n.delete = s.delete
      /\ n.create = s.create \ {row} /\ n.adjust = s.adjust \ {row}
  BY DEF RowInHand
<1> HIDE DEF n
<1>2. PlanOf(n) = PlanOf(s)
  BY <1>1 DEF PlanOf
<1>3. n.adjust \subseteq s.adjust
  BY <1>1
<1> QED
  BY <1>1, <1>2, <1>3 DEF Settles, n

\* A sync that finds no entry plans the same.
LEMMA CreateSettles ==
    ASSUME NEW n, NEW s \in CallStates(n), NEW rs, NEW v, Settles(s, rs, v),
           s.pc = "check"
    PROVE  Settles([s EXCEPT !.pc = "create"], rs, v)
<1> DEFINE t == [s EXCEPT !.pc = "create"]
<1>1. /\ t.pc = "create" /\ t.create = s.create /\ t.adjust = s.adjust
      /\ t.delete = s.delete /\ t.row = s.row
  BY DEF CallStates
<1> HIDE DEF t
<1>2. PlanOf(t) = PlanOf(s)
  BY <1>1 DEF PlanOf
<1> QED
  BY <1>1, <1>2 DEF Settles, t

\* The row in hand is created: what was planned is kept.
LEMMA RowSettles ==
    ASSUME NEW n, NEW s \in CallStates(n), NEW rs, RowsOK(rs, n), NEW v,
           Settles(s, rs, v)
    PROVE  Settles(Lists(s), rs \cup {Numbered(n, s.row)}, v)
<1> DEFINE t == Lists(s)
           x == Numbered(n, s.row)
           new == rs \cup {x}
<1>0. /\ s.row \in RowType /\ s.delete \subseteq 1 .. n - 1
      /\ s.pc # "work" /\ n \in Nat \ {0}
  BY DEF CallStates, RowsOK
<1>1. /\ t.pc = "work" /\ t.create = s.create /\ t.adjust = s.adjust
      /\ t.delete = s.delete
  BY DEF Lists
<1>2. /\ x.id = n /\ x.option = s.row.option /\ x.side = s.row.side
      /\ x.qty = s.row.qty /\ x.qty \in Nat
  BY <1>0 DEF Numbered, RowType
<1>3. x \notin rs /\ x.id \notin s.delete
  <2>1. \A r \in rs : r.id < n
    BY <1>0 DEF RowsOK, RowsBelow
  <2>2. n \notin s.delete
    BY <1>0
  <2> QED
    BY <1>0, <1>2, <2>1, <2>2
<1> HIDE DEF t, x
<1>4. PlanOf(s) = PlanOf(t) \cup {s.row} /\ s.row \notin PlanOf(t)
  BY <1>0, <1>1 DEF PlanOf, Settles
<1>5. \A k : Kept(new, s.delete, k) =
               IF OfKey(s.row, k) THEN Kept(rs, s.delete, k) \cup {x}
               ELSE Kept(rs, s.delete, k)
  BY <1>2, <1>3 DEF Kept, OfKey
<1>6. ASSUME NEW k
      PROVE  /\ QtyOf(Kept(rs, s.delete, k)) \in Nat
             /\ QtyOf(Kept(rs, s.delete, k) \cup {x}) =
                  QtyOf(Kept(rs, s.delete, k)) + s.row.qty
  <2>1. Kept(rs, s.delete, k) \in SUBSET rs
    BY DEF Kept
  <2>2. IsFiniteSet(rs) /\ \A r \in rs : r.qty \in Nat
    BY RowsQty
  <2>3. /\ IsFiniteSet(Kept(rs, s.delete, k))
        /\ \A r \in Kept(rs, s.delete, k) : r.qty \in Nat
        /\ QtyOf(Kept(rs, s.delete, k)) \in Nat
    BY <2>1, <2>2, FS_Subset, QtyOfSubset
  <2>4. x \notin Kept(rs, s.delete, k)
    BY <1>3, <2>1
  <2> QED
    BY <1>2, <2>3, <2>4, QtyOfMore
<1>7. \A r \in PlanOf(t) : r \in PlanOf(s)
                           /\ ~(r.option = s.row.option /\ r.side = s.row.side)
  BY <1>4 DEF Settles
<1>8. ASSUME NEW k \in Keys, NEW r \in PlanOf(t), OfKey(r, k)
      PROVE  QtyOf(Kept(new, s.delete, k)) + r.qty = Qty(v[k[1]], k[2])
  <2>1. ~OfKey(s.row, k) /\ r \in PlanOf(s)
    BY <1>7, <1>8 DEF OfKey
  <2> QED
    BY <1>5, <1>8, <2>1 DEF Settles
<1>9. ASSUME NEW k \in Keys, \A r \in PlanOf(t) : ~OfKey(r, k)
      PROVE  QtyOf(Kept(new, s.delete, k)) = Qty(v[k[1]], k[2])
  <2>1. CASE OfKey(s.row, k)
    <3>1. QtyOf(Kept(rs, s.delete, k)) + s.row.qty = Qty(v[k[1]], k[2])
      BY <1>4, <2>1 DEF Settles
    <3> QED
      BY <1>5, <1>6, <2>1, <3>1
  <2>2. CASE ~OfKey(s.row, k)
    <3>1. \A r \in PlanOf(s) : ~OfKey(r, k)
      BY <1>4, <1>9, <2>2
    <3>2. QtyOf(Kept(rs, s.delete, k)) = Qty(v[k[1]], k[2])
      BY <3>1 DEF Settles
    <3> QED
      BY <1>5, <2>2, <3>2
  <2> QED
    BY <2>1, <2>2
<1>10. \A r, y \in PlanOf(t) : r.option = y.option /\ r.side = y.side => r = y
  BY <1>4 DEF Settles
<1>11. \A r \in s.adjust, y \in new :
         r.option = y.option /\ r.side = y.side => y.id \notin s.delete
  BY <1>3 DEF Settles
<1> QED
  BY <1>1, <1>8, <1>9, <1>10, <1>11 DEF Settles, t, x

\* A row is deleted that was not to be kept.
LEMMA DeleteSettles ==
    ASSUME NEW n, NEW s \in WorkStates(n), NEW rs, NEW v, Settles(s, rs, v),
           NEW id \in s.delete
    PROVE  Settles([s EXCEPT !.delete = @ \ {id}], {r \in rs : r.id # id}, v)
<1> DEFINE t == [s EXCEPT !.delete = @ \ {id}]
           new == {r \in rs : r.id # id}
<1>1. /\ t.pc = "work" /\ s.pc = "work" /\ t.create = s.create /\ t.adjust = s.adjust
      /\ t.delete = s.delete \ {id}
  BY DEF WorkStates
<1> HIDE DEF t
<1>2. PlanOf(t) = PlanOf(s)
  BY <1>1 DEF PlanOf
<1>3. \A k : Kept(new, t.delete, k) = Kept(rs, s.delete, k)
  BY <1>1 DEF Kept
<1>4. new \subseteq rs /\ t.delete \subseteq s.delete
  BY <1>1
<1> HIDE DEF new
<1>5. Settles(t, new, v)
  BY <1>1, <1>2, <1>3, <1>4 DEF Settles
<1> QED
  BY <1>5 DEF t, new

\* Each step of a sync, and then every step.
LEMMA QuietQuery ==
    ASSUME TypeInv, QuietInv, NEW p \in Syncs, NEW failed, Query(p, failed)
    PROVE  QuietInv'
<1> DEFINE quiet == failed = {} /\ ~InFlight /\ \A q \in Syncs : ~Active(q)
           seen == [o \in Options |-> IF o \in failed THEN 0 ELSE venue[o]]
           s == [pc |-> "match", quiet |-> quiet, seen |-> seen]
<1>1. syncs' = [Disturbed EXCEPT ![p] = s] /\ UNCHANGED <<rows, venue>>
  BY DEF Query, tables
<1>2. DOMAIN Disturbed = Syncs
  BY DEF Disturbed
<1>3. s.pc = "match" /\ s.quiet = quiet /\ s.seen = seen
  OBVIOUS
<1>4. quiet => seen = venue
  BY DEF TypeInv
<1>5. quiet => \A q \in Syncs : Disturbed[q].pc \in {"idle", "begin"}
  BY DEF Disturbed, Active
<1> HIDE DEF s, quiet, seen
<1>6. ASSUME NEW q \in Syncs
      PROVE  Undisturbed([Disturbed EXCEPT ![p] = s], rows, venue, q)
  <2>1. CASE q = p
    BY <1>2, <1>3, <1>4, <1>5, <2>1 DEF Undisturbed
  <2>2. CASE q # p
    <3>1. ~Disturbed[q].quiet
      BY DisturbedIsNot
    <3> QED
      BY <1>2, <2>2, <3>1 DEF Undisturbed
  <2> QED
    BY <2>1, <2>2
<1> QED
  BY <1>1, <1>6 DEF QuietInv

LEMMA QuietAnswer ==
    ASSUME TypeInv, QuietInv, NEW p \in Syncs, syncs[p].pc \in {"check", "create"}, Answer(p)
    PROVE  QuietInv'
<1> DEFINE s == syncs[p]
<1>1. s \in CallStates(nextId) /\ Active(p) /\ RowsOK(rows, nextId) /\ venue' = venue
  <2>1. s \in SyncStates(nextId)
    BY DEF TypeInv, SyncsOK
  <2>2. venue' = venue
    BY DEF Answer, Goto
  <2> QED
    BY <2>1, <2>2, StatesByPc DEF TypeInv, Active
<1>2. s.quiet => Settles(s, rows, venue)
  BY DEF QuietInv, Undisturbed
<1>3. CASE s.table < Len(Tables)
  <2> DEFINE t == RowInHand(s, "check", s.row, s.table + 1)
  <2>1. syncs' = [syncs EXCEPT ![p] = t] /\ rows' = rows
    BY <1>3 DEF Answer, Goto
  <2>2. t.pc = "check" /\ t.quiet = s.quiet
    BY DEF RowInHand
  <2>3. s.row \in PlanOf(s)
    BY DEF PlanOf
  <2>4. s.quiet => Settles(t, rows, venue)
    BY <1>2, <2>3, InHandSettles
  <2> HIDE DEF t
  <2> QED
    BY <1>1, <2>1, <2>2, <2>4, QuietGoto
<1>4. CASE ~(s.table < Len(Tables))
  <2> DEFINE t == Lists(s)
  <2>1. syncs' = [syncs EXCEPT ![p] = t]
        /\ rows' = rows \cup {Numbered(nextId, s.row)}
    BY <1>4 DEF Answer, Goto
  <2>2. t.pc = "work" /\ t.quiet = s.quiet
    BY DEF Lists
  <2>3. s.quiet => Settles(t, rows \cup {Numbered(nextId, s.row)}, venue)
    BY <1>1, <1>2, RowSettles
  <2> HIDE DEF t
  <2> QED
    BY <1>1, <2>1, <2>2, <2>3, QuietGoto
<1> QED
  BY <1>3, <1>4

LEMMA QuietSyncs ==
    ASSUME TypeInv, QuietInv, NEW p \in Syncs, Sync(p) \/ QueryFails(p) \/ CallFails(p)
    PROVE  QuietInv'
<1> DEFINE s == syncs[p]
           n == nextId
<1>1. s \in SyncStates(n) /\ RowsOK(rows, n)
  BY DEF TypeInv, SyncsOK
<1>2. s.quiet /\ s.pc \in {"work", "check", "create"} => Settles(s, rows, venue)
  BY DEF QuietInv, Undisturbed
<1>3. ASSUME Match(p) PROVE QuietInv'
  <2> DEFINE t == [pc |-> "work", quiet |-> s.quiet, create |-> ToCreate(s.seen),
                   delete |-> ToDelete(s.seen), adjust |-> ToAdjust(s.seen)]
  <2>1. s \in MatchStates /\ Active(p)
    BY <1>1, <1>3, StatesByPc DEF Match, Active
  <2>2. s.seen \in [Options -> -MaxQty .. MaxQty] /\ s.pc = "match"
    BY <2>1 DEF MatchStates
  <2>3. s.quiet => s.seen = venue
    BY <2>2 DEF QuietInv, Undisturbed
  <2>4. syncs' = [syncs EXCEPT ![p] = t] /\ UNCHANGED <<rows, venue>>
    BY <1>3 DEF Match, Goto, tables
  <2>5. /\ t.pc = "work" /\ t.create = ToCreate(s.seen) /\ t.delete = ToDelete(s.seen)
        /\ t.adjust = ToAdjust(s.seen) /\ t.quiet = s.quiet
    OBVIOUS
  <2> HIDE DEF t
  <2>6. Settles(t, rows, s.seen)
    BY <1>1, <2>2, <2>5, MatchSettles
  <2>7. t.quiet => s.quiet /\ t.pc \in {"work", "check", "create"} /\ Settles(t, rows', venue)
    BY <2>3, <2>4, <2>5, <2>6
  <2> QED
    BY <2>1, <2>4, <2>7, QuietGoto
<1>4. ASSUME TakeCreate(p) \/ TakeAdjust(p) PROVE QuietInv'
  <2>1. PICK row \in s.create \cup s.adjust : Goto(p, RowInHand(s, "check", row, 1))
    BY <1>4 DEF TakeCreate, TakeAdjust
  <2>2. s.pc = "work" /\ Active(p) /\ UNCHANGED rows
    BY <1>4 DEF TakeCreate, TakeAdjust, Active, tables
  <2> DEFINE t == RowInHand(s, "check", row, 1)
  <2>3. syncs' = [syncs EXCEPT ![p] = t] /\ UNCHANGED venue
    BY <2>1 DEF Goto
  <2>4. t.pc = "check" /\ t.quiet = s.quiet
    BY DEF RowInHand
  <2>5. row \in PlanOf(s)
    BY <2>1 DEF PlanOf
  <2>6. s.quiet => Settles(t, rows, venue)
    BY <1>2, <2>2, <2>5, InHandSettles
  <2> HIDE DEF t
  <2>7. t.quiet => s.quiet /\ t.pc \in {"work", "check", "create"} /\ Settles(t, rows', venue)
    BY <2>2, <2>4, <2>6
  <2> QED
    BY <2>2, <2>3, <2>7, QuietGoto
<1>5. ASSUME DeleteRow(p) PROVE QuietInv'
  <2>1. PICK id \in s.delete : /\ Goto(p, [s EXCEPT !.delete = @ \ {id}])
                               /\ rows' = {r \in rows : r.id # id}
    BY <1>5 DEF DeleteRow
  <2>2. s \in WorkStates(n) /\ Active(p) /\ s.pc = "work"
    BY <1>1, <1>5, StatesByPc DEF DeleteRow, Active
  <2> DEFINE t == [s EXCEPT !.delete = @ \ {id}]
  <2>3. syncs' = [syncs EXCEPT ![p] = t] /\ UNCHANGED venue
    BY <2>1 DEF Goto
  <2>4. t.pc = "work" /\ t.quiet = s.quiet
    BY <2>2 DEF WorkStates
  <2> HIDE DEF s, n
  <2>5. s.quiet => Settles(t, {r \in rows : r.id # id}, venue)
    BY <1>2, <2>2, DeleteSettles
  <2> USE DEF s
  <2> HIDE DEF t
  <2>6. t.quiet => s.quiet /\ t.pc \in {"work", "check", "create"} /\ Settles(t, rows', venue)
    BY <2>1, <2>4, <2>5
  <2> QED
    BY <2>2, <2>3, <2>6, QuietGoto
<1>6. ASSUME Finish(p) PROVE QuietInv'
  BY <1>6, QuietRest DEF Finish, tables
<1>7. ASSUME Check(p) PROVE QuietInv'
  <2>1. CASE Answer(p)
    BY <1>7, <2>1, QuietAnswer DEF Check
  <2>2. CASE ~Answer(p)
    <3>1. s \in CallStates(n) /\ Active(p) /\ s.pc = "check"
      BY <1>1, <1>7, StatesByPc DEF Check, Active
    <3> DEFINE t == [s EXCEPT !.pc = "create"]
    <3>2. syncs' = [syncs EXCEPT ![p] = t] /\ UNCHANGED <<rows, venue>>
      BY <1>7, <2>2 DEF Check, Goto
    <3>3. t.pc = "create" /\ t.quiet = s.quiet
      BY <3>1 DEF CallStates
    <3>4. s.quiet => Settles(t, rows, venue)
      BY <1>2, <3>1, CreateSettles
    <3> HIDE DEF t
    <3>5. t.quiet => s.quiet /\ t.pc \in {"work", "check", "create"} /\ Settles(t, rows', venue)
      BY <3>2, <3>3, <3>4
    <3> QED
      BY <3>1, <3>2, <3>5, QuietGoto
  <2> QED
    BY <2>1, <2>2
<1>8. ASSUME Create(p) PROVE QuietInv'
  BY <1>8, QuietAnswer DEF Create
<1>9. ASSUME CallFails(p) PROVE QuietInv'
  <2>1. Active(p)
    BY <1>9 DEF CallFails, Active
  <2> DEFINE t == [Lists(s) EXCEPT !.quiet = FALSE]
  <2>2. syncs' = [syncs EXCEPT ![p] = t] /\ UNCHANGED venue
    BY <1>9 DEF CallFails, Goto
  <2>3. ~t.quiet
    BY DEF Lists
  <2> HIDE DEF t
  <2> QED
    BY <2>1, <2>2, <2>3, QuietGoto
<1>10. ASSUME QueryFails(p) PROVE QuietInv'
  <2>1. CASE \E o \in Options : Query(p, {o})
    BY <2>1, QuietQuery
  <2>2. CASE ~\E o \in Options : Query(p, {o})
    BY <1>10, <2>2, QuietRest DEF QueryFails, tables
  <2> QED
    BY <2>1, <2>2
<1> QED
  BY <1>3, <1>4, <1>5, <1>6, <1>7, <1>8, <1>9, <1>10, QuietQuery DEF Sync

LEMMA QuietStep == TypeInv /\ QuietInv /\ [Next]_vars => QuietInv'
<1> SUFFICES ASSUME TypeInv, QuietInv, [Next]_vars PROVE QuietInv'
  OBVIOUS
<1>1. ASSUME NEW o \in Options, NEW delta, NEW own, NEW messages,
             Trade(o, delta, own, messages) \/ Expire(o)
      PROVE  QuietInv'
  BY <1>1, QuietOutside DEF Trade, Expire
<1>2. ASSUME NEW i, Register(i) \/ Record(i) \/ GiveUp(i) \/ LoseMessage(i)
      PROVE  QuietInv'
  BY <1>2, QuietOutside DEF Register, Record, GiveUp, LoseMessage, tables
<1>3. CASE LockSyncMu
  <2>1. "monitor" \in Syncs
    BY DEF Syncs
  <2> QED
    BY <1>3, <2>1, QuietRest DEF LockSyncMu, tables
<1>4. CASE UNCHANGED vars
  BY <1>4, QuietOutside DEF vars, tables
<1> QED
  BY <1>1, <1>2, <1>3, <1>4, QuietSyncs DEF Next

LEMMA QuietInit == Init => QuietInv
<1> SUFFICES ASSUME Init PROVE QuietInv
  OBVIOUS
<1>1. ASSUME NEW p \in Syncs PROVE ~syncs[p].quiet
  BY DEF Init, Idle, Begun
<1> QED
  BY <1>1 DEF QuietInv, Undisturbed

\* In every reachable state what a quiet sync keeps and plans is what the venue has.
THEOREM QuietInvariant == Spec => [](TypeInv /\ QuietInv)
  BY TypeInit, TypeStep, QuietInit, QuietStep, PTL DEF Spec

LEMMA QuietMatches == TypeInv /\ QuietInv => QuietSyncMatches
<1> SUFFICES ASSUME TypeInv, QuietInv, NEW p \in Syncs, Done(p), syncs[p].quiet,
                    NEW k \in Keys
             PROVE  Books(k) = Held(k)
  BY DEF QuietSyncMatches
<1> DEFINE s == syncs[p]
<1>1. /\ Settles(s, rows, venue) /\ s.pc = "work"
      /\ s.create = {} /\ s.delete = {} /\ s.adjust = {}
  BY DEF Done, QuietInv, Undisturbed
<1> HIDE DEF s
<1>2. PlanOf(s) = {}
  BY <1>1 DEF PlanOf
<1>3. QtyOf(Kept(rows, s.delete, k)) = Held(k)
  BY <1>1, <1>2 DEF Settles, Held
<1>4. Kept(rows, s.delete, k) = RowsOf(k)
  BY <1>1 DEF Kept, OfKey, RowsOf
<1> QED
  BY <1>3, <1>4 DEF Books

\* A sync that nothing disturbs leaves the positions of the venue, for any
\* rows, quantities and options, two or more rows of an option included.
THEOREM QuietSyncMatchesInvariant == Spec => []QuietSyncMatches
  BY QuietInvariant, QuietMatches, PTL

\* Rows go by a deletion only.
LEMMA WhoDeletes ==
    ASSUME [Next]_vars
    PROVE  rows \subseteq rows' \/ \E p \in Syncs : DeleteRow(p)
<1>1. ASSUME NEW p \in Syncs, Sync(p) \/ QueryFails(p) \/ CallFails(p), ~DeleteRow(p)
      PROVE  rows \subseteq rows'
  BY <1>1 DEF Sync, Query, Match, TakeCreate, TakeAdjust, Finish, Check, Create, Answer,
              QueryFails, CallFails, tables
<1> QED
  BY <1>1 DEF Next, Trade, Expire, Register, Record, GiveUp, LoseMessage, LockSyncMu,
              vars, tables

\* Books before and after a step.
LEMMA BooksAfter ==
    ASSUME NEW k
    PROVE  /\ Books(k) = QtyOf(Kept(rows, {}, k))
           /\ Books(k)' = QtyOf(Kept(rows', {}, k))
  BY DEF Books, RowsOf, QtyOf, Kept, OfKey

LEMMA QuietCovers ==
    ASSUME TypeInv, TypeInv', QuietInv, [Next]_vars, NEW p \in Syncs,
           Active(p), syncs[p].quiet, NEW k \in Keys
    PROVE  Books(k)' >= Min({Books(k), Held(k)})
<1>0. RowsOK(rows, nextId) /\ RowsOK(rows', nextId')
  BY DEF TypeInv
<1>1. /\ IsFiniteSet(rows) /\ \A r \in rows : r.qty \in Nat
      /\ IsFiniteSet(rows') /\ \A r \in rows' : r.qty \in Nat
  BY <1>0, RowsQty
<1>2. \A D : /\ Kept(rows, D, k) \in SUBSET rows
             /\ Kept(rows', D, k) \in SUBSET rows'
  BY DEF Kept
<1>3. \A D : /\ QtyOf(Kept(rows, D, k)) \in Nat
             /\ QtyOf(Kept(rows', D, k)) \in Nat
  BY <1>1, <1>2, QtyOfSubset
<1>4. /\ IsFiniteSet(Kept(rows', {}, k))
      /\ \A r \in Kept(rows', {}, k) : r.qty \in Nat
  BY <1>1, <1>2, FS_Subset
<1>5. Books(k) \in Nat /\ Books(k)' \in Nat /\ Held(k) \in Nat
  <2>1. venue[k[1]] \in Int
    BY BoundsAssumption DEF TypeInv, Keys
  <2> QED
    BY <1>3, <2>1, BooksAfter, QtyType DEF Held
<1>6. PICK b \in Nat, h \in Nat, n \in Nat : b = Books(k) /\ h = Held(k) /\ n = Books(k)'
  BY <1>5
<1>7. Min({b, h}) <= b /\ Min({b, h}) <= h /\ Min({b, h}) \in Nat
  <2>1. {b, h} \in SUBSET Nat /\ {b, h} # {}
    OBVIOUS
  <2>2. Min({b, h}) \in {b, h} /\ \A x \in {b, h} : Min({b, h}) <= x
    BY <2>1, SmallestElement
  <2> QED
    BY <2>2
<1>8. SUFFICES n >= b \/ n >= h
  BY <1>6, <1>7
<1>9. CASE rows \subseteq rows'
  <2>1. Kept(rows, {}, k) \in SUBSET Kept(rows', {}, k)
    BY <1>9 DEF Kept
  <2>2. QtyOf(Kept(rows, {}, k)) <= QtyOf(Kept(rows', {}, k))
    BY <1>4, <2>1, QtyOfSome
  <2> QED
    BY <1>6, <2>2, BooksAfter
<1>10. CASE \E q \in Syncs : DeleteRow(q)
  <2>1. PICK q \in Syncs : DeleteRow(q)
    BY <1>10
  <2>2. q = p
    BY <2>1 DEF DeleteRow, QuietInv, Undisturbed
  <2> DEFINE s == syncs[p]
  <2>3. PICK id \in s.delete : rows' = {r \in rows : r.id # id}
    BY <2>1, <2>2 DEF DeleteRow
  <2>4. s.pc = "work" /\ s.create = {} /\ Settles(s, rows, venue)
    BY <2>1, <2>2 DEF DeleteRow, QuietInv, Undisturbed
  <2> HIDE DEF s
  <2>5. CASE \E x \in rows : OfKey(x, k) /\ x.id \in s.delete
    <3>1. \A r \in PlanOf(s) : ~OfKey(r, k)
      BY <2>4, <2>5 DEF Settles, PlanOf, OfKey
    <3>2. QtyOf(Kept(rows, s.delete, k)) = Held(k)
      BY <2>4, <3>1 DEF Settles, Held
    <3>3. Kept(rows, s.delete, k) \in SUBSET Kept(rows', {}, k)
      BY <2>3 DEF Kept
    <3>4. QtyOf(Kept(rows, s.delete, k)) <= QtyOf(Kept(rows', {}, k))
      BY <1>4, <3>3, QtyOfSome
    <3> QED
      BY <1>6, <3>2, <3>4, BooksAfter
  <2>6. CASE ~\E x \in rows : OfKey(x, k) /\ x.id \in s.delete
    <3>1. Kept(rows, {}, k) = Kept(rows', {}, k)
      BY <2>3, <2>6 DEF Kept
    <3> QED
      BY <1>6, <3>1, BooksAfter
  <2> QED
    BY <2>5, <2>6
<1> QED
  BY <1>9, <1>10, WhoDeletes

\* And at no step does it take away a position that the books had and the venue has.
THEOREM NeverUncoveredProperty == Spec => NeverUncovered
<1>1. TypeInv /\ TypeInv' /\ QuietInv /\ [Next]_vars =>
        [\A p \in Syncs :
            Active(p) /\ syncs[p].quiet =>
                \A k \in Keys : Books(k)' >= Min({Books(k), Held(k)})]_vars
  BY QuietCovers
<1> QED
  BY <1>1, QuietInvariant, PTL DEF Spec, NeverUncovered
=============================================================================
