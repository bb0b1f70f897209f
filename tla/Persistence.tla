---------------------------- MODULE Persistence ----------------------------
(***************************************************************************)
(* One table of internal/persistence: held in memory by two services,      *)
(* appended to its CSV file by goroutines, rewritten by compaction.        *)
(*                                                                         *)
(* Both services run on the same data directory.  One of them, the owner,  *)
(* creates and updates the rows of the table (the UOS those of user_orders *)
(* and user_strategies, the PMS those of uprunning_orders and of the       *)
(* positions); the other one only loads them, but like the owner it        *)
(* rewrites the file when it shuts down.  Every write changes the memory   *)
(* under GlobalState.rw and starts a goroutine that appends the row; the   *)
(* goroutines run in any order.                                            *)
(*                                                                         *)
(* The content of a row is a stamp, new with every write, and whether the  *)
(* write made it final (a terminal order, a deleted position).  Times are  *)
(* counted in half seconds: the file keeps the second of UpdatedAt, the    *)
(* memory the instant, which is later than its second and never equal.     *)
(***************************************************************************)
EXTENDS Naturals, Sequences, SequencesExt, FiniteSets, FiniteSetsExt

CONSTANTS
    Kinds,        \* the tables to look at, a subset of AllKinds
    NumIds,       \* bound: row ids
    MaxWrites,    \* bound: creates and updates
    MaxSeconds,   \* bound: seconds that pass
    MaxStops,     \* bound: shutdowns and crashes
    MaxFaults     \* bound: appends that fail

AllKinds == {"user_orders", "uprunning_orders", "user_strategies"}

ASSUME KindsAssumption == Kinds \subseteq AllKinds /\ Kinds # {}
ASSUME BoundsAssumption ==
    {NumIds, MaxWrites, MaxSeconds, MaxStops, MaxFaults} \subseteq Nat

Ids == 1 .. NumIds
Services == {"owner", "other"}

\* The steps of a shutdown, in order.
Stopping == {"waited", "read", "loaded", "drained"}
\* The service has read the file and will replace it by what it read.
Rewriting == {"read", "loaded", "drained"}

VARIABLES
    kind,      \* which table this is
    second,    \* the clock
    mem,       \* per service, the table in memory
    counter,   \* per service, the table's id counter
    pc,        \* per service: up, a step of its shutdown, or down
    snap,      \* per service, the rows a reload has read and not yet stored
    scanned,   \* owner: the rows the scanner's reload has read, or Nothing
    pend,      \* owner: the rows whose append has not run
    file,      \* the rows of the CSV file, in order
    acked,     \* history: the last row written of each id
    exposed,   \* history: the ids whose last write may be lost
    writes, stops, faults   \* bounds

stores == <<mem, counter, pc, snap, scanned>>
bounds == <<writes, stops, faults>>
vars == <<kind, second, mem, counter, pc, snap, scanned, pend, file, acked,
          exposed, writes, stops, faults>>

None == [stamp |-> 0]
Row == [id : Ids, stamp : 1 .. MaxWrites, final : BOOLEAN, at : Nat]
Table == [Ids -> Row \cup {None}]
Empty == [id \in Ids |-> None]
Nothing == << >>

\* UpdatedAt as the memory has it, and as the file keeps it.
Instant == 2 * second + 1
OnDisk(row) == [row EXCEPT !.at = 2 * (@ \div 2)]

\* Tables whose rows end: a final row wins a tie.
Ends == kind # "user_strategies"
-----------------------------------------------------------------------------
(* Loading.                                                                *)

\* Mutant: the first row of the latest time wins, whatever its state.
SupersedesNewer(new, old) == old = None \/ new.at > old.at

\* Row new, met later in the file, replaces row old.
Supersedes(new, old) ==
    \/ old = None
    \/ new.at > old.at
    \/ Ends /\ new.at = old.at /\ new.final /\ ~old.final

\* The table after the rows of the file, starting from table start.
LoadInto(start, rows) ==
    FoldLeft(LAMBDA table, row :
               IF Supersedes(row, table[row.id])
               THEN [table EXCEPT ![row.id] = row] ELSE table, start, rows)

Load(rows) == LoadInto(Empty, rows)

\* Mutant: the reload of uprunning orders starts from an empty table.
MergeReplaces(table, rows) == Load(rows)

\* reloadUprunningOrders keeps what is in memory unless the file has better.
Merge(table, rows) == LoadInto(table, rows)

\* Mutants: the counter does not look at the rows, or counts them.
CounterReset(n, rows) == n
CounterOfRows(n, rows) == Max({n, Len(rows)})

\* updateIDCounter, called for every row of the file.
CounterAfter(n, rows) == Max({n} \cup {rows[i].id : i \in 1 .. Len(rows)})

\* What a service would read if it started now.
Durable == [id \in Ids |-> Load(file)[id].stamp]
-----------------------------------------------------------------------------
Init ==
    /\ kind \in Kinds
    /\ second = 0
    /\ mem = [s \in Services |-> Empty]
    /\ counter = [s \in Services |-> 0]
    /\ pc = [s \in Services |-> "up"]
    /\ snap = [s \in Services |-> Nothing]
    /\ scanned = [read |-> FALSE, rows |-> Nothing]
    /\ pend = {}
    /\ file = Nothing
    /\ acked = Empty
    /\ exposed = {}
    /\ writes = 0 /\ stops = 0 /\ faults = 0

\* A handler or worker of the owner may write until the process is gone.
MayWrite == pc["owner"] # "down" /\ writes < MaxWrites

\* Memory and a goroutine that appends the row.  A write during the owner's
\* own shutdown may be lost with the memory that is reloaded.
Write(id, final, tie) ==
    LET row == [id |-> id, stamp |-> writes + 1, final |-> final, at |-> Instant]
    IN  /\ mem' = [mem EXCEPT !["owner"][id] = row]
        /\ pend' = pend \cup {row}
        /\ acked' = [acked EXCEPT ![id] = row]
        /\ exposed' = IF pc["owner"] \in Stopping \/ tie
                      THEN exposed \cup {id} ELSE exposed
        /\ writes' = writes + 1

\* CreateUserOrder and its like: nextID, then the row.
Create ==
    /\ MayWrite
    /\ counter["owner"] < NumIds
    /\ counter' = [counter EXCEPT !["owner"] = @ + 1]
    /\ Write(counter["owner"] + 1, FALSE, FALSE)
    /\ UNCHANGED <<kind, second, pc, snap, scanned, file, stops, faults>>

\* UpdateUserOrderStatus and its like, of a row that is not final.  The file
\* cannot order two states of one second, except that a final one wins.
Update(id) ==
    /\ MayWrite
    /\ mem["owner"][id] # None
    /\ ~mem["owner"][id].final
    /\ \E final \in (IF Ends THEN BOOLEAN ELSE {FALSE}) :
         Write(id, final, ~final /\ mem["owner"][id].at \div 2 = second)
    /\ UNCHANGED <<kind, second, counter, pc, snap, scanned, file, stops, faults>>

\* What becomes of the exposed rows when a row is appended to the file: lost
\* with it if the other service has read the file and will replace it; safe
\* if it is the last state of its id, a restart would read it, and neither
\* service is shutting down.
ExposedAfter(row, rows) ==
    CASE pc["other"] \in Rewriting -> exposed \cup {row.id}
      [] /\ pc["other"] \notin Rewriting
         /\ pc["owner"] \notin Stopping
         /\ \A other \in pend \ {row} : other.id # row.id
         /\ row = acked[row.id]
         /\ Load(rows)[row.id].stamp = row.stamp -> exposed \ {row.id}
      [] OTHER -> exposed

\* Mutant: the row is forgotten.
AppendRowForgets(row) ==
    /\ row \in pend
    /\ pend' = pend \ {row}
    /\ UNCHANGED <<kind, second, stores, file, acked, exposed, bounds>>

\* AppendRow, in a goroutine; the goroutines run in any order.
AppendRow(row) ==
    /\ row \in pend
    /\ pend' = pend \ {row}
    /\ file' = Append(file, OnDisk(row))
    /\ exposed' = ExposedAfter(row, file')
    /\ UNCHANGED <<kind, second, stores, acked, bounds>>

\* AppendRow returns an error, which is only logged.
AppendFails(row) ==
    /\ faults < MaxFaults
    /\ row \in pend
    /\ pend' = pend \ {row}
    /\ exposed' = exposed \cup {row.id}
    /\ faults' = faults + 1
    /\ UNCHANGED <<kind, second, stores, file, acked, writes, stops>>

Tick ==
    /\ second < MaxSeconds
    /\ second' = second + 1
    /\ UNCHANGED <<kind, stores, pend, file, acked, exposed, bounds>>
-----------------------------------------------------------------------------
(* The scanner's ReloadUprunningOrders: the file is read before the lock.  *)

ScanRead ==
    /\ kind = "uprunning_orders"
    /\ pc["owner"] # "down"
    /\ ~scanned.read
    /\ scanned' = [read |-> TRUE, rows |-> file]
    /\ UNCHANGED <<kind, second, mem, counter, pc, snap, pend, file, acked,
                   exposed, bounds>>

\* Merged into maps that the owner's shutdown has cleared, what was read may
\* keep out what the shutdown has read since.
ScanMerge ==
    /\ scanned.read
    /\ mem' = [mem EXCEPT !["owner"] = Merge(@, scanned.rows)]
    /\ counter' = [counter EXCEPT !["owner"] = CounterAfter(@, scanned.rows)]
    /\ scanned' = [read |-> FALSE, rows |-> Nothing]
    /\ exposed' = IF pc["owner"] \in Stopping
                  THEN exposed \cup {row.id : row \in Range(scanned.rows)}
                  ELSE exposed
    /\ UNCHANGED <<kind, second, pc, snap, pend, file, acked, bounds>>
-----------------------------------------------------------------------------
(* The shutdown of a service: Shutdown, Reload, CompactAll.  The handlers  *)
(* and workers of the service may still be running.                        *)

Pending(s) == IF s = "owner" THEN pend ELSE {}

Goto(s, step) == pc' = [pc EXCEPT ![s] = step]

\* Mutant: nobody waits for the goroutines.
StopWaitNot(s) ==
    /\ pc[s] = "up"
    /\ stops < MaxStops
    /\ Goto(s, "waited")
    /\ stops' = stops + 1
    /\ UNCHANGED <<kind, second, mem, counter, snap, scanned, pend, file, acked,
                   exposed, writes, faults>>

\* Shutdown: writeWg.Wait().
StopWait(s) ==
    /\ pc[s] = "up"
    /\ stops < MaxStops
    /\ Pending(s) = {}
    /\ Goto(s, "waited")
    /\ stops' = stops + 1
    /\ UNCHANGED <<kind, second, mem, counter, snap, scanned, pend, file, acked,
                   exposed, writes, faults>>

\* Reload: the maps are replaced by empty ones under the lock and the file is
\* read; what happens in between could as well happen before or after ...
ReloadRead(s) ==
    /\ pc[s] = "waited"
    /\ mem' = [mem EXCEPT ![s] = Empty]
    /\ snap' = [snap EXCEPT ![s] = file]
    /\ Goto(s, "read")
    /\ UNCHANGED <<kind, second, counter, scanned, pend, file, acked, exposed,
                   bounds>>

\* ... and what was read becomes the table, or is merged into it.
ReloadStore(s) ==
    /\ pc[s] = "read"
    /\ mem' = [mem EXCEPT ![s] = IF kind = "uprunning_orders"
                                 THEN Merge(@, snap[s]) ELSE Load(snap[s])]
    /\ counter' = [counter EXCEPT ![s] = CounterAfter(@, snap[s])]
    /\ snap' = [snap EXCEPT ![s] = Nothing]
    /\ Goto(s, "loaded")
    /\ UNCHANGED <<kind, second, scanned, pend, file, acked, exposed, bounds>>

\* CompactAll: writeWg.Wait().
CompactWait(s) ==
    /\ pc[s] = "loaded"
    /\ Pending(s) = {}
    /\ Goto(s, "drained")
    /\ UNCHANGED <<kind, second, mem, counter, snap, scanned, pend, file, acked,
                   exposed, bounds>>

\* The process is gone, and with it all it has in memory.
Gone(s) ==
    /\ Goto(s, "down")
    /\ mem' = [mem EXCEPT ![s] = Empty]
    /\ counter' = [counter EXCEPT ![s] = 0]
    /\ snap' = [snap EXCEPT ![s] = Nothing]
    /\ scanned' = IF s = "owner" THEN [read |-> FALSE, rows |-> Nothing] ELSE scanned
    /\ pend' = pend \ Pending(s)

\* validateAllTablesBeforeCompact: an empty memory does not replace a file
\* with rows; the service ends without compacting.
CompactRefused(s) == mem[s] = Empty /\ file # Nothing

\* The file that Compact writes beside the old one: a row for each id.
Compacted(table) == SetToSeq({OnDisk(table[id]) : id \in {i \in Ids : table[i] # None}})

\* CompactAll, under the lock: the new file is renamed over the old one.  The
\* rows of appends that are still in flight are in memory.
Compact(s) ==
    /\ pc[s] = "drained"
    /\ ~CompactRefused(s)
    /\ file' = Compacted(mem[s])
    /\ Gone(s)
    /\ UNCHANGED <<kind, second, acked, exposed, bounds>>

CompactSkipped(s) ==
    /\ pc[s] = "drained"
    /\ CompactRefused(s)
    /\ Gone(s)
    /\ exposed' = exposed \cup {row.id : row \in Pending(s)}
    /\ UNCHANGED <<kind, second, file, acked, bounds>>

\* The process is killed: appends that have not run are lost.
Crash(s) ==
    /\ pc[s] # "down"
    /\ stops < MaxStops
    /\ Gone(s)
    /\ exposed' = exposed \cup {row.id : row \in Pending(s)}
    /\ stops' = stops + 1
    /\ UNCHANGED <<kind, second, file, acked, writes, faults>>

\* NewGlobalState.
Start(s) ==
    /\ pc[s] = "down"
    /\ mem' = [mem EXCEPT ![s] = Load(file)]
    /\ counter' = [counter EXCEPT ![s] = CounterAfter(0, file)]
    /\ Goto(s, "up")
    /\ UNCHANGED <<kind, second, snap, scanned, pend, file, acked, exposed, bounds>>
-----------------------------------------------------------------------------
Stop(s) == \/ StopWait(s)    \/ ReloadRead(s) \/ ReloadStore(s)
           \/ CompactWait(s) \/ Compact(s)    \/ CompactSkipped(s)

Next ==
    \/ Create
    \/ \E id \in Ids : Update(id)
    \/ \E row \in pend : AppendRow(row) \/ AppendFails(row)
    \/ Tick
    \/ ScanRead \/ ScanMerge
    \/ \E s \in Services : Stop(s) \/ Crash(s) \/ Start(s)

\* The scheduler runs every goroutine in the end.
Fairness == WF_vars(\E row \in pend : AppendRow(row))

Spec == Init /\ [][Next]_vars /\ Fairness
-----------------------------------------------------------------------------
TypeOK ==
    /\ kind \in Kinds
    /\ second \in 0 .. MaxSeconds
    /\ mem \in [Services -> Table]
    /\ counter \in [Services -> 0 .. NumIds]
    /\ pc \in [Services -> {"up", "down"} \cup Stopping]
    /\ snap \in [Services -> Seq(Row)]
    /\ scanned \in [read : BOOLEAN, rows : Seq(Row)]
    /\ pend \subseteq Row
    /\ file \in Seq(Row)
    /\ acked \in Table
    /\ exposed \subseteq Ids

\* CreateX and UpdateX return before the row is on disk.  Once its goroutine
\* has run, a restart of either service reads the last state written, unless
\* the write is exposed: still unwritten at a kill, refused by the disk, made
\* during the owner's shutdown or appended during the other service's, or a
\* second state in one second that is not final (global_state.go:207, 294,
\* 1928; cmd/user_order_service/main.go:110).
AckedIsDurable ==
    \A id \in Ids \ exposed :
        (\A row \in pend : row.id # id) => Durable[id] = acked[id].stamp

\* The scanner's reload never takes an order in memory back to an earlier
\* state, although the file lacks the rows still in flight
\* (global_state.go:302 "preserve unflushed updates").
ReloadKeepsNewer ==
    [][pc["owner"] = "up" /\ pc' = pc
         => \A id \in Ids \ exposed :
              mem'["owner"][id].stamp >= mem["owner"][id].stamp]_vars

\* A row gets an id that no row had before, across restarts, unless the row
\* that had it may have been lost (global_state.go:443, 451).
IdsAreFresh ==
    [][\A id \in Ids :
         /\ counter["owner"] = id - 1 /\ counter'["owner"] = id
         /\ writes' > writes
         => acked[id] = None \/ id \in exposed]_vars

\* A row whose write is not exposed reaches the disk.
WritesReachDisk ==
    \A id \in Ids, n \in 1 .. MaxWrites :
        acked[id].stamp = n ~> Durable[id] >= n \/ id \in exposed

\* What a restart reads never goes back to an older state, through appends,
\* reloads, compactions by either service, kills and restarts.
Disk == INSTANCE DurableTable WITH durable <- Durable
DiskKeepsRows == Disk!Spec
=============================================================================
