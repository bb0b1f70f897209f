------------------------- MODULE Persistence_proofs -------------------------
(***************************************************************************)
(* Proofs about Persistence.                                               *)
(*                                                                         *)
(* The first part says what a load computes: which row of the file a       *)
(* service ends up with, for every file.  A load is a fold over the rows,  *)
(* so this is proved by induction over the file (FoldLemmas).  The         *)
(* operators are those of Persistence with the kind of table, ends, as a   *)
(* parameter, so that the lemmas hold before and after a step.             *)
(***************************************************************************)
EXTENDS Persistence, FoldLemmas

Replaces(ends, new, old) ==
    \/ old = None
    \/ new.at > old.at
    \/ ends /\ new.at = old.at /\ new.final /\ ~old.final

Better(ends, table, row) ==
    IF Replaces(ends, row, table[row.id])
    THEN [table EXCEPT ![row.id] = row] ELSE table

\* The function by which the fold is defined.
Folding(ends, start, rows) ==
    CHOOSE it : it = [T \in SUBSET DOMAIN rows |->
        IF T = {} THEN start
        ELSE Better(ends, it[T \ {Max(T)}], rows[Max(T)])]

Loaded(ends, start, rows) == Folding(ends, start, rows)[DOMAIN rows]

\* The fold of the community modules is that function.
LEMMA LoadIntoIsLoaded ==
    /\ \A start, rows : LoadInto(start, rows) = Loaded(Ends, start, rows)
    /\ \A new, old : Supersedes(new, old) = Replaces(Ends, new, old)
<1>1. \A new, old : Supersedes(new, old) = Replaces(Ends, new, old)
  BY DEF Supersedes, Replaces
<1>2. ASSUME NEW start, NEW rows
      PROVE  LoadInto(start, rows) = Loaded(Ends, start, rows)
  BY DEF LoadInto, FoldLeft, MapThenFoldSet, Loaded, Folding, Better, Supersedes, Replaces
<1> QED
  BY <1>1, <1>2

LEMMA NoneIsNoRow == None \notin Row /\ \A r \in Row : r # None
BY DEF None, Row

LEMMA BetterType ==
    ASSUME NEW ends, NEW table \in Table, NEW row \in Row
    PROVE  Better(ends, table, row) \in Table
BY DEF Better, Table, Row

LEMMA FoldingEquation ==
    ASSUME NEW ends, NEW start \in Table, NEW rows \in Seq(Row)
    PROVE  /\ Folding(ends, start, rows) \in [SUBSET DOMAIN rows -> Table]
           /\ \A T \in SUBSET DOMAIN rows : Folding(ends, start, rows)[T] =
                 IF T = {} THEN start
                 ELSE Better(ends, Folding(ends, start, rows)[T \ {Max(T)}], rows[Max(T)])
<1> DEFINE D == DOMAIN rows
           choose == [T \in SUBSET D |-> Max(T)]
           step == [p \in (SUBSET D) \X Table |-> Better(ends, p[2], rows[Max(p[1])])]
           Right(h) == [T \in SUBSET D |->
                          IF T = {} THEN start
                          ELSE Better(ends, h[T \ {Max(T)}], rows[Max(T)])]
           g == CHOOSE h : h = Right(h)
<1>0. D = 1 .. Len(rows) /\ Len(rows) \in Nat /\ \A i \in D : rows[i] \in Row
  BY LenProperties, ElementOfSeq
<1>1. IsFiniteSet(D) /\ \A T \in SUBSET D : IsFiniteSet(T) /\ T \in SUBSET Int
  <2>1. IsFiniteSet(D)
    BY <1>0, FS_Interval
  <2>2. \A T \in SUBSET D : IsFiniteSet(T)
    BY <2>1, FS_Subset
  <2>3. \A T \in SUBSET D : T \in SUBSET Int
    BY <1>0
  <2> QED
    BY <2>1, <2>2, <2>3
<1>2. \A T \in SUBSET D : T # {} => Max(T) \in T
  BY <1>1, LargestElement
<1>3. \A T \in SUBSET D : T # {} => choose[T] \in T
  BY <1>2
<1>4. ASSUME NEW T \in SUBSET D, NEW v \in Table, T # {}
      PROVE  step[<<T, v>>] = Better(ends, v, rows[Max(T)]) /\ step[<<T, v>>] \in Table
  <2>1. step[<<T, v>>] = Better(ends, v, rows[Max(T)])
    OBVIOUS
  <2>2. rows[Max(T)] \in Row
    BY <1>0, <1>2, <1>4
  <2> QED
    BY <2>1, <2>2, BetterType
<1>5. PICK h \in [SUBSET D -> Table] : Recursive(h, D, start, choose, step)
  <2>1. Recursion(D, Table, start, choose, step)
    BY <1>1, <1>3, <1>4 DEF Recursion
  <2> HIDE DEF choose, step, D
  <2> QED
    BY <2>1, SetRecursion
<1>6. \A T \in SUBSET D : h[T] = Right(h)[T]
  <2> SUFFICES ASSUME NEW T \in SUBSET D PROVE h[T] = Right(h)[T]
    OBVIOUS
  <2>1. h[T] = IF T = {} THEN start ELSE step[<<T, h[T \ {choose[T]}]>>]
    <3> HIDE DEF choose, step
    <3> QED
      BY <1>5 DEF Recursive
  <2>2. T # {} => step[<<T, h[T \ {choose[T]}]>>] = Better(ends, h[T \ {Max(T)}], rows[Max(T)])
    <3>1. h[T \ {Max(T)}] \in Table
      OBVIOUS
    <3>2. choose[T] = Max(T)
      OBVIOUS
    <3> HIDE DEF step, choose
    <3> QED
      BY <1>4, <3>1, <3>2
  <2> QED
    BY <2>1, <2>2
<1>7. h = Right(h)
  BY <1>6
<1>8. g = Right(g)
  <2> HIDE DEF Right
  <2> QED
    BY <1>7
<1>9. g = Folding(ends, start, rows)
  BY DEF Folding
<1>10. \A T \in SUBSET D : g[T] = IF T = {} THEN start
                                 ELSE Better(ends, g[T \ {Max(T)}], rows[Max(T)])
  <2> HIDE DEF g
  <2> QED
    BY <1>8
<1>11. \A T \in SUBSET D : g[T] = h[T]
  <2> DEFINE B == {T \in SUBSET D : g[T] # h[T]}
  <2>1. ASSUME NEW U \in B PROVE \E V \in B : V \subseteq U /\ V # U
    <3> HIDE DEF g
    <3>1. U # {}
      BY <1>6, <1>10
    <3>2. Max(U) \in U
      BY <1>2, <3>1
    <3>3. U \ {Max(U)} \in B
      BY <1>6, <1>10, <3>1
    <3> QED
      BY <3>2, <3>3
  <2>2. B = {}
    <3>1. B \in SUBSET SUBSET D
      OBVIOUS
    <3> HIDE DEF B, D
    <3> QED
      BY <1>1, <2>1, <3>1, NoMinimalSet
  <2> QED
    BY <2>2
<1>12. DOMAIN g = SUBSET D
  <2> HIDE DEF g
  <2> QED
    BY <1>8
<1>13. g \in [SUBSET D -> Table]
  <2>1. g = [T \in SUBSET D |-> g[T]]
    <3> HIDE DEF g
    <3> QED
      BY <1>8
  <2> HIDE DEF g
  <2> QED
    BY <1>11, <2>1
<1> HIDE DEF g
<1> QED
  BY <1>9, <1>10, <1>13

LEMMA EmptyIsTable == Empty \in Table /\ \A id \in Ids : Empty[id] = None
BY DEF Empty, Table

LEMMA LoadedType ==
    ASSUME NEW ends, NEW start \in Table, NEW rows \in Seq(Row)
    PROVE  Loaded(ends, start, rows) \in Table
<1>1. Folding(ends, start, rows) \in [SUBSET DOMAIN rows -> Table]
  BY FoldingEquation
<1>2. DOMAIN rows \in SUBSET DOMAIN rows
  OBVIOUS
<1> QED
  BY <1>1, <1>2 DEF Loaded

LEMMA LoadedNothing ==
    ASSUME NEW ends, NEW start \in Table
    PROVE  Loaded(ends, start, << >>) = start
<1>1. << >> \in Seq(Row) /\ DOMAIN << >> = {}
  BY EmptySeq
<1>2. \A T \in SUBSET DOMAIN << >> : Folding(ends, start, << >>)[T] =
         IF T = {} THEN start
         ELSE Better(ends, Folding(ends, start, << >>)[T \ {Max(T)}], << >>[Max(T)])
  BY <1>1, FoldingEquation
<1>3. Folding(ends, start, << >>)[{}] = start
  BY <1>2
<1> QED
  BY <1>1, <1>3 DEF Loaded

LEMMA LastOfInterval ==
    ASSUME NEW k \in Nat, k > 0
    PROVE  Max(1 .. k) = k /\ (1 .. k) \ {k} = 1 .. (k - 1)
<1>1. 1 .. k \in SUBSET Int /\ IsFiniteSet(1 .. k) /\ 1 .. k # {}
  <2>1. IsFiniteSet(1 .. k)
    BY FS_Interval
  <2>2. 1 \in 1 .. k
    OBVIOUS
  <2> QED
    BY <2>1, <2>2
<1>2. Max(1 .. k) \in 1 .. k /\ \A x \in 1 .. k : x <= Max(1 .. k)
  BY <1>1, LargestElement
<1> QED
  BY <1>2

\* One more row at the end of the file is one more step of the load.
LEMMA LoadedAppend ==
    ASSUME NEW ends, NEW start \in Table, NEW rows \in Seq(Row), NEW row \in Row
    PROVE  Loaded(ends, start, Append(rows, row))
             = Better(ends, Loaded(ends, start, rows), row)
<1> DEFINE more == Append(rows, row)
           n == Len(rows)
           A == Folding(ends, start, rows)
           B == Folding(ends, start, more)
<1>1. /\ more \in Seq(Row) /\ Len(more) = n + 1 /\ n \in Nat
      /\ DOMAIN rows = 1 .. n /\ DOMAIN more = 1 .. (n + 1)
      /\ \A i \in 1 .. n : more[i] = rows[i]
      /\ more[n + 1] = row
  BY AppendProperties, LenProperties
<1>2. /\ \A T \in SUBSET (1 .. n) : A[T] =
            IF T = {} THEN start ELSE Better(ends, A[T \ {Max(T)}], rows[Max(T)])
      /\ \A T \in SUBSET (1 .. (n + 1)) : B[T] =
            IF T = {} THEN start ELSE Better(ends, B[T \ {Max(T)}], more[Max(T)])
  <2>1. \A T \in SUBSET DOMAIN rows : A[T] =
            IF T = {} THEN start ELSE Better(ends, A[T \ {Max(T)}], rows[Max(T)])
    BY FoldingEquation
  <2>2. \A T \in SUBSET DOMAIN more : B[T] =
            IF T = {} THEN start ELSE Better(ends, B[T \ {Max(T)}], more[Max(T)])
    <3>1. \A rs \in Seq(Row) : \A T \in SUBSET DOMAIN rs : Folding(ends, start, rs)[T] =
            IF T = {} THEN start
            ELSE Better(ends, Folding(ends, start, rs)[T \ {Max(T)}], rs[Max(T)])
      <4> SUFFICES ASSUME NEW rs \in Seq(Row)
                   PROVE  \A T \in SUBSET DOMAIN rs : Folding(ends, start, rs)[T] =
                            IF T = {} THEN start
                            ELSE Better(ends, Folding(ends, start, rs)[T \ {Max(T)}],
                                        rs[Max(T)])
        OBVIOUS
      <4> HIDE DEF more, A, B, n
      <4> QED
        BY FoldingEquation
    <3> HIDE DEF more
    <3> QED
      BY <1>1, <3>1
  <2> HIDE DEF more, A, B
  <2> QED
    BY <1>1, <2>1, <2>2
<1> HIDE DEF A, B, more, n
<1> DEFINE Same == {k \in Nat : k <= n => A[1 .. k] = B[1 .. k]}
<1>3. 0 \in Same
  <2>1. 1 .. 0 = {}
    OBVIOUS
  <2> QED
    BY <1>1, <1>2, <2>1
<1>4. ASSUME NEW k \in Nat, k \in Same PROVE k + 1 \in Same
  <2> SUFFICES ASSUME k + 1 <= n PROVE A[1 .. (k + 1)] = B[1 .. (k + 1)]
    OBVIOUS
  <2>1. Max(1 .. (k + 1)) = k + 1 /\ (1 .. (k + 1)) \ {k + 1} = 1 .. k
    BY LastOfInterval
  <2>2. 1 .. (k + 1) \in SUBSET (1 .. n) /\ 1 .. (k + 1) \in SUBSET (1 .. (n + 1))
        /\ 1 .. (k + 1) # {} /\ k + 1 \in 1 .. n
    <3>1. k + 1 \in 1 .. (k + 1) /\ k + 1 \in 1 .. n
      BY <1>1
    <3>2. \A i \in 1 .. (k + 1) : i \in 1 .. n /\ i \in 1 .. (n + 1)
      BY <1>1
    <3> QED
      BY <3>1, <3>2
  <2>3. A[1 .. (k + 1)] = Better(ends, A[1 .. k], rows[k + 1])
    BY <1>2, <2>1, <2>2
  <2>4. B[1 .. (k + 1)] = Better(ends, B[1 .. k], more[k + 1])
    BY <1>2, <2>1, <2>2
  <2>5. A[1 .. k] = B[1 .. k]
    BY <1>1, <1>4
  <2> QED
    BY <1>1, <2>2, <2>3, <2>4, <2>5
<1>5. n \in Same
  <2> HIDE DEF Same
  <2> QED
    BY <1>1, <1>3, <1>4, NumberInduction
<1>6. A[1 .. n] = B[1 .. n]
  BY <1>1, <1>5
<1>7. Max(1 .. (n + 1)) = n + 1 /\ (1 .. (n + 1)) \ {n + 1} = 1 .. n
  BY <1>1, LastOfInterval
<1>8. B[1 .. (n + 1)] = Better(ends, B[1 .. n], row)
  <2>1. n + 1 \in 1 .. (n + 1)
    BY <1>1
  <2> QED
    BY <1>1, <1>2, <1>7, <2>1
<1> QED
  BY <1>1, <1>6, <1>8 DEF Loaded, A, B, more, n

\* Replaces is a strict order on the rows of one id.
LEMMA ReplacesOrder ==
    ASSUME NEW ends, NEW a \in Row, NEW b \in Row
    PROVE  /\ Replaces(ends, a, b) => ~Replaces(ends, b, a)
           /\ ~Replaces(ends, a, a)
           /\ \A c \in Row \cup {None} :
                Replaces(ends, a, b) /\ Replaces(ends, b, c) => Replaces(ends, a, c)
BY NoneIsNoRow DEF Replaces, Row

\* What a load does to one id depends on that id alone.
LEMMA LoadedLocal ==
    ASSUME NEW ends, NEW one \in Table, NEW two \in Table, NEW id \in Ids,
           one[id] = two[id], NEW rows \in Seq(Row)
    PROVE  Loaded(ends, one, rows)[id] = Loaded(ends, two, rows)[id]
<1> DEFINE C == {s \in Seq(Row) : Loaded(ends, one, s)[id] = Loaded(ends, two, s)[id]}
<1>1. << >> \in C
  BY LoadedNothing, EmptySeq
<1>2. ASSUME NEW s \in Seq(Row), NEW r \in Row, s \in C PROVE Append(s, r) \in C
  <2>1. Append(s, r) \in Seq(Row)
    BY AppendProperties
  <2> DEFINE x == Loaded(ends, one, s)
             y == Loaded(ends, two, s)
  <2>2. x \in Table /\ y \in Table /\ x[id] = y[id]
    BY <1>2, LoadedType
  <2>3. Better(ends, x, r)[id] = Better(ends, y, r)[id]
    <3> HIDE DEF x, y
    <3> QED
      BY <2>2 DEF Better, Table, Row
  <2> QED
    BY <2>1, <2>3, LoadedAppend
<1>3. Seq(Row) \subseteq C
  <2> HIDE DEF C
  <2> QED
    BY <1>1, <1>2, SequenceInduction
<1> QED
  BY <1>3

\* A load ends with a row of the file or what it started from, and no row of
\* the file replaces it.
IsWinner(ends, w, old, id, rows) ==
    /\ w = old \/ \E i \in DOMAIN rows : rows[i].id = id /\ w = rows[i]
    /\ \A i \in DOMAIN rows : rows[i].id = id => w # None /\ ~Replaces(ends, rows[i], w)

LEMMA LoadedWinner ==
    ASSUME NEW ends, NEW start \in Table, NEW rows \in Seq(Row), NEW id \in Ids
    PROVE  IsWinner(ends, Loaded(ends, start, rows)[id], start[id], id, rows)
<1> DEFINE C == {s \in Seq(Row) :
                   IsWinner(ends, Loaded(ends, start, s)[id], start[id], id, s)}
<1>1. << >> \in C
  <2>1. << >> \in Seq(Row) /\ DOMAIN << >> = {}
    BY EmptySeq
  <2> QED
    BY <2>1, LoadedNothing DEF IsWinner
<1>2. ASSUME NEW s \in Seq(Row), NEW r \in Row, s \in C PROVE Append(s, r) \in C
  <2> DEFINE n == Len(s)
             t == Append(s, r)
             x == Loaded(ends, start, s)
             y == Loaded(ends, start, t)
  <2>1. /\ t \in Seq(Row) /\ n \in Nat
        /\ DOMAIN s = 1 .. n /\ DOMAIN t = 1 .. (n + 1)
        /\ \A i \in 1 .. n : t[i] = s[i] /\ s[i] \in Row
        /\ t[n + 1] = r
    BY AppendProperties, LenProperties, ElementOfSeq
  <2>2. x \in Table /\ y = Better(ends, x, r)
    BY LoadedType, LoadedAppend
  <2>3. IsWinner(ends, x[id], start[id], id, s)
    BY <1>2
  <2> HIDE DEF n, t, x, y
  <2>4. CASE r.id # id \/ ~Replaces(ends, r, x[r.id])
    <3>1. y[id] = x[id]
      BY <2>2, <2>4 DEF Better, Table, Row
    <3>2. r.id = id => x[id] # None /\ ~Replaces(ends, r, x[id])
      BY <2>4 DEF Replaces
    <3>3. IsWinner(ends, y[id], start[id], id, t)
      BY <2>1, <2>3, <3>1, <3>2 DEF IsWinner
    <3> QED
      BY <2>1, <3>3 DEF t, y
  <2>5. CASE r.id = id /\ Replaces(ends, r, x[r.id])
    <3>1. y[id] = r
      BY <2>2, <2>5 DEF Better, Table
    <3>2. ASSUME NEW i \in 1 .. n, s[i].id = id PROVE ~Replaces(ends, s[i], r)
      <4>1. x[id] \in Row /\ ~Replaces(ends, s[i], x[id])
        BY <2>1, <2>2, <2>3, <3>2 DEF IsWinner, Table
      <4>2. PICK u \in Row, v \in Row : u = s[i] /\ v = x[id]
        BY <2>1, <4>1
      <4>3. r \in Row /\ Replaces(ends, r, v) /\ ~Replaces(ends, u, v)
        BY <2>5, <4>1, <4>2
      <4>4. Replaces(ends, u, r) /\ Replaces(ends, r, v) => Replaces(ends, u, v)
        BY <4>3, ReplacesOrder
      <4> QED
        BY <4>2, <4>3, <4>4
    <3>3. r # None /\ ~Replaces(ends, r, r)
      BY NoneIsNoRow, ReplacesOrder
    <3>4. n + 1 \in DOMAIN t
      BY <2>1
    <3>5. \A i \in DOMAIN t : t[i].id = id => ~Replaces(ends, t[i], r)
      BY <2>1, <3>2, <3>3
    <3>6. IsWinner(ends, r, start[id], id, t)
      BY <2>1, <2>5, <3>3, <3>4, <3>5 DEF IsWinner
    <3> QED
      BY <2>1, <3>1, <3>6 DEF t, y
  <2> QED
    BY <2>4, <2>5
<1>3. Seq(Row) \subseteq C
  <2> HIDE DEF C
  <2> QED
    BY <1>1, <1>2, SequenceInduction
<1> QED
  BY <1>3

\* A load leaves alone a row that no row of the file replaces.
LEMMA LoadedKeeps ==
    ASSUME NEW ends, NEW start \in Table, NEW rows \in Seq(Row), NEW id \in Ids,
           \A i \in DOMAIN rows : rows[i].id = id => ~Replaces(ends, rows[i], start[id])
    PROVE  Loaded(ends, start, rows)[id] = start[id]
<1> DEFINE Quiet(s) == \A i \in DOMAIN s : s[i].id = id => ~Replaces(ends, s[i], start[id])
           C == {s \in Seq(Row) : Quiet(s) => Loaded(ends, start, s)[id] = start[id]}
<1>1. << >> \in C
  BY LoadedNothing, EmptySeq
<1>2. ASSUME NEW s \in Seq(Row), NEW r \in Row, s \in C PROVE Append(s, r) \in C
  <2> DEFINE n == Len(s)
             t == Append(s, r)
             x == Loaded(ends, start, s)
             y == Loaded(ends, start, t)
  <2>1. /\ t \in Seq(Row) /\ n \in Nat
        /\ DOMAIN s = 1 .. n /\ DOMAIN t = 1 .. (n + 1)
        /\ \A i \in 1 .. n : t[i] = s[i]
        /\ t[n + 1] = r
    BY AppendProperties, LenProperties
  <2>2. x \in Table /\ y = Better(ends, x, r)
    BY LoadedType, LoadedAppend
  <2>3. Quiet(s) => x[id] = start[id]
    BY <1>2
  <2> HIDE DEF n, t, x, y
  <2>4. ASSUME Quiet(t) PROVE y[id] = start[id]
    <3>1. Quiet(s) /\ (r.id = id => ~Replaces(ends, r, start[id]))
      BY <2>1, <2>4
    <3>2. x[id] = start[id]
      BY <2>3, <3>1
    <3> QED
      BY <2>2, <3>1, <3>2 DEF Better, Table
  <2> QED
    BY <2>1, <2>4 DEF t, y
<1>3. Seq(Row) \subseteq C
  <2> HIDE DEF C
  <2> QED
    BY <1>1, <1>2, SequenceInduction
<1> QED
  BY <1>3

-----------------------------------------------------------------------------
(* Compaction and the id counter.                                          *)

\* A row of the memory as the file would keep it.
Held(row) == IF row = None THEN None ELSE OnDisk(row)

LEMMA OnDiskType ==
    ASSUME NEW row \in Row
    PROVE  /\ OnDisk(row) \in Row
           /\ OnDisk(row).id = row.id /\ OnDisk(row).stamp = row.stamp
           /\ OnDisk(row).final = row.final
           /\ OnDisk(row).at = 2 * (row.at \div 2)
           /\ OnDisk(row) # None
BY DEF OnDisk, Row, None

\* The compacted file has, for every id of the table, its row and no other.
LEMMA CompactedRows ==
    ASSUME NEW table \in Table
    PROVE  /\ Compacted(table) \in Seq(Row)
           /\ \A i \in DOMAIN Compacted(table) : \E id \in Ids :
                 table[id] # None /\ Compacted(table)[i] = OnDisk(table[id])
           /\ \A id \in Ids : table[id] # None =>
                 \E i \in DOMAIN Compacted(table) : Compacted(table)[i] = OnDisk(table[id])
<1> DEFINE I == {i \in Ids : table[i] # None}
           S == {OnDisk(table[id]) : id \in I}
           f == [id \in I |-> OnDisk(table[id])]
<1>1. IsFiniteSet(I)
  <2>1. IsFiniteSet(Ids)
    BY FS_Interval, BoundsAssumption DEF Ids
  <2> QED
    BY <2>1, FS_Subset
<1>2. f \in Surjection(I, S)
  BY DEF Surjection
<1>3. IsFiniteSet(S)
  <2> HIDE DEF f, I, S
  <2> QED
    BY <1>1, <1>2, FS_Surjection
<1>4. S \subseteq Row
  <2> SUFFICES ASSUME NEW id \in I PROVE OnDisk(table[id]) \in Row
    OBVIOUS
  <2>1. table[id] \in Row
    BY DEF Table
  <2> QED
    BY <2>1, OnDiskType
<1>5. Compacted(table) = SetToSeq(S)
  BY DEF Compacted
<1>6. /\ Compacted(table) \in Seq(S)
      /\ \A x \in S : \E i \in DOMAIN Compacted(table) : Compacted(table)[i] = x
  <2> HIDE DEF S
  <2> QED
    BY <1>3, <1>5, SetToSeqLists
<1>7. Compacted(table) \in Seq(Row)
  <2> HIDE DEF S
  <2> QED
    BY <1>4, <1>6, SeqMonotonic
<1>8. \A i \in DOMAIN Compacted(table) : Compacted(table)[i] \in S
  <2> HIDE DEF S
  <2> QED
    BY <1>6, LenProperties, ElementOfSeq
<1> QED
  BY <1>6, <1>7, <1>8

\* What a restart would read after a compaction is what the memory had.
LEMMA CompactedLoads ==
    ASSUME NEW ends, NEW table \in Table, NEW id \in Ids,
           \A i \in Ids : table[i] # None => table[i].id = i
    PROVE  Loaded(ends, Empty, Compacted(table))[id] = Held(table[id])
<1> DEFINE rows == Compacted(table)
           w == Loaded(ends, Empty, rows)[id]
<1>1. rows \in Seq(Row)
  BY CompactedRows
<1>2. IsWinner(ends, w, None, id, rows)
  <2> HIDE DEF rows
  <2> QED
    BY <1>1, EmptyIsTable, LoadedWinner
<1>3. \A i \in DOMAIN rows : rows[i].id = id => table[id] # None /\ rows[i] = OnDisk(table[id])
  <2> SUFFICES ASSUME NEW i \in DOMAIN rows, rows[i].id = id
               PROVE  table[id] # None /\ rows[i] = OnDisk(table[id])
    OBVIOUS
  <2>1. PICK j \in Ids : table[j] # None /\ rows[i] = OnDisk(table[j])
    BY CompactedRows
  <2>2. table[j] \in Row
    BY <2>1 DEF Table
  <2>3. OnDisk(table[j]).id = j
    BY <2>1, <2>2, OnDiskType
  <2> QED
    BY <2>1, <2>3
<1>4. CASE table[id] = None
  <2> HIDE DEF w, rows
  <2>1. w = None
    BY <1>2, <1>3, <1>4 DEF IsWinner
  <2> QED
    BY <1>4, <2>1 DEF Held, w, rows
<1>5. CASE table[id] # None
  <2>1. PICK i \in DOMAIN rows : rows[i] = OnDisk(table[id])
    BY <1>5, CompactedRows
  <2>2. rows[i].id = id
    BY <1>5, <2>1, OnDiskType DEF Table
  <2> HIDE DEF w, rows
  <2>3. w # None
    BY <1>2, <2>1, <2>2 DEF IsWinner
  <2>4. w = OnDisk(table[id])
    BY <1>2, <1>3, <2>3 DEF IsWinner
  <2> QED
    BY <1>5, <2>4 DEF Held, w, rows
<1> QED
  BY <1>4, <1>5

\* The counter after a load: not smaller than before, nor than any id read.
LEMMA CounterCovers ==
    ASSUME NEW n \in 0 .. NumIds, NEW rows \in Seq(Row)
    PROVE  /\ CounterAfter(n, rows) \in 0 .. NumIds
           /\ n <= CounterAfter(n, rows)
           /\ \A i \in DOMAIN rows : rows[i].id <= CounterAfter(n, rows)
<1> DEFINE S == {n} \cup {rows[i].id : i \in 1 .. Len(rows)}
<1>1. NumIds \in Nat
  BY BoundsAssumption
<1>2. DOMAIN rows = 1 .. Len(rows) /\ \A i \in 1 .. Len(rows) : rows[i].id \in Ids
  <2>1. DOMAIN rows = 1 .. Len(rows)
    BY LenProperties
  <2>2. \A i \in 1 .. Len(rows) : rows[i] \in Row
    BY ElementOfSeq
  <2> QED
    BY <2>1, <2>2 DEF Row
<1>3. S \subseteq 0 .. NumIds
  BY <1>1, <1>2 DEF Ids
<1>4. IsFiniteSet(0 .. NumIds)
  BY <1>1, FS_Interval
<1>5. IsFiniteSet(S) /\ S \in SUBSET Int /\ S # {}
  <2>1. IsFiniteSet(S)
    <3> HIDE DEF S
    <3> QED
      BY <1>3, <1>4, FS_Subset
  <2> QED
    BY <1>1, <1>3, <2>1
<1>6. Max(S) \in S /\ \A x \in S : x <= Max(S)
  <2> HIDE DEF S
  <2> QED
    BY <1>5, LargestElement
<1>7. CounterAfter(n, rows) = Max(S)
  BY DEF CounterAfter
<1> QED
  BY <1>2, <1>3, <1>6, <1>7

-----------------------------------------------------------------------------
(* The inductive invariant.                                                *)

\* Best is what a restart would read of row id.
Best(ends, rows, id) == Loaded(ends, Empty, rows)[id]

\* Row r was written no later than the last write of its id, table a.
Known(r, a) ==
    /\ a[r.id] # None
    /\ r.at <= a[r.id].at
    /\ r.stamp < a[r.id].stamp \/ OnDisk(r) = OnDisk(a[r.id])

Even(n) == 2 * (n \div 2) = n

FromFile(rows, a) == \A i \in DOMAIN rows : Known(rows[i], a) /\ Even(rows[i].at)

Typed == TypeOK /\ writes \in 0 .. MaxWrites

\* Every row anywhere is an old write of its id or the last one.
Stamped ==
    /\ \A id \in Ids : acked[id] # None =>
         /\ acked[id].id = id
         /\ acked[id].stamp <= writes
         /\ acked[id].at <= Instant
         /\ ~Even(acked[id].at)
    /\ \A r \in pend : Known(r, acked) /\ ~Even(r.at)
    /\ FromFile(file, acked)
    /\ FromFile(scanned.rows, acked)
    /\ \A s \in Services : FromFile(snap[s], acked)
    /\ \A s \in Services, id \in Ids : mem[s][id] # None =>
          mem[s][id].id = id /\ Known(mem[s][id], acked)

\* Where the owner is, and what of its writes is still in flight.
OwnerState ==
    /\ pc["owner"] = "down" => pend = {} /\ scanned = [read |-> FALSE, rows |-> Nothing]
    /\ pc["owner"] \in Stopping => \A r \in pend : r.id \in exposed
    /\ pc["owner"] = "up" => \A r \in pend : acked[r.id] = r => mem["owner"][r.id] = r
    /\ pc["owner"] # "down" =>
         \A id \in Ids : mem["owner"][id] # None => id <= counter["owner"]

InOrder(ends, old, new) == Replaces(ends, new, old) => old.stamp <= new.stamp

\* The last write of id is on disk, or in flight and ahead of all others.
Backed(id, ends, last, P, best) ==
    /\ last \in P => Replaces(ends, OnDisk(last), best)
    /\ last \notin P => best = Held(last)
    /\ \A r \in P : r.id = id =>
         /\ r # last => Replaces(ends, OnDisk(last), OnDisk(r))
         /\ InOrder(ends, best, OnDisk(r))
         /\ \A q \in P : q.id = id => InOrder(ends, OnDisk(q), OnDisk(r))

\* Row m of the memory is the last write, and a merge of rows would keep it.
InMemory(id, ends, m, last, rows) ==
    /\ Held(m) = Held(last)
    /\ \A i \in DOMAIN rows : rows[i].id = id => ~Replaces(ends, rows[i], m)

\* What a service in its shutdown has read is what a restart would read.
Reloading(id, ends, step, m, rows, best) ==
    /\ step = "read" => m = None /\ Best(ends, rows, id) = best
    /\ step \in {"loaded", "drained"} => Held(m) = best

Safe(id) ==
    /\ Backed(id, Ends, acked[id], pend, Best(Ends, file, id))
    /\ pc["owner"] = "up" =>
         InMemory(id, Ends, mem["owner"][id], acked[id], scanned.rows)
    /\ pc["owner"] # "down" /\ acked[id] # None => id <= counter["owner"]
    /\ \A s \in Services :
         Reloading(id, Ends, pc[s], mem[s][id], snap[s], Best(Ends, file, id))

AllSafe == \A id \in Ids \ exposed : Safe(id)

IInv == Typed /\ Stamped /\ OwnerState /\ AllSafe

LEMMA LoadIntoType ==
    ASSUME NEW start \in Table, NEW rows \in Seq(Row)
    PROVE  LoadInto(start, rows) \in Table /\ Load(rows) \in Table
BY LoadIntoIsLoaded, LoadedType, EmptyIsTable DEF Load

LEMMA RowsOfFile ==
    ASSUME NEW rows \in Seq(Row)
    PROVE  /\ \A i \in DOMAIN rows : rows[i] \in Row /\ rows[i].id \in Ids
           /\ \A r \in Range(rows) : r \in Row /\ \E i \in DOMAIN rows : r = rows[i]
           /\ \A i \in DOMAIN rows : rows[i] \in Range(rows)
<1>1. \A i \in DOMAIN rows : rows[i] \in Row
  BY LenProperties, ElementOfSeq
<1> QED
  BY <1>1 DEF Range, Row

LEMMA WriteType ==
    ASSUME Typed, writes < MaxWrites, NEW id \in Ids, NEW final \in BOOLEAN, NEW tie,
           Write(id, final, tie)
    PROVE  /\ mem' \in [Services -> Table] /\ pend' \subseteq Row
           /\ acked' \in Table /\ exposed' \subseteq Ids
           /\ writes' \in 0 .. MaxWrites
<1> DEFINE row == [id |-> id, stamp |-> writes + 1, final |-> final, at |-> Instant]
<1>1. MaxWrites \in Nat /\ second \in Nat
  BY BoundsAssumption DEF Typed, TypeOK
<1>2. row \in Row
  BY <1>1 DEF Typed, Row, Instant
<1>3. /\ mem' = [mem EXCEPT !["owner"][id] = row]
      /\ pend' = pend \cup {row}
      /\ acked' = [acked EXCEPT ![id] = row]
      /\ exposed' \subseteq exposed \cup {id}
      /\ writes' = writes + 1
  BY DEF Write
<1> HIDE DEF row
<1> QED
  BY <1>1, <1>2, <1>3 DEF Typed, TypeOK, Table, Services

LEMMA GoneType ==
    ASSUME Typed, NEW s \in Services, Gone(s)
    PROVE  /\ pc' \in [Services -> {"up", "down"} \cup Stopping]
           /\ mem' \in [Services -> Table]
           /\ counter' \in [Services -> 0 .. NumIds]
           /\ snap' \in [Services -> Seq(Row)]
           /\ scanned' \in [read : BOOLEAN, rows : Seq(Row)]
           /\ pend' \subseteq Row
<1>1. NumIds \in Nat /\ << >> \in Seq(Row)
  BY BoundsAssumption, EmptySeq
<1> QED
  BY <1>1, EmptyIsTable DEF Typed, TypeOK, Gone, Goto, Nothing

\* Every step keeps the types.
LEMMA TypeStep ==
    ASSUME Typed, Next PROVE Typed'
<1> USE DEF Typed
<1>0. NumIds \in Nat /\ MaxWrites \in Nat /\ MaxSeconds \in Nat /\ << >> \in Seq(Row)
  BY BoundsAssumption, EmptySeq
<1>1. CASE Create
  <2>1. counter["owner"] \in Nat /\ counter["owner"] + 1 \in Ids
    BY <1>0, <1>1 DEF Create, TypeOK, Services, Ids
  <2>2. writes < MaxWrites /\ Write(counter["owner"] + 1, FALSE, FALSE)
    BY <1>1 DEF Create, MayWrite
  <2>3. PICK n \in Ids : n = counter["owner"] + 1
    BY <2>1
  <2>4. /\ mem' \in [Services -> Table] /\ pend' \subseteq Row
        /\ acked' \in Table /\ exposed' \subseteq Ids
        /\ writes' \in 0 .. MaxWrites
    BY <2>2, <2>3, WriteType
  <2> QED
    BY <1>0, <1>1, <2>1, <2>4 DEF Create, TypeOK, Services, Ids
<1>2. ASSUME NEW id \in Ids, Update(id) PROVE Typed'
  <2>1. PICK final \in BOOLEAN :
           Write(id, final, ~final /\ mem["owner"][id].at \div 2 = second)
    BY <1>2 DEF Update
  <2>2. writes < MaxWrites
    BY <1>2 DEF Update, MayWrite
  <2>3. /\ mem' \in [Services -> Table] /\ pend' \subseteq Row
        /\ acked' \in Table /\ exposed' \subseteq Ids
        /\ writes' \in 0 .. MaxWrites
    BY <2>1, <2>2, WriteType
  <2> QED
    BY <1>2, <2>3 DEF Update, TypeOK
<1>3. ASSUME NEW row \in pend, AppendRow(row) PROVE Typed'
  <2>1. row \in Row /\ OnDisk(row) \in Row /\ row.id \in Ids
    BY OnDiskType DEF TypeOK, Row
  <2>2. file' \in Seq(Row)
    BY <1>3, <2>1, AppendProperties DEF AppendRow, TypeOK
  <2>3. exposed' \subseteq Ids
    BY <1>3, <2>1 DEF AppendRow, ExposedAfter, TypeOK
  <2> QED
    BY <1>3, <2>2, <2>3 DEF AppendRow, TypeOK, stores, bounds
<1>4. ASSUME NEW row \in pend, AppendFails(row) PROVE Typed'
  <2>1. row.id \in Ids
    BY DEF TypeOK, Row
  <2> QED
    BY <1>4, <2>1 DEF AppendFails, TypeOK, stores
<1>5. CASE Tick
  BY <1>0, <1>5 DEF Tick, TypeOK, stores, bounds
<1>6. CASE ScanRead
  BY <1>6 DEF ScanRead, TypeOK, bounds
<1>7. CASE ScanMerge
  <2>1. scanned.rows \in Seq(Row) /\ mem["owner"] \in Table /\ counter["owner"] \in 0 .. NumIds
    BY DEF TypeOK, Services
  <2>2. Merge(mem["owner"], scanned.rows) \in Table
    BY <2>1, LoadIntoType DEF Merge
  <2>3. CounterAfter(counter["owner"], scanned.rows) \in 0 .. NumIds
    BY <2>1, CounterCovers
  <2>4. {row.id : row \in Range(scanned.rows)} \subseteq Ids
    <3>1. PICK rows \in Seq(Row) : rows = scanned.rows
      BY <2>1
    <3>2. \A r \in Range(rows) : r \in Row
      BY RowsOfFile
    <3>3. \A r \in Row : r.id \in Ids
      BY DEF Row
    <3> QED
      BY <3>1, <3>2, <3>3
  <2> QED
    BY <1>0, <1>7, <2>2, <2>3, <2>4 DEF ScanMerge, TypeOK, bounds, Nothing
<1>8. ASSUME NEW s \in Services, Stop(s) PROVE Typed'
  <2>1. CASE StopWait(s)
    BY <2>1 DEF StopWait, TypeOK, Goto, Stopping
  <2>2. CASE ReloadRead(s)
    BY <2>2, EmptyIsTable DEF ReloadRead, TypeOK, Goto, Stopping, bounds
  <2>3. CASE ReloadStore(s)
    <3>1. snap[s] \in Seq(Row) /\ mem[s] \in Table /\ counter[s] \in 0 .. NumIds
      BY DEF TypeOK
    <3>2. Merge(mem[s], snap[s]) \in Table /\ Load(snap[s]) \in Table
      BY <3>1, LoadIntoType DEF Merge
    <3>3. CounterAfter(counter[s], snap[s]) \in 0 .. NumIds
      BY <3>1, CounterCovers
    <3> QED
      BY <1>0, <2>3, <3>2, <3>3 DEF ReloadStore, TypeOK, Goto, Stopping, bounds, Nothing
  <2>4. CASE CompactWait(s)
    BY <2>4 DEF CompactWait, TypeOK, Goto, Stopping, bounds
  <2>5. CASE Compact(s)
    <3>1. Compacted(mem[s]) \in Seq(Row)
      BY CompactedRows DEF TypeOK
    <3> QED
      BY <2>5, <3>1, GoneType DEF Compact, TypeOK, bounds
  <2>6. CASE CompactSkipped(s)
    <3>1. {row.id : row \in Pending(s)} \subseteq Ids
      BY DEF Pending, TypeOK, Row
    <3> QED
      BY <2>6, <3>1, GoneType DEF CompactSkipped, TypeOK, bounds
  <2> QED
    BY <1>8, <2>1, <2>2, <2>3, <2>4, <2>5, <2>6 DEF Stop
<1>9. ASSUME NEW s \in Services, Crash(s) PROVE Typed'
  <2>1. {row.id : row \in Pending(s)} \subseteq Ids
    BY DEF Pending, TypeOK, Row
  <2> QED
    BY <1>9, <2>1, GoneType DEF Crash, TypeOK
<1>10. ASSUME NEW s \in Services, Start(s) PROVE Typed'
  <2>1. Load(file) \in Table
    BY LoadIntoType, EmptyIsTable DEF TypeOK
  <2>2. CounterAfter(0, file) \in 0 .. NumIds
    BY <1>0, CounterCovers DEF TypeOK
  <2> QED
    BY <1>10, <2>1, <2>2 DEF Start, TypeOK, Goto, bounds
<1> QED
  BY <1>1, <1>2, <1>3, <1>4, <1>5, <1>6, <1>7, <1>8, <1>9, <1>10 DEF Next

LEMMA TypedStutters ==
    ASSUME Typed, UNCHANGED vars PROVE Typed'
BY DEF Typed, TypeOK, vars

LEMMA TypedInit == Init => Typed
<1>1. NumIds \in Nat /\ MaxWrites \in Nat /\ MaxSeconds \in Nat /\ << >> \in Seq(Row)
  BY BoundsAssumption, EmptySeq
<1> QED
  BY <1>1, EmptyIsTable DEF Init, Typed, TypeOK, Nothing

\* Persistence.TypeOK is an invariant for all values of the bounds: ids and
\* counters stay in range whatever is reloaded, merged or compacted.
THEOREM TypesAreCorrect == Spec => []TypeOK
<1>1. Typed /\ [Next]_vars => Typed'
  BY TypeStep, TypedStutters
<1>2. Typed => TypeOK
  BY DEF Typed
<1> QED
  BY TypedInit, <1>1, <1>2, PTL DEF Spec

-----------------------------------------------------------------------------
(* Every row is known.                                                     *)

LEMMA Halves ==
    \A n \in Nat :
        /\ n \div 2 \in Nat
        /\ 2 * (n \div 2) \in Nat
        /\ 2 * (n \div 2) <= n /\ n <= 2 * (n \div 2) + 1
        /\ (2 * (n \div 2)) \div 2 = n \div 2
        /\ Even(2 * (n \div 2))
        /\ (2 * n + 1) \div 2 = n /\ ~Even(2 * n + 1)
BY DEF Even

TableKnown(table, a) ==
    \A id \in Ids : table[id] # None => table[id].id = id /\ Known(table[id], a)

LEMMA OnDiskKnown ==
    ASSUME NEW a \in Table, NEW row \in Row, Known(row, a)
    PROVE  Known(OnDisk(row), a) /\ Even(OnDisk(row).at)
<1>1. /\ OnDisk(row).id = row.id /\ OnDisk(row).stamp = row.stamp
      /\ OnDisk(row).at = 2 * (row.at \div 2)
  BY OnDiskType
<1>2. row.at \in Nat /\ row.id \in Ids
  BY DEF Row
<1>3. a[row.id] \in Row
  BY <1>2 DEF Known, Table
<1>4. a[row.id].at \in Nat
  BY <1>3 DEF Row
<1>5. Even(OnDisk(row).at) /\ OnDisk(row).at <= row.at /\ OnDisk(row).at \in Nat
  BY <1>1, <1>2, Halves
<1>6. OnDisk(row).at <= a[row.id].at
  BY <1>2, <1>4, <1>5 DEF Known
<1>7. OnDisk(OnDisk(row)) = OnDisk(row)
  <2>1. 2 * ((2 * (row.at \div 2)) \div 2) = 2 * (row.at \div 2)
    BY <1>2, Halves
  <2> QED
    BY <2>1 DEF OnDisk, Row
<1> QED
  BY <1>1, <1>5, <1>6, <1>7 DEF Known

LEMMA LoadedKnown ==
    ASSUME NEW ends, NEW a \in Table, NEW start \in Table, NEW rows \in Seq(Row),
           FromFile(rows, a), TableKnown(start, a)
    PROVE  TableKnown(Loaded(ends, start, rows), a)
<1> SUFFICES ASSUME NEW id \in Ids, Loaded(ends, start, rows)[id] # None
             PROVE  /\ Loaded(ends, start, rows)[id].id = id
                    /\ Known(Loaded(ends, start, rows)[id], a)
  BY DEF TableKnown
<1>1. IsWinner(ends, Loaded(ends, start, rows)[id], start[id], id, rows)
  BY LoadedWinner
<1> QED
  BY <1>1 DEF IsWinner, TableKnown, FromFile

LEMMA CompactedKnown ==
    ASSUME NEW a \in Table, NEW table \in Table, TableKnown(table, a)
    PROVE  FromFile(Compacted(table), a)
<1> SUFFICES ASSUME NEW i \in DOMAIN Compacted(table)
             PROVE  Known(Compacted(table)[i], a) /\ Even(Compacted(table)[i].at)
  BY DEF FromFile
<1>1. PICK id \in Ids : table[id] # None /\ Compacted(table)[i] = OnDisk(table[id])
  BY CompactedRows
<1>2. table[id] \in Row /\ Known(table[id], a)
  BY <1>1 DEF Table, TableKnown
<1> QED
  BY <1>1, <1>2, OnDiskKnown

LEMMA AppendedKnown ==
    ASSUME NEW a \in Table, NEW rows \in Seq(Row), NEW row \in Row,
           FromFile(rows, a), Known(row, a)
    PROVE  FromFile(Append(rows, OnDisk(row)), a)
<1>1. OnDisk(row) \in Row /\ Known(OnDisk(row), a) /\ Even(OnDisk(row).at)
  BY OnDiskType, OnDiskKnown
<1> DEFINE new == OnDisk(row)
<1> HIDE DEF new
<1>2. /\ DOMAIN Append(rows, new) = 1 .. (Len(rows) + 1) /\ Len(rows) \in Nat
      /\ DOMAIN rows = 1 .. Len(rows)
      /\ \A i \in 1 .. Len(rows) : Append(rows, new)[i] = rows[i]
      /\ Append(rows, new)[Len(rows) + 1] = new
  BY <1>1, AppendProperties, LenProperties DEF new
<1> QED
  BY <1>1, <1>2 DEF FromFile, new

\* A new write is later than every row there is.
LEMMA StillKnown ==
    ASSUME NEW a \in Table, NEW row \in Row, NEW r \in Row, NEW n \in Nat,
           Known(r, a), a[r.id].stamp <= n, a[r.id].at <= row.at, row.stamp = n + 1
    PROVE  Known(r, [a EXCEPT ![row.id] = row])
<1>1. row.id \in Ids /\ r.id \in Ids /\ row # None /\ r.at \in Nat /\ row.at \in Nat
      /\ r.stamp \in Nat
  BY NoneIsNoRow DEF Row
<1>2. CASE r.id # row.id
  BY <1>1, <1>2 DEF Known, Table
<1>3. CASE r.id = row.id
  <2>1. [a EXCEPT ![row.id] = row][r.id] = row
    BY <1>1, <1>3 DEF Table
  <2>2. a[r.id] \in Row
    BY <1>1 DEF Known, Table
  <2>3. a[r.id].at \in Nat /\ a[r.id].stamp \in Nat
    BY <2>2 DEF Row
  <2>4. OnDisk(r).stamp = r.stamp /\ OnDisk(a[r.id]).stamp = a[r.id].stamp
    BY <2>2, OnDiskType
  <2>5. r.stamp <= a[r.id].stamp
    BY <1>1, <2>3, <2>4 DEF Known
  <2> QED
    BY <1>1, <2>1, <2>3, <2>5 DEF Known
<1> QED
  BY <1>2, <1>3

\* Steps that write nothing keep Stamped when what they store is known.
LEMMA StampedFrame ==
    ASSUME Stamped, acked' = acked, writes' = writes, second' = second,
           pend' \subseteq pend, FromFile(file', acked), FromFile(scanned'.rows, acked),
           \A s \in Services : FromFile(snap'[s], acked) /\ TableKnown(mem'[s], acked)
    PROVE  Stamped'
BY DEF Stamped, TableKnown, Instant

LEMMA KnownNothing == ASSUME NEW a PROVE FromFile(<< >>, a) /\ TableKnown(Empty, a)
<1>1. DOMAIN << >> = {}
  BY EmptySeq
<1> QED
  BY <1>1, EmptyIsTable DEF FromFile, TableKnown

LEMMA StampedGone ==
    ASSUME Typed, Stamped, NEW s \in Services, Gone(s), acked' = acked, writes' = writes,
           second' = second, FromFile(file', acked)
    PROVE  Stamped'
<1>1. /\ mem' = [mem EXCEPT ![s] = Empty] /\ snap' = [snap EXCEPT ![s] = << >>]
      /\ scanned'.rows = << >> \/ scanned' = scanned
      /\ pend' \subseteq pend
  BY DEF Gone, Nothing
<1>2. FromFile(scanned'.rows, acked)
  BY <1>1, KnownNothing DEF Stamped
<1>3. \A t \in Services : FromFile(snap'[t], acked) /\ TableKnown(mem'[t], acked)
  BY <1>1, KnownNothing DEF Stamped, Typed, TypeOK, TableKnown
<1> QED
  BY <1>1, <1>2, <1>3, StampedFrame

LEMMA StampedWrite ==
    ASSUME Typed, Stamped, writes < MaxWrites, NEW id \in Ids, NEW final \in BOOLEAN,
           NEW tie, Write(id, final, tie),
           UNCHANGED <<second, snap, scanned, file>>
    PROVE  Stamped'
<1> DEFINE row == [id |-> id, stamp |-> writes + 1, final |-> final, at |-> Instant]
<1>1. MaxWrites \in Nat /\ second \in Nat /\ writes \in Nat
  BY BoundsAssumption DEF Typed, TypeOK
<1>2. row \in Row /\ row.id = id /\ row.stamp = writes + 1 /\ row.at = Instant
      /\ Instant \in Nat /\ ~Even(Instant)
  BY <1>1, Halves DEF Typed, Row, Instant
<1>3. /\ mem' = [mem EXCEPT !["owner"][id] = row]
      /\ pend' = pend \cup {row}
      /\ acked' = [acked EXCEPT ![id] = row]
      /\ writes' = writes + 1
      /\ Instant' = Instant
  BY DEF Write, Instant
<1>4. acked \in Table /\ pend \subseteq Row /\ file \in Seq(Row) /\ scanned.rows \in Seq(Row)
      /\ \A s \in Services : snap[s] \in Seq(Row) /\ mem[s] \in Table
  BY DEF Typed, TypeOK
<1> HIDE DEF row
<1>5. ASSUME NEW r \in Row, Known(r, acked) PROVE Known(r, acked')
  <2>1. r.id \in Ids /\ acked[r.id] # None
    BY <1>5 DEF Row, Known
  <2>2. acked[r.id].stamp <= writes /\ acked[r.id].at <= row.at
    BY <1>2, <2>1 DEF Stamped
  <2> QED
    BY <1>1, <1>2, <1>3, <1>4, <1>5, <2>2, StillKnown
<1>6. Known(row, acked')
  BY <1>2, <1>3, <1>4, NoneIsNoRow DEF Known, Table, Row
<1>7. ASSUME NEW rows \in Seq(Row), FromFile(rows, acked) PROVE FromFile(rows, acked')
  BY <1>5, <1>7, RowsOfFile DEF FromFile
<1>8. \A i \in Ids : acked'[i] # None =>
         /\ acked'[i].id = i /\ acked'[i].stamp <= writes'
         /\ acked'[i].at <= Instant' /\ ~Even(acked'[i].at)
  <2> SUFFICES ASSUME NEW i \in Ids, acked'[i] # None
               PROVE  /\ acked'[i].id = i /\ acked'[i].stamp <= writes'
                      /\ acked'[i].at <= Instant' /\ ~Even(acked'[i].at)
    OBVIOUS
  <2>1. CASE i = id
    <3>1. acked'[i] = row
      BY <1>3, <1>4, <2>1 DEF Table
    <3> QED
      BY <1>1, <1>2, <1>3, <2>1, <3>1
  <2>2. CASE i # id
    <3>1. acked'[i] = acked[i]
      BY <1>3, <1>4, <2>2 DEF Table
    <3>2. acked[i] \in Row
      BY <1>4, <3>1 DEF Table
    <3> QED
      BY <1>1, <1>3, <3>1, <3>2 DEF Stamped, Row
  <2> QED
    BY <2>1, <2>2
<1>9. \A r \in pend' : Known(r, acked') /\ ~Even(r.at)
  BY <1>2, <1>3, <1>4, <1>5, <1>6 DEF Stamped
<1>10. \A s \in Services, i \in Ids : mem'[s][i] # None =>
          mem'[s][i].id = i /\ Known(mem'[s][i], acked')
  <2> SUFFICES ASSUME NEW s \in Services, NEW i \in Ids, mem'[s][i] # None
               PROVE  mem'[s][i].id = i /\ Known(mem'[s][i], acked')
    OBVIOUS
  <2>1. (mem'[s][i] = row /\ i = id) \/ mem'[s][i] = mem[s][i]
    BY <1>3, <1>4 DEF Table, Typed, TypeOK
  <2>2. mem[s][i] \in Row \cup {None}
    BY <1>4 DEF Table
  <2> QED
    BY <1>2, <1>5, <1>6, <2>1, <2>2 DEF Stamped
<1>11. /\ FromFile(file', acked') /\ FromFile(scanned'.rows, acked')
       /\ \A s \in Services : FromFile(snap'[s], acked')
  BY <1>4, <1>7 DEF Stamped
<1> QED
  BY <1>8, <1>9, <1>10, <1>11 DEF Stamped

LEMMA StampedStep ==
    ASSUME Typed, Stamped, Next PROVE Stamped'
<1>0. /\ acked \in Table /\ pend \subseteq Row /\ file \in Seq(Row)
      /\ scanned.rows \in Seq(Row)
      /\ \A s \in Services : snap[s] \in Seq(Row) /\ mem[s] \in Table
      /\ DOMAIN mem = Services /\ DOMAIN snap = Services
  BY DEF Typed, TypeOK
<1>a. /\ FromFile(file, acked) /\ FromFile(scanned.rows, acked)
      /\ \A s \in Services : FromFile(snap[s], acked) /\ TableKnown(mem[s], acked)
      /\ \A r \in pend : Known(r, acked)
  BY DEF Stamped, TableKnown
<1>b. TableKnown(Empty, acked) /\ FromFile(<< >>, acked)
  BY KnownNothing
<1>1. CASE Create
  <2>1. counter["owner"] + 1 \in Ids
    BY <1>1, BoundsAssumption DEF Create, Typed, TypeOK, Services, Ids
  <2>2. PICK n \in Ids : n = counter["owner"] + 1
    BY <2>1
  <2>3. /\ writes < MaxWrites /\ Write(n, FALSE, FALSE)
        /\ UNCHANGED <<second, snap, scanned, file>>
    BY <1>1, <2>2 DEF Create, MayWrite
  <2> QED
    BY <2>3, StampedWrite
<1>2. ASSUME NEW id \in Ids, Update(id) PROVE Stamped'
  <2>1. PICK final \in BOOLEAN :
           Write(id, final, ~final /\ mem["owner"][id].at \div 2 = second)
    BY <1>2 DEF Update
  <2>2. writes < MaxWrites /\ UNCHANGED <<second, snap, scanned, file>>
    BY <1>2 DEF Update, MayWrite
  <2> QED
    BY <2>1, <2>2, StampedWrite
<1>3. ASSUME NEW row \in pend, AppendRow(row) PROVE Stamped'
  <2>1. FromFile(file', acked)
    BY <1>0, <1>3, <1>a, AppendedKnown DEF AppendRow
  <2> QED
    BY <1>3, <1>a, <2>1, StampedFrame DEF AppendRow, stores, bounds
<1>4. ASSUME NEW row \in pend, AppendFails(row) PROVE Stamped'
  BY <1>4, <1>a, StampedFrame DEF AppendFails, stores
<1>5. CASE Tick
  <2>1. second' = second + 1 /\ second \in Nat
        /\ UNCHANGED <<mem, snap, scanned, pend, file, acked, writes>>
    BY <1>5 DEF Tick, Typed, TypeOK, stores, bounds
  <2>2. \A id \in Ids : acked[id] # None => acked[id].at \in Nat
    BY <1>0 DEF Table, Row
  <2>3. Instant \in Nat /\ Instant' = Instant + 2
    BY <2>1 DEF Instant
  <2>4. \A id \in Ids : acked[id] # None => acked[id].at <= Instant'
    BY <2>2, <2>3 DEF Stamped
  <2> QED
    BY <2>1, <2>4 DEF Stamped
<1>6. CASE ScanRead
  BY <1>6, <1>a, StampedFrame DEF ScanRead, bounds
<1>7. CASE ScanMerge
  <2>1. TableKnown(Merge(mem["owner"], scanned.rows), acked)
    BY <1>0, <1>a, LoadedKnown, LoadIntoIsLoaded DEF Merge, Services
  <2>2. \A s \in Services : TableKnown(mem'[s], acked)
    BY <1>0, <1>7, <1>a, <2>1 DEF ScanMerge
  <2> QED
    BY <1>7, <1>a, <1>b, <2>2, StampedFrame DEF ScanMerge, bounds, Nothing
<1>8. ASSUME NEW s \in Services, Stop(s) PROVE Stamped'
  <2>1. CASE StopWait(s)
    BY <2>1, <1>a, StampedFrame DEF StopWait
  <2>2. CASE ReloadRead(s)
    <3>1. \A t \in Services : FromFile(snap'[t], acked) /\ TableKnown(mem'[t], acked)
      BY <1>0, <1>a, <1>b, <2>2 DEF ReloadRead
    <3> QED
      BY <2>2, <1>a, <3>1, StampedFrame DEF ReloadRead, bounds
  <2>3. CASE ReloadStore(s)
    <3>1. TableKnown(Merge(mem[s], snap[s]), acked) /\ TableKnown(Load(snap[s]), acked)
      BY <1>0, <1>a, <1>b, EmptyIsTable, LoadedKnown, LoadIntoIsLoaded DEF Merge, Load
    <3>2. \A t \in Services : FromFile(snap'[t], acked) /\ TableKnown(mem'[t], acked)
      BY <1>0, <1>a, <1>b, <2>3, <3>1 DEF ReloadStore, Nothing
    <3> QED
      BY <2>3, <1>a, <3>2, StampedFrame DEF ReloadStore, bounds
  <2>4. CASE CompactWait(s)
    BY <2>4, <1>a, StampedFrame DEF CompactWait, bounds
  <2>5. CASE Compact(s)
    <3>1. FromFile(file', acked)
      BY <1>0, <1>a, <2>5, CompactedKnown DEF Compact
    <3> QED
      BY <2>5, <3>1, StampedGone DEF Compact, bounds
  <2>6. CASE CompactSkipped(s)
    BY <2>6, <1>a, StampedGone DEF CompactSkipped, bounds
  <2> QED
    BY <1>8, <2>1, <2>2, <2>3, <2>4, <2>5, <2>6 DEF Stop
<1>9. ASSUME NEW s \in Services, Crash(s) PROVE Stamped'
  BY <1>9, <1>a, StampedGone DEF Crash
<1>10. ASSUME NEW s \in Services, Start(s) PROVE Stamped'
  <2>1. TableKnown(Load(file), acked)
    BY <1>0, <1>a, <1>b, EmptyIsTable, LoadedKnown, LoadIntoIsLoaded DEF Load
  <2>2. \A t \in Services : TableKnown(mem'[t], acked)
    BY <1>0, <1>10, <1>a, <2>1 DEF Start
  <2> QED
    BY <1>10, <1>a, <2>2, StampedFrame DEF Start, bounds
<1> QED
  BY <1>1, <1>2, <1>3, <1>4, <1>5, <1>6, <1>7, <1>8, <1>9, <1>10 DEF Next

-----------------------------------------------------------------------------
(* The owner.                                                              *)

\* Steps that leave the owner where it is and write nothing.
LEMMA OwnerFrame ==
    ASSUME OwnerState, pc'["owner"] = pc["owner"], pend' \subseteq pend,
           scanned' = scanned, acked' = acked,
           pc["owner"] \in Stopping => exposed \subseteq exposed',
           mem'["owner"] = mem["owner"], counter'["owner"] = counter["owner"]
    PROVE  OwnerState'
BY DEF OwnerState

\* The counter covers the ids of a table it was counted with.
LEMMA LoadedCovered ==
    ASSUME NEW ends, NEW start \in Table, NEW rows \in Seq(Row), NEW n \in 0 .. NumIds,
           \A id \in Ids : start[id] # None => id <= n
    PROVE  \A id \in Ids : Loaded(ends, start, rows)[id] # None
                             => id <= CounterAfter(n, rows)
<1> SUFFICES ASSUME NEW id \in Ids, Loaded(ends, start, rows)[id] # None
             PROVE  id <= CounterAfter(n, rows)
  OBVIOUS
<1>1. IsWinner(ends, Loaded(ends, start, rows)[id], start[id], id, rows)
  BY LoadedWinner
<1>2. /\ n <= CounterAfter(n, rows) /\ CounterAfter(n, rows) \in 0 .. NumIds
      /\ \A i \in DOMAIN rows : rows[i].id <= CounterAfter(n, rows)
  BY CounterCovers
<1>3. NumIds \in Nat
  BY BoundsAssumption
<1> QED
  BY <1>1, <1>2, <1>3 DEF IsWinner, Ids

\* No row of a file replaces the last write of its id in memory.
LEMMA LastStays ==
    ASSUME NEW ends, NEW a \in Table, NEW rows \in Seq(Row), FromFile(rows, a),
           NEW id \in Ids, a[id] # None, ~Even(a[id].at)
    PROVE  \A i \in DOMAIN rows : rows[i].id = id => ~Replaces(ends, rows[i], a[id])
<1> SUFFICES ASSUME NEW i \in DOMAIN rows, rows[i].id = id
             PROVE  ~Replaces(ends, rows[i], a[id])
  OBVIOUS
<1>1. rows[i] \in Row /\ a[id] \in Row
  BY RowsOfFile DEF Table
<1>2. rows[i].at <= a[id].at /\ rows[i].at # a[id].at
  BY DEF FromFile, Known
<1> QED
  BY <1>1, <1>2 DEF Replaces, Row

LEMMA OwnerWrite ==
    ASSUME Typed, OwnerState, pc["owner"] # "down", NEW id \in Ids, NEW final, NEW tie,
           Write(id, final, tie),
           UNCHANGED <<pc, scanned>>, counter'["owner"] \in Nat,
           counter["owner"] <= counter'["owner"], id <= counter'["owner"]
    PROVE  OwnerState'
<1> DEFINE row == [id |-> id, stamp |-> writes + 1, final |-> final, at |-> Instant]
<1>1. /\ mem' = [mem EXCEPT !["owner"][id] = row]
      /\ pend' = pend \cup {row}
      /\ acked' = [acked EXCEPT ![id] = row]
      /\ exposed \subseteq exposed'
      /\ pc["owner"] \in Stopping => id \in exposed'
      /\ row.id = id
  BY DEF Write
<1>2. /\ acked \in Table /\ mem \in [Services -> Table] /\ "owner" \in Services
      /\ pend \subseteq Row /\ counter["owner"] \in Nat /\ NumIds \in Nat
  BY BoundsAssumption DEF Typed, TypeOK, Services
<1> HIDE DEF row
<1>3. mem'["owner"] = [mem["owner"] EXCEPT ![id] = row]
  BY <1>1, <1>2
<1>4. pc["owner"] \in Stopping => \A r \in pend' : r.id \in exposed'
  BY <1>1 DEF OwnerState
<1>5. pc["owner"] = "up" => \A r \in pend' : acked'[r.id] = r => mem'["owner"][r.id] = r
  <2> SUFFICES ASSUME pc["owner"] = "up", NEW r \in pend', acked'[r.id] = r
               PROVE  mem'["owner"][r.id] = r
    OBVIOUS
  <2>1. CASE r.id = id
    BY <1>1, <1>2, <1>3, <2>1 DEF Table
  <2>2. CASE r.id # id
    <3>1. r \in pend /\ r.id \in Ids
      BY <1>1, <1>2, <2>2 DEF Row
    <3> QED
      BY <1>1, <1>2, <1>3, <2>2, <3>1 DEF Table, OwnerState
  <2> QED
    BY <2>1, <2>2
<1>6. \A i \in Ids : mem'["owner"][i] # None => i <= counter'["owner"]
  BY <1>2, <1>3 DEF Table, OwnerState, Ids
<1> QED
  BY <1>4, <1>5, <1>6 DEF OwnerState

LEMMA OwnerGone ==
    ASSUME Typed, OwnerState, NEW s \in Services, Gone(s), acked' = acked,
           exposed \subseteq exposed'
    PROVE  OwnerState'
<1>1. CASE s = "owner"
  BY <1>1 DEF Gone, Goto, Pending, OwnerState, Typed, TypeOK, Stopping
<1>2. CASE s = "other"
  <2>1. /\ pc'["owner"] = pc["owner"] /\ pend' \subseteq pend /\ scanned' = scanned
        /\ mem'["owner"] = mem["owner"] /\ counter'["owner"] = counter["owner"]
    BY <1>2 DEF Gone, Goto, Pending, Typed, TypeOK, Services
  <2> QED
    BY <2>1, OwnerFrame
<1> QED
  BY <1>1, <1>2 DEF Services

LEMMA OwnerStep ==
    ASSUME Typed, Stamped, OwnerState, Next PROVE OwnerState'
<1>0. /\ acked \in Table /\ pend \subseteq Row /\ file \in Seq(Row)
      /\ scanned.rows \in Seq(Row) /\ mem \in [Services -> Table]
      /\ snap \in [Services -> Seq(Row)] /\ counter \in [Services -> 0 .. NumIds]
      /\ pc \in [Services -> {"up", "down"} \cup Stopping]
      /\ "owner" \in Services /\ "other" \in Services /\ NumIds \in Nat
  BY BoundsAssumption DEF Typed, TypeOK, Services
<1>1. CASE Create
  <2>1. counter["owner"] \in Nat /\ counter["owner"] + 1 \in Ids
    BY <1>0, <1>1 DEF Create, Ids
  <2>2. PICK n \in Ids : n = counter["owner"] + 1
    BY <2>1
  <2>3. /\ pc["owner"] # "down" /\ Write(n, FALSE, FALSE) /\ UNCHANGED <<pc, scanned>>
        /\ counter'["owner"] = n
    BY <1>0, <1>1, <2>2 DEF Create, MayWrite
  <2>4. counter'["owner"] \in Nat /\ counter["owner"] <= counter'["owner"]
        /\ n <= counter'["owner"]
    BY <2>1, <2>2, <2>3 DEF Ids
  <2> QED
    BY <2>3, <2>4, OwnerWrite
<1>2. ASSUME NEW id \in Ids, Update(id) PROVE OwnerState'
  <2>1. PICK final \in BOOLEAN :
           Write(id, final, ~final /\ mem["owner"][id].at \div 2 = second)
    BY <1>2 DEF Update
  <2>2. /\ pc["owner"] # "down" /\ UNCHANGED <<pc, scanned, counter>>
        /\ mem["owner"][id] # None
    BY <1>2 DEF Update, MayWrite
  <2>3. counter["owner"] \in Nat /\ id <= counter["owner"]
    BY <1>0, <2>2 DEF OwnerState
  <2> QED
    BY <2>1, <2>2, <2>3, OwnerWrite
<1>3. ASSUME NEW row \in pend, AppendRow(row) PROVE OwnerState'
  <2>1. pc["owner"] \in Stopping => exposed \subseteq exposed'
    BY <1>3 DEF AppendRow, ExposedAfter
  <2> QED
    BY <1>3, <2>1, OwnerFrame DEF AppendRow, stores
<1>4. ASSUME NEW row \in pend, AppendFails(row) PROVE OwnerState'
  BY <1>4, OwnerFrame DEF AppendFails, stores
<1>5. CASE Tick
  BY <1>5, OwnerFrame DEF Tick, stores
<1>6. CASE ScanRead
  BY <1>6 DEF ScanRead, OwnerState
<1>7. CASE ScanMerge
  <2> DEFINE m == Merge(mem["owner"], scanned.rows)
             n == CounterAfter(counter["owner"], scanned.rows)
  <2>1. m = Loaded(Ends, mem["owner"], scanned.rows)
    BY LoadIntoIsLoaded DEF Merge
  <2>2. /\ mem'["owner"] = m /\ counter'["owner"] = n /\ pc' = pc /\ pend' = pend
        /\ acked' = acked /\ exposed \subseteq exposed'
        /\ scanned.read
    BY <1>0, <1>7 DEF ScanMerge
  <2>3. pc["owner"] # "down"
    BY <2>2 DEF OwnerState
  <2>4. \A id \in Ids : m[id] # None => id <= n
    <3>1. /\ mem["owner"] \in Table /\ counter["owner"] \in 0 .. NumIds
          /\ \A id \in Ids : mem["owner"][id] # None => id <= counter["owner"]
      BY <1>0, <2>3 DEF OwnerState
    <3>2. \A id \in Ids : Loaded(Ends, mem["owner"], scanned.rows)[id] # None => id <= n
      BY <1>0, <3>1, LoadedCovered
    <3> HIDE DEF m, n
    <3> QED
      BY <2>1, <3>2
  <2>5. ASSUME pc["owner"] = "up", NEW r \in pend, acked[r.id] = r
        PROVE  m[r.id] = r
    <3>1. r.id \in Ids /\ mem["owner"][r.id] = acked[r.id] /\ acked[r.id] # None
          /\ ~Even(acked[r.id].at)
      BY <1>0, <2>5, NoneIsNoRow DEF OwnerState, Stamped, Row
    <3>2. \A i \in DOMAIN scanned.rows : scanned.rows[i].id = r.id =>
             ~Replaces(Ends, scanned.rows[i], mem["owner"][r.id])
      BY <1>0, <3>1, LastStays DEF Stamped
    <3>3. mem["owner"] \in Table
      BY <1>0
    <3>4. Loaded(Ends, mem["owner"], scanned.rows)[r.id] = mem["owner"][r.id]
      <4>1. \A start \in Table, rows \in Seq(Row), id \in Ids :
               (\A i \in DOMAIN rows : rows[i].id = id => ~Replaces(Ends, rows[i], start[id]))
                 => Loaded(Ends, start, rows)[id] = start[id]
        BY LoadedKeeps
      <4>2. scanned.rows \in Seq(Row) /\ r.id \in Ids
        BY <1>0, <3>1
      <4> HIDE DEF m, n
      <4> QED
        BY <3>2, <3>3, <4>1, <4>2
    <3> HIDE DEF m
    <3> QED
      BY <2>1, <2>5, <3>1, <3>4
  <2> HIDE DEF m, n
  <2> QED
    BY <2>2, <2>3, <2>4, <2>5 DEF OwnerState
<1>8. ASSUME NEW s \in Services, Stop(s) PROVE OwnerState'
  <2>1. CASE StopWait(s)
    <3>1. CASE s = "owner"
      BY <1>0, <2>1, <3>1 DEF StopWait, Goto, Pending, OwnerState, Stopping
    <3>2. CASE s # "owner"
      BY <1>0, <2>1, <3>2, OwnerFrame DEF StopWait, Goto
    <3> QED
      BY <3>1, <3>2
  <2>2. CASE ReloadRead(s)
    <3>1. CASE s = "owner"
      BY <1>0, <2>2, <3>1, EmptyIsTable DEF ReloadRead, Goto, OwnerState, Stopping
    <3>2. CASE s # "owner"
      BY <1>0, <2>2, <3>2, OwnerFrame DEF ReloadRead, Goto
    <3> QED
      BY <3>1, <3>2
  <2>3. CASE ReloadStore(s)
    <3>1. CASE s = "owner"
      <4>1. /\ mem'["owner"] = Merge(mem["owner"], snap["owner"])
               \/ mem'["owner"] = Load(snap["owner"])
            /\ counter'["owner"] = CounterAfter(counter["owner"], snap["owner"])
            /\ pc["owner"] = "read" /\ pc'["owner"] = "loaded"
            /\ UNCHANGED <<pend, exposed, scanned, acked>>
        BY <1>0, <2>3, <3>1 DEF ReloadStore, Goto
      <4>2. \A id \in Ids : Merge(mem["owner"], snap["owner"])[id] # None
                => id <= CounterAfter(counter["owner"], snap["owner"])
        BY <1>0, <4>1, LoadedCovered, LoadIntoIsLoaded DEF OwnerState, Merge
      <4>3. \A id \in Ids : Load(snap["owner"])[id] # None
                => id <= CounterAfter(counter["owner"], snap["owner"])
        BY <1>0, EmptyIsTable, LoadedCovered, LoadIntoIsLoaded DEF Load
      <4> QED
        BY <4>1, <4>2, <4>3 DEF OwnerState, Stopping
    <3>2. CASE s # "owner"
      BY <1>0, <2>3, <3>2, OwnerFrame DEF ReloadStore, Goto
    <3> QED
      BY <3>1, <3>2
  <2>4. CASE CompactWait(s)
    BY <1>0, <2>4 DEF CompactWait, Goto, OwnerState, Stopping
  <2>5. CASE Compact(s)
    BY <2>5, OwnerGone DEF Compact
  <2>6. CASE CompactSkipped(s)
    BY <2>6, OwnerGone DEF CompactSkipped
  <2> QED
    BY <1>8, <2>1, <2>2, <2>3, <2>4, <2>5, <2>6 DEF Stop
<1>9. ASSUME NEW s \in Services, Crash(s) PROVE OwnerState'
  BY <1>9, OwnerGone DEF Crash
<1>10. ASSUME NEW s \in Services, Start(s) PROVE OwnerState'
  <2>1. CASE s = "owner"
    <3>1. /\ mem'["owner"] = Load(file) /\ counter'["owner"] = CounterAfter(0, file)
          /\ pc["owner"] = "down" /\ pc'["owner"] = "up" /\ pend' = pend
      BY <1>0, <1>10, <2>1 DEF Start, Goto
    <3>2. \A id \in Ids : Load(file)[id] # None => id <= CounterAfter(0, file)
      <4>1. 0 \in 0 .. NumIds /\ Empty \in Table
            /\ \A id \in Ids : Empty[id] # None => id <= 0
        BY <1>0, EmptyIsTable
      <4>2. \A id \in Ids : Loaded(Ends, Empty, file)[id] # None => id <= CounterAfter(0, file)
        BY <1>0, <4>1, LoadedCovered
      <4> QED
        BY <4>2, LoadIntoIsLoaded DEF Load
    <3> QED
      BY <3>1, <3>2 DEF OwnerState, Stopping
  <2>2. CASE s # "owner"
    BY <1>0, <1>10, <2>2, OwnerFrame DEF Start, Goto
  <2> QED
    BY <2>1, <2>2
<1> QED
  BY <1>1, <1>2, <1>3, <1>4, <1>5, <1>6, <1>7, <1>8, <1>9, <1>10 DEF Next

-----------------------------------------------------------------------------
(* The writes that are not exposed are safe.                               *)

LEMMA StampBound ==
    ASSUME NEW a \in Table, NEW r \in Row, Known(r, a)
    PROVE  a[r.id] \in Row /\ r.stamp <= a[r.id].stamp
<1>1. r.id \in Ids /\ r.stamp \in Nat
  BY DEF Row
<1>2. a[r.id] \in Row
  BY <1>1 DEF Known, Table
<1>3. OnDisk(r).stamp = r.stamp /\ OnDisk(a[r.id]).stamp = a[r.id].stamp
  BY <1>2, OnDiskType
<1> QED
  BY <1>1, <1>2, <1>3 DEF Known, Row

\* What a restart reads: a known row, with the time as the file keeps it.
LEMMA BestKnown ==
    ASSUME NEW ends, NEW a \in Table, NEW rows \in Seq(Row), FromFile(rows, a), NEW id \in Ids
    PROVE  /\ Best(ends, rows, id) \in Row \cup {None}
           /\ Held(Best(ends, rows, id)) = Best(ends, rows, id)
           /\ Best(ends, rows, id) # None =>
                 Best(ends, rows, id).id = id /\ Known(Best(ends, rows, id), a)
           /\ \A i \in DOMAIN rows : rows[i].id = id =>
                 Best(ends, rows, id) # None /\ ~Replaces(ends, rows[i], Best(ends, rows, id))
<1> DEFINE w == Best(ends, rows, id)
<1>1. Loaded(ends, Empty, rows) \in Table
  BY EmptyIsTable, LoadedType
<1>2. w \in Row \cup {None}
  BY <1>1 DEF Best, Table
<1>3. IsWinner(ends, w, None, id, rows)
  BY EmptyIsTable, LoadedWinner DEF Best
<1> HIDE DEF w
<1>4. ASSUME w # None PROVE w.id = id /\ Known(w, a) /\ OnDisk(w) = w
  <2>1. w.id = id /\ Known(w, a) /\ Even(w.at) /\ w \in Row
    BY <1>2, <1>3, <1>4 DEF IsWinner, FromFile
  <2>2. OnDisk(w) = w
    BY <2>1 DEF OnDisk, Even, Row
  <2> QED
    BY <2>1, <2>2
<1>5. \A i \in DOMAIN rows : rows[i].id = id => w # None /\ ~Replaces(ends, rows[i], w)
  BY <1>3 DEF IsWinner
<1> QED
  BY <1>2, <1>4, <1>5 DEF Held, w

LEMMA BestHeld ==
    ASSUME NEW ends, NEW a \in Table, NEW rows \in Seq(Row), FromFile(rows, a), NEW id \in Ids
    PROVE  Held(Best(ends, rows, id)) = Best(ends, rows, id)
<1> DEFINE w == Best(ends, rows, id)
<1>1. Loaded(ends, Empty, rows) \in Table
  BY EmptyIsTable, LoadedType
<1>2. w \in Row \cup {None} /\ IsWinner(ends, w, None, id, rows)
  BY <1>1, EmptyIsTable, LoadedWinner DEF Best, Table
<1> HIDE DEF w
<1>3. w # None => OnDisk(w) = w
  BY <1>2 DEF IsWinner, FromFile, OnDisk, Even, Row
<1>4. Held(w) = w
  BY <1>3 DEF Held
<1> QED
  BY <1>4 DEF w

\* Steps that leave what is safe about id as it is.
LEMMA SafeFrame ==
    ASSUME NEW id \in Ids, Safe(id), kind' = kind, acked'[id] = acked[id],
           Best(Ends, file', id) = Best(Ends, file, id),
           \A r \in pend' : r.id = id => r \in pend,
           acked[id] \in pend <=> acked[id] \in pend',
           pc'["owner"] = "up" =>
              /\ pc["owner"] = "up"
              /\ mem'["owner"][id] = mem["owner"][id]
              /\ scanned'.rows = scanned.rows \/ scanned'.rows = << >>,
           pc'["owner"] # "down" =>
              /\ pc["owner"] # "down"
              /\ counter["owner"] \in Nat /\ counter'["owner"] \in Nat
              /\ counter["owner"] <= counter'["owner"],
           \A s \in Services :
              Reloading(id, Ends, pc'[s], mem'[s][id], snap'[s], Best(Ends, file, id))
    PROVE  Safe(id)'
<1>1. Ends' = Ends
  BY DEF Ends
<1>2. Backed(id, Ends, acked'[id], pend', Best(Ends, file', id))
  BY DEF Safe, Backed
<1>3. pc'["owner"] = "up" => InMemory(id, Ends, mem'["owner"][id], acked'[id], scanned'.rows)
  <2>1. DOMAIN << >> = {}
    BY EmptySeq
  <2> QED
    BY <2>1 DEF Safe, InMemory
<1>4. pc'["owner"] # "down" /\ acked'[id] # None => id <= counter'["owner"]
  BY DEF Safe, Ids
<1> QED
  BY <1>1, <1>2, <1>3, <1>4 DEF Safe

\* A write is safe if the file will tell it from the last one of its id.
LEMMA BackedWrite ==
    ASSUME NEW ends, NEW id \in Ids, NEW a \in Table, NEW P \in SUBSET Row,
           NEW best \in Row \cup {None}, NEW row \in Row, row.id = id,
           \A r \in P : Known(r, a), a[id] # None => a[id].id = id /\ a[id].stamp < row.stamp,
           best # None => best.id = id /\ Known(best, a),
           a[id] # None => Replaces(ends, OnDisk(row), OnDisk(a[id])),
           Backed(id, ends, a[id], P, best)
    PROVE  Backed(id, ends, row, P \cup {row}, best)
<1> DEFINE last == a[id]
           new == OnDisk(row)
<1>1. new \in Row /\ new.stamp = row.stamp /\ row.stamp \in Nat
  BY OnDiskType DEF Row
<1>2. last \in Row \cup {None}
  BY DEF Table
<1>3. ASSUME NEW r \in Row, r.id = id, Known(r, a)
      PROVE  /\ last \in Row /\ OnDisk(last) \in Row
             /\ r.stamp < row.stamp /\ r # row
             /\ OnDisk(r) \in Row /\ OnDisk(r).stamp = r.stamp
  <2>1. last \in Row /\ r.stamp <= last.stamp
    BY <1>3, StampBound
  <2>2. last.stamp < row.stamp /\ last.stamp \in Nat /\ r.stamp \in Nat
    BY <2>1, NoneIsNoRow DEF Row
  <2>3. r.stamp < row.stamp
    BY <1>1, <2>1, <2>2
  <2> QED
    BY <1>1, <1>3, <2>1, <2>2, <2>3, OnDiskType
<1>4. Replaces(ends, new, best)
  <2>1. CASE best = None
    BY <2>1 DEF Replaces
  <2>2. CASE best # None
    <3>1. best \in Row /\ last \in Row /\ OnDisk(last) \in Row /\ last # None
      BY <1>3, <2>2, NoneIsNoRow
    <3>2. Replaces(ends, new, OnDisk(last))
      BY <3>1
    <3>3. OnDisk(last) = best \/ Replaces(ends, OnDisk(last), best)
      BY <3>1 DEF Backed, Held
    <3> QED
      BY <1>1, <3>1, <3>2, <3>3, ReplacesOrder
  <2> QED
    BY <2>1, <2>2
<1>5. ASSUME NEW r \in P, r.id = id
      PROVE  Replaces(ends, new, OnDisk(r)) /\ r # row /\ ~Replaces(ends, OnDisk(r), new)
             /\ r.stamp <= row.stamp /\ OnDisk(r).stamp = r.stamp /\ OnDisk(r) \in Row
  <2>1. /\ last \in Row /\ OnDisk(last) \in Row /\ last # None
        /\ r.stamp < row.stamp /\ r # row /\ r.stamp \in Nat
        /\ OnDisk(r) \in Row /\ OnDisk(r).stamp = r.stamp
    BY <1>3, <1>5, NoneIsNoRow DEF Row
  <2>2. Replaces(ends, new, OnDisk(last))
    BY <2>1
  <2>3. r = last \/ Replaces(ends, OnDisk(last), OnDisk(r))
    BY <1>5 DEF Backed
  <2>4. Replaces(ends, new, OnDisk(r))
    BY <1>1, <2>1, <2>2, <2>3, ReplacesOrder
  <2>5. ~Replaces(ends, OnDisk(r), new)
    BY <1>1, <2>1, <2>4, ReplacesOrder
  <2> QED
    BY <1>1, <2>1, <2>4, <2>5
<1>6. InOrder(ends, best, new)
  <2>1. CASE best = None
    BY <1>1, <2>1 DEF InOrder, None
  <2>2. CASE best # None
    <3>1. best.stamp < row.stamp /\ best.stamp \in Nat
      BY <1>3, <2>2 DEF Row
    <3> QED
      BY <1>1, <3>1 DEF InOrder
  <2> QED
    BY <2>1, <2>2
<1>7. ~Replaces(ends, new, new)
  BY <1>1, ReplacesOrder
<1> HIDE DEF new, last
<1>8. ASSUME NEW r \in P \cup {row}, r.id = id
      PROVE  /\ r # row => Replaces(ends, new, OnDisk(r))
             /\ InOrder(ends, best, OnDisk(r))
             /\ \A q \in P \cup {row} : q.id = id => InOrder(ends, OnDisk(q), OnDisk(r))
  <2>1. CASE r \in P
    <3>1. InOrder(ends, best, OnDisk(r))
          /\ \A q \in P : q.id = id => InOrder(ends, OnDisk(q), OnDisk(r))
      BY <1>8, <2>1 DEF Backed, last
    <3>2. Replaces(ends, new, OnDisk(r)) /\ ~Replaces(ends, OnDisk(r), OnDisk(row))
      BY <1>5, <1>8, <2>1 DEF new
    <3> QED
      BY <3>1, <3>2 DEF InOrder
  <2>2. CASE r = row
    <3>1. \A q \in P : q.id = id => InOrder(ends, OnDisk(q), OnDisk(row))
      BY <1>1, <1>5 DEF InOrder, new
    <3>2. InOrder(ends, OnDisk(row), OnDisk(row))
      BY <1>7 DEF InOrder, new
    <3> QED
      BY <1>6, <2>2, <3>1, <3>2 DEF new
  <2> QED
    BY <1>8, <2>1, <2>2
<1> QED
  BY <1>4, <1>8 DEF Backed, new

\* The best row of the table in memory, the file and what is in flight.
LEMMA Shapes ==
    ASSUME Typed
    PROVE  /\ acked \in Table /\ pend \in SUBSET Row /\ file \in Seq(Row)
           /\ scanned.rows \in Seq(Row) /\ mem \in [Services -> Table]
           /\ \A s \in Services : mem[s] \in Table /\ snap[s] \in Seq(Row)
                                  /\ counter[s] \in 0 .. NumIds
           /\ snap \in [Services -> Seq(Row)] /\ counter \in [Services -> 0 .. NumIds]
           /\ pc \in [Services -> {"up", "down"} \cup Stopping]
           /\ "owner" \in Services /\ "other" \in Services /\ NumIds \in Nat
           /\ writes \in Nat /\ second \in Nat
BY BoundsAssumption DEF Typed, TypeOK, Services

LEMMA SafeWrite ==
    ASSUME Typed, Stamped, OwnerState, AllSafe, Stamped', NEW w \in Ids,
           NEW final \in BOOLEAN, NEW tie, Write(w, final, tie), writes < MaxWrites,
           UNCHANGED <<kind, second, pc, snap, scanned, file>>,
           pc["owner"] # "down", counter'["owner"] \in Nat,
           counter["owner"] <= counter'["owner"], w <= counter'["owner"],
           (w \notin exposed /\ pc["owner"] = "up" /\ ~tie /\ acked[w] # None) =>
              \/ 2 * (acked[w].at \div 2) < 2 * second
              \/ Ends /\ final /\ ~acked[w].final
    PROVE  AllSafe'
<1> DEFINE row == [id |-> w, stamp |-> writes + 1, final |-> final, at |-> Instant]
<1>0. /\ acked \in Table /\ pend \in SUBSET Row /\ file \in Seq(Row)
      /\ scanned.rows \in Seq(Row) /\ mem \in [Services -> Table]
      /\ counter["owner"] \in Nat /\ pc \in [Services -> {"up", "down"} \cup Stopping]
      /\ "owner" \in Services /\ "other" \in Services /\ MaxWrites \in Nat
      /\ writes \in Nat /\ second \in Nat
  BY Shapes, BoundsAssumption
<1>1. /\ row \in Row /\ row.id = w /\ row.stamp = writes + 1 /\ row.at = Instant
      /\ row.final = final /\ Instant = 2 * second + 1 /\ ~Even(row.at)
      /\ OnDisk(row).at = 2 * second /\ OnDisk(row).final = final /\ OnDisk(row) \in Row
  <2>1. row \in Row
    BY <1>0 DEF Row, Instant
  <2>2. row.at = 2 * second + 1 /\ (2 * second + 1) \div 2 = second /\ ~Even(2 * second + 1)
    BY <1>0, Halves DEF Instant
  <2>3. row.id = w /\ row.stamp = writes + 1 /\ row.at = Instant /\ row.final = final
        /\ Instant = 2 * second + 1
    BY DEF Instant
  <2> HIDE DEF row
  <2> QED
    BY <2>1, <2>2, <2>3, OnDiskType
<1>2. /\ mem' = [mem EXCEPT !["owner"][w] = row]
      /\ pend' = pend \cup {row}
      /\ acked' = [acked EXCEPT ![w] = row]
      /\ exposed' = IF pc["owner"] \in Stopping \/ tie THEN exposed \cup {w} ELSE exposed
  BY DEF Write
<1> HIDE DEF row
<1>3. SUFFICES ASSUME NEW id \in Ids, id \notin exposed' PROVE Safe(id)'
  BY DEF AllSafe
<1>4. id \notin exposed /\ Safe(id)
  BY <1>2, <1>3 DEF AllSafe
<1>5. /\ mem'["owner"] = [mem["owner"] EXCEPT ![w] = row]
      /\ mem'["other"] = mem["other"]
  BY <1>0, <1>2 DEF Services
<1>6. CASE id # w
  <2>1. acked'[id] = acked[id] /\ mem'["owner"][id] = mem["owner"][id]
    BY <1>0, <1>2, <1>5, <1>6 DEF Table
  <2>2. acked[id] # row
    BY <1>0, <1>1, <1>6, NoneIsNoRow DEF Stamped
  <2>3. /\ \A r \in pend' : r.id = id => r \in pend
        /\ acked[id] \in pend <=> acked[id] \in pend'
    BY <1>1, <1>2, <1>6, <2>2
  <2>4. \A s \in Services :
           Reloading(id, Ends, pc'[s], mem'[s][id], snap'[s], Best(Ends, file, id))
    <3>1. \A s \in Services : mem'[s][id] = mem[s][id]
      BY <1>5, <2>1 DEF Services
    <3> QED
      BY <1>4, <3>1 DEF Safe
  <2> QED
    BY <1>0, <1>4, <2>1, <2>3, <2>4, SafeFrame
<1>7. CASE id = w
  <2>1. pc["owner"] = "up" /\ ~tie
    BY <1>0, <1>2, <1>3, <1>7
  <2>2. acked'[id] = row /\ mem'["owner"][id] = row /\ acked' \in Table
    BY <1>0, <1>1, <1>2, <1>5, <1>7 DEF Table
  <2>3. acked[id] # None =>
           /\ acked[id] \in Row /\ acked[id].id = id /\ acked[id].stamp < row.stamp
           /\ Replaces(Ends, OnDisk(row), OnDisk(acked[id]))
    <3>1. SUFFICES ASSUME acked[id] # None
                   PROVE  /\ acked[id] \in Row /\ acked[id].id = id
                          /\ acked[id].stamp < row.stamp
                          /\ Replaces(Ends, OnDisk(row), OnDisk(acked[id]))
      OBVIOUS
    <3>2. acked[id] \in Row /\ acked[id].id = id /\ acked[id].stamp <= writes
          /\ acked[id].at <= Instant
      BY <1>0, <3>1 DEF Stamped, Table
    <3>3. acked[id].stamp \in Nat /\ acked[id].at \in Nat
      BY <3>2 DEF Row
    <3>4. 2 * (acked[id].at \div 2) <= 2 * second
      BY <1>0, <1>1, <3>2, <3>3
    <3>5. OnDisk(acked[id]).at = 2 * (acked[id].at \div 2)
          /\ OnDisk(acked[id]).final = acked[id].final
      BY <3>2, OnDiskType
    <3>6. 2 * (acked[id].at \div 2) < 2 * second \/ (Ends /\ final /\ ~acked[id].final)
      BY <1>4, <1>7, <2>1, <3>1
    <3>7. Replaces(Ends, OnDisk(row), OnDisk(acked[id]))
      <4> DEFINE k == 2 * (acked[id].at \div 2)
      <4>1. k \in Nat /\ k <= 2 * second
        BY <3>3, <3>4, Halves
      <4> HIDE DEF k
      <4>2. k < 2 * second \/ k = 2 * second
        BY <1>0, <4>1
      <4>3. OnDisk(acked[id]).at = k
        BY <3>5 DEF k
      <4>4. k < 2 * second \/ (Ends /\ final /\ ~acked[id].final)
        BY <3>6 DEF k
      <4>5. k < 2 * second => OnDisk(row).at > OnDisk(acked[id]).at
        BY <1>0, <1>1, <4>1, <4>3
      <4> QED
        BY <1>1, <3>5, <4>2, <4>3, <4>4, <4>5 DEF Replaces
    <3> QED
      BY <1>0, <1>1, <3>2, <3>3, <3>7
  <2>4. Backed(id, Ends, row, pend', Best(Ends, file, id))
    <3>1. /\ Best(Ends, file, id) \in Row \cup {None}
          /\ Best(Ends, file, id) # None =>
                 Best(Ends, file, id).id = id /\ Known(Best(Ends, file, id), acked)
      BY <1>0, BestKnown DEF Stamped
    <3>2. \A r \in pend : Known(r, acked)
      BY DEF Stamped
    <3>3. Backed(id, Ends, acked[id], pend, Best(Ends, file, id))
      BY <1>4 DEF Safe
    <3>4. row.id = id
      BY <1>1, <1>7
    <3>5. Backed(id, Ends, row, pend \cup {row}, Best(Ends, file, id))
      BY <1>0, <1>1, <2>3, <3>1, <3>2, <3>3, <3>4, BackedWrite
    <3> QED
      BY <1>2, <3>5
  <2>5. InMemory(id, Ends, row, row, scanned.rows)
    <3>1. FromFile(scanned.rows, acked')
      BY DEF Stamped
    <3>2. acked'[id] # None /\ ~Even(acked'[id].at)
      BY <1>1, <2>2, NoneIsNoRow
    <3>3. \A i \in DOMAIN scanned.rows : scanned.rows[i].id = id =>
             ~Replaces(Ends, scanned.rows[i], acked'[id])
      BY <1>0, <2>2, <3>1, <3>2, LastStays
    <3> QED
      BY <2>2, <3>3 DEF InMemory
  <2>6. \A s \in Services :
           Reloading(id, Ends, pc[s], mem'[s][id], snap[s], Best(Ends, file, id))
    <3>1. Reloading(id, Ends, pc["owner"], mem'["owner"][id], snap["owner"], Best(Ends, file, id))
      BY <2>1 DEF Reloading
    <3>2. Reloading(id, Ends, pc["other"], mem'["other"][id], snap["other"], Best(Ends, file, id))
      BY <1>0, <1>4, <1>5 DEF Safe
    <3> QED
      BY <3>1, <3>2 DEF Services
  <2>7. Ends' = Ends
    BY DEF Ends
  <2> QED
    BY <1>7, <2>2, <2>4, <2>5, <2>6, <2>7 DEF Safe
<1> QED
  BY <1>6, <1>7

\* What an append does to what a restart would read.
LEMMA BestAppend ==
    ASSUME NEW ends, NEW rows \in Seq(Row), NEW row \in Row, NEW id \in Ids
    PROVE  Best(ends, Append(rows, OnDisk(row)), id) =
             IF row.id = id /\ Replaces(ends, OnDisk(row), Best(ends, rows, id))
             THEN OnDisk(row) ELSE Best(ends, rows, id)
<1> DEFINE new == OnDisk(row)
           x == Loaded(ends, Empty, rows)
<1>1. new \in Row /\ new.id = row.id /\ row.id \in Ids
  BY OnDiskType DEF Row
<1>2. x \in Table
  BY EmptyIsTable, LoadedType
<1>3. Loaded(ends, Empty, Append(rows, new)) = Better(ends, x, new)
  <2> HIDE DEF new
  <2> QED
    BY <1>1, EmptyIsTable, LoadedAppend
<1> HIDE DEF new, x
<1>4. Better(ends, x, new)[id] =
        IF row.id = id /\ Replaces(ends, new, x[id]) THEN new ELSE x[id]
  BY <1>1, <1>2 DEF Better, Table
<1> QED
  BY <1>3, <1>4 DEF Best, new, x

\* The file stays behind the last write when one of the rows in flight,
\* whichever it is, is appended.
LEMMA BackedAppend ==
    ASSUME NEW ends, NEW id \in Ids, NEW a \in Table, NEW P \in SUBSET Row,
           NEW best \in Row \cup {None}, NEW row \in P, row.id = id,
           \A r \in P : Known(r, a),
           Backed(id, ends, a[id], P, best)
    PROVE  Backed(id, ends, a[id], P \ {row},
                  IF Replaces(ends, OnDisk(row), best) THEN OnDisk(row) ELSE best)
<1> DEFINE last == a[id]
           new == OnDisk(row)
           after == IF Replaces(ends, new, best) THEN new ELSE best
<1>1. last \in Row /\ new \in Row /\ OnDisk(last) \in Row /\ last # None
  BY OnDiskType, StampBound, NoneIsNoRow
<1>2. row # last => Replaces(ends, OnDisk(last), new)
  BY DEF Backed
<1>3. row # last => ~Replaces(ends, new, OnDisk(last))
  BY <1>1, <1>2, ReplacesOrder
<1>4. /\ last \in P => Replaces(ends, OnDisk(last), best)
      /\ last \notin P => best = OnDisk(last)
  BY <1>1 DEF Backed, Held
<1> HIDE DEF last, new
<1>5. row = last => new = OnDisk(last)
  BY DEF new
<1>6. last \in P \ {row} => Replaces(ends, OnDisk(last), after)
  BY <1>2, <1>4
<1>7. last \notin P \ {row} => after = OnDisk(last)
  BY <1>3, <1>4, <1>5
<1>8. ASSUME NEW r \in P \ {row}, r.id = id
      PROVE  /\ r # last => Replaces(ends, OnDisk(last), OnDisk(r))
             /\ InOrder(ends, after, OnDisk(r))
             /\ \A q \in P \ {row} : q.id = id => InOrder(ends, OnDisk(q), OnDisk(r))
  BY <1>8 DEF Backed, last, new
<1>9. Held(last) = OnDisk(last)
  BY <1>1 DEF Held
<1> HIDE DEF after
<1>10. Backed(id, ends, last, P \ {row}, after)
  BY <1>6, <1>7, <1>8, <1>9 DEF Backed
<1> QED
  BY <1>10 DEF last, after, new

LEMMA SafeAppend ==
    ASSUME Typed, Stamped, OwnerState, AllSafe, Stamped', NEW row \in pend, AppendRow(row)
    PROVE  AllSafe'
<1>0. /\ acked \in Table /\ pend \in SUBSET Row /\ file \in Seq(Row)
      /\ scanned.rows \in Seq(Row) /\ mem \in [Services -> Table]
      /\ counter["owner"] \in Nat /\ pc \in [Services -> {"up", "down"} \cup Stopping]
      /\ "owner" \in Services /\ "other" \in Services
  BY Shapes
<1>1. /\ pend' = pend \ {row}
      /\ file' = Append(file, OnDisk(row))
      /\ exposed' = ExposedAfter(row, file')
      /\ UNCHANGED <<kind, mem, counter, pc, snap, scanned, acked>>
  BY DEF AppendRow, stores
<1>2. Ends' = Ends
  BY <1>1 DEF Ends
<1>3. SUFFICES ASSUME NEW id \in Ids, id \notin exposed' PROVE Safe(id)'
  BY DEF AllSafe
<1>4. Best(Ends, file', id) =
         IF row.id = id /\ Replaces(Ends, OnDisk(row), Best(Ends, file, id))
         THEN OnDisk(row) ELSE Best(Ends, file, id)
  BY <1>0, <1>1, BestAppend
<1>5. CASE row.id # id
  <2>1. id \notin exposed
    BY <1>1, <1>3, <1>5 DEF ExposedAfter
  <2>2. Safe(id)
    BY <2>1 DEF AllSafe
  <2>3. acked[id] # row
    BY <1>0, <1>5, NoneIsNoRow DEF Stamped
  <2>4. /\ \A r \in pend' : r.id = id => r \in pend
        /\ acked[id] \in pend <=> acked[id] \in pend'
    BY <1>1, <2>3
  <2>5. Best(Ends, file', id) = Best(Ends, file, id)
    BY <1>4, <1>5
  <2>6. \A s \in Services :
           Reloading(id, Ends, pc'[s], mem'[s][id], snap'[s], Best(Ends, file, id))
    BY <1>1, <2>2 DEF Safe
  <2> QED
    BY <1>0, <1>1, <2>2, <2>4, <2>5, <2>6, SafeFrame
<1>6. CASE row.id = id
  <2>1. pc["other"] \notin Rewriting
    BY <1>1, <1>3, <1>6 DEF ExposedAfter
  <2>2. pc["owner"] \notin Stopping
    <3>1. CASE id \in exposed
      BY <1>1, <1>3, <1>6, <2>1, <3>1 DEF ExposedAfter
    <3>2. CASE id \notin exposed
      BY <1>6, <3>2 DEF OwnerState
    <3> QED
      BY <3>1, <3>2
  <2>3. pc["owner"] = "up"
    BY <1>0, <2>2 DEF OwnerState
  <2>4. \A s \in Services :
           Reloading(id, Ends, pc[s], mem[s][id], snap[s], Best(Ends, file', id))
    BY <2>1, <2>3 DEF Reloading, Services, Rewriting
  <2>5. CASE id \notin exposed
    <3>1. Safe(id)
      BY <2>5 DEF AllSafe
    <3>2. Backed(id, Ends, acked[id], pend', Best(Ends, file', id))
      <4>1. /\ Best(Ends, file, id) \in Row \cup {None}
            /\ Backed(id, Ends, acked[id], pend, Best(Ends, file, id))
            /\ \A r \in pend : Known(r, acked)
        BY <1>0, <3>1, BestKnown DEF Stamped, Safe
      <4>2. Backed(id, Ends, acked[id], pend \ {row},
                   IF Replaces(Ends, OnDisk(row), Best(Ends, file, id))
                   THEN OnDisk(row) ELSE Best(Ends, file, id))
        BY <1>0, <1>6, <4>1, BackedAppend
      <4> QED
        BY <1>1, <1>4, <1>6, <4>2
    <3> QED
      BY <1>1, <1>2, <2>4, <3>1, <3>2 DEF Safe
  <2>6. CASE id \in exposed
    <3>1. /\ \A r \in pend \ {row} : r.id # id
          /\ row = acked[id]
          /\ Load(file')[id].stamp = row.stamp
      BY <1>1, <1>3, <1>6, <2>1, <2>6 DEF ExposedAfter
    <3>2. file' \in Seq(Row) /\ FromFile(file', acked)
      BY <1>0, <1>1, OnDiskType, AppendProperties DEF Stamped
    <3> DEFINE best == Best(Ends, file', id)
    <3>3. best.stamp = row.stamp
      BY <3>1, LoadIntoIsLoaded DEF Load, Best
    <3>4. /\ best \in Row \cup {None}
          /\ Held(best) = best
          /\ best # None => best.id = id /\ Known(best, acked)
      <4>1. PICK rows \in Seq(Row) : rows = file'
        BY <3>2
      <4>2. FromFile(rows, acked)
        BY <3>2, <4>1
      <4>3. /\ Best(Ends, rows, id) \in Row \cup {None}
            /\ Held(Best(Ends, rows, id)) = Best(Ends, rows, id)
            /\ Best(Ends, rows, id) # None =>
                  Best(Ends, rows, id).id = id /\ Known(Best(Ends, rows, id), acked)
        <5>1. acked \in Table
          BY <1>0
        <5> HIDE DEF best
        <5> QED
          BY <4>2, <5>1, BestKnown
      <4> QED
        BY <4>1, <4>3
    <3>5. row \in Row /\ row # None /\ row.stamp > 0 /\ None.stamp = 0
      BY <1>0, NoneIsNoRow DEF Row, None
    <3> HIDE DEF best
    <3>6. best = OnDisk(row)
      <4>1. best # None
        BY <3>3, <3>5
      <4>2. ~(best.stamp < acked[id].stamp)
        BY <3>1, <3>3, <3>5 DEF Row
      <4> QED
        BY <3>1, <3>4, <4>1, <4>2 DEF Known, Held
    <3>7. Backed(id, Ends, acked[id], pend', best)
      BY <1>1, <3>1, <3>5, <3>6 DEF Backed, Held
    <3>8. mem["owner"][id] = acked[id]
      BY <1>6, <2>3, <3>1 DEF OwnerState
    <3>9. InMemory(id, Ends, acked[id], acked[id], scanned.rows)
      <4>1. acked[id] # None /\ ~Even(acked[id].at) /\ FromFile(scanned.rows, acked)
        BY <3>1, <3>5 DEF Stamped
      <4>2. \A i \in DOMAIN scanned.rows : scanned.rows[i].id = id =>
               ~Replaces(Ends, scanned.rows[i], acked[id])
        BY <1>0, <4>1, LastStays
      <4> QED
        BY <4>2 DEF InMemory
    <3>10. id <= counter["owner"]
      BY <2>3, <3>1, <3>5, <3>8 DEF OwnerState
    <3> QED
      BY <1>1, <1>2, <2>4, <3>7, <3>8, <3>9, <3>10 DEF Safe, best
  <2> QED
    BY <2>5, <2>6
<1> QED
  BY <1>5, <1>6

\* A file that the scanner reads now has nothing better than the memory.
LEMMA ReadBehind ==
    ASSUME NEW ends, NEW id \in Ids, NEW a \in Table, NEW rows \in Seq(Row), NEW P,
           NEW m \in Row \cup {None}, FromFile(rows, a), Held(m) = Held(a[id]),
           Backed(id, ends, a[id], P, Best(ends, rows, id))
    PROVE  \A i \in DOMAIN rows : rows[i].id = id => ~Replaces(ends, rows[i], m)
<1> SUFFICES ASSUME NEW i \in DOMAIN rows, rows[i].id = id
             PROVE  ~Replaces(ends, rows[i], m)
  OBVIOUS
<1> DEFINE last == a[id]
           best == Best(ends, rows, id)
           r == rows[i]
<1>1. /\ best \in Row /\ ~Replaces(ends, r, best)
  BY BestKnown
<1>2. r \in Row /\ Known(r, a) /\ Even(r.at) /\ r.id = id
  BY RowsOfFile DEF FromFile
<1>3. last \in Row /\ last # None
  BY <1>2, NoneIsNoRow, StampBound DEF Known
<1>4. m \in Row /\ OnDisk(m) = OnDisk(last) /\ OnDisk(last) \in Row
  BY <1>3, OnDiskType DEF Held
<1>5. best = OnDisk(last) \/ Replaces(ends, OnDisk(last), best)
  BY <1>3 DEF Backed, Held
<1> HIDE DEF last, best, r
<1>6. ~Replaces(ends, r, OnDisk(last))
  BY <1>1, <1>2, <1>4, <1>5, ReplacesOrder
<1>7. /\ OnDisk(m).at = 2 * (m.at \div 2) /\ OnDisk(m).final = m.final
      /\ OnDisk(m) # None /\ m # None
      /\ r.at \in Nat /\ m.at \in Nat
  BY <1>2, <1>4, OnDiskType, NoneIsNoRow DEF Row
<1>8. 2 * (m.at \div 2) <= m.at
  BY <1>7, Halves
<1>9. r.at = m.at => 2 * (m.at \div 2) = m.at
  BY <1>2 DEF Even
<1>10. ~Replaces(ends, r, m)
  <2> DEFINE k == 2 * (m.at \div 2)
  <2>1. k \in Nat
    BY <1>7, Halves
  <2>2. /\ OnDisk(m).at = k /\ k <= m.at /\ (r.at = m.at => k = m.at)
    BY <1>7, <1>8, <1>9
  <2> HIDE DEF k
  <2>3. ~Replaces(ends, r, OnDisk(m))
    BY <1>4, <1>6
  <2> QED
    BY <1>7, <2>1, <2>2, <2>3 DEF Replaces
<1> QED
  BY <1>10 DEF r

LEMMA SafeScanRead ==
    ASSUME Typed, Stamped, OwnerState, AllSafe, ScanRead PROVE AllSafe'
<1>1. /\ acked \in Table /\ pend \in SUBSET Row /\ file \in Seq(Row)
      /\ mem["owner"] \in Table
  BY Shapes
<1>2. UNCHANGED <<kind, mem, counter, pc, snap, pend, file, acked, exposed>>
      /\ scanned'.rows = file
  BY DEF ScanRead
<1>3. Ends' = Ends
  BY <1>2 DEF Ends
<1>4. SUFFICES ASSUME NEW id \in Ids, id \notin exposed PROVE Safe(id)'
  BY <1>2 DEF AllSafe
<1>5. Safe(id)
  BY <1>4 DEF AllSafe
<1>6. ASSUME pc["owner"] = "up"
      PROVE  InMemory(id, Ends, mem["owner"][id], acked[id], file)
  <2>1. Held(mem["owner"][id]) = Held(acked[id])
    BY <1>5, <1>6 DEF Safe, InMemory
  <2>2. mem["owner"][id] \in Row \cup {None}
    BY <1>1 DEF Table
  <2>3. FromFile(file, acked) /\ Backed(id, Ends, acked[id], pend, Best(Ends, file, id))
    BY <1>5 DEF Stamped, Safe
  <2>4. \A i \in DOMAIN file : file[i].id = id => ~Replaces(Ends, file[i], mem["owner"][id])
    BY <1>1, <2>1, <2>2, <2>3, ReadBehind
  <2> QED
    BY <2>1, <2>4 DEF InMemory
<1> QED
  BY <1>2, <1>3, <1>5, <1>6 DEF Safe

LEMMA SafeScanMerge ==
    ASSUME Typed, Stamped, OwnerState, AllSafe, ScanMerge PROVE AllSafe'
<1>1. /\ acked \in Table /\ scanned.rows \in Seq(Row) /\ mem["owner"] \in Table
      /\ mem \in [Services -> Table] /\ counter \in [Services -> 0 .. NumIds]
      /\ counter["owner"] \in 0 .. NumIds /\ "owner" \in Services /\ NumIds \in Nat
      /\ pc \in [Services -> {"up", "down"} \cup Stopping]
  BY Shapes
<1>2. /\ mem' = [mem EXCEPT !["owner"] = Loaded(Ends, mem["owner"], scanned.rows)]
      /\ counter' = [counter EXCEPT !["owner"] = CounterAfter(counter["owner"], scanned.rows)]
      /\ scanned.read /\ scanned'.rows = << >>
      /\ exposed' = IF pc["owner"] \in Stopping
                    THEN exposed \cup {row.id : row \in Range(scanned.rows)} ELSE exposed
      /\ UNCHANGED <<kind, pc, snap, pend, file, acked>>
  BY LoadIntoIsLoaded DEF ScanMerge, Merge, Nothing
<1>3. SUFFICES ASSUME NEW id \in Ids, id \notin exposed' PROVE Safe(id)'
  BY DEF AllSafe
<1>4. id \notin exposed /\ Safe(id)
  BY <1>2, <1>3 DEF AllSafe
<1>5. pc["owner"] # "down"
  BY <1>2 DEF OwnerState
<1>6. \A i \in DOMAIN scanned.rows : scanned.rows[i].id = id =>
         ~Replaces(Ends, scanned.rows[i], mem["owner"][id])
  <2>1. CASE pc["owner"] = "up"
    BY <1>4, <2>1 DEF Safe, InMemory
  <2>2. CASE pc["owner"] \in Stopping
    <3>1. \A i \in DOMAIN scanned.rows : scanned.rows[i] \in Range(scanned.rows)
      BY <1>1, RowsOfFile
    <3> QED
      BY <1>2, <1>3, <2>2, <3>1
  <2> QED
    BY <1>1, <1>5, <2>1, <2>2
<1>7. Loaded(Ends, mem["owner"], scanned.rows)[id] = mem["owner"][id]
  BY <1>1, <1>6, LoadedKeeps
<1>8. \A s \in Services : mem'[s][id] = mem[s][id]
  BY <1>1, <1>2, <1>7
<1>9. /\ counter["owner"] \in Nat /\ counter'["owner"] \in Nat
      /\ counter["owner"] <= counter'["owner"]
  <2>1. /\ CounterAfter(counter["owner"], scanned.rows) \in 0 .. NumIds
        /\ counter["owner"] <= CounterAfter(counter["owner"], scanned.rows)
    BY <1>1, CounterCovers
  <2> QED
    BY <1>1, <1>2, <2>1
<1>10. \A s \in Services :
          Reloading(id, Ends, pc'[s], mem'[s][id], snap'[s], Best(Ends, file, id))
  BY <1>2, <1>4, <1>8 DEF Safe
<1>11. mem'["owner"][id] = mem["owner"][id]
  BY <1>1, <1>8
<1> QED
  BY <1>2, <1>4, <1>5, <1>9, <1>10, <1>11, SafeFrame

LEMMA SafeGone ==
    ASSUME Typed, Stamped, OwnerState, AllSafe, NEW s \in Services, Gone(s),
           kind' = kind, acked' = acked, exposed \subseteq exposed',
           \A id \in Ids \ exposed' : /\ Best(Ends, file', id) = Best(Ends, file, id)
                                      /\ \A r \in Pending(s) : r.id # id
    PROVE  AllSafe'
<1>1. /\ acked \in Table /\ pend \in SUBSET Row
      /\ mem \in [Services -> Table] /\ counter \in [Services -> 0 .. NumIds]
      /\ snap \in [Services -> Seq(Row)]
      /\ pc \in [Services -> {"up", "down"} \cup Stopping]
      /\ "owner" \in Services /\ NumIds \in Nat
  BY Shapes
<1>2. /\ pc' = [pc EXCEPT ![s] = "down"]
      /\ mem' = [mem EXCEPT ![s] = Empty]
      /\ counter' = [counter EXCEPT ![s] = 0]
      /\ snap' = [snap EXCEPT ![s] = << >>]
      /\ s # "owner" => scanned' = scanned
      /\ pend' = pend \ Pending(s)
  BY DEF Gone, Goto, Nothing
<1>3. SUFFICES ASSUME NEW id \in Ids, id \notin exposed' PROVE Safe(id)'
  BY DEF AllSafe
<1>4. Safe(id) /\ Best(Ends, file', id) = Best(Ends, file, id)
      /\ \A r \in Pending(s) : r.id # id
  BY <1>3 DEF AllSafe
<1>5. \A r \in pend' : r \in pend
  BY <1>2
<1>6. acked[id] \in pend <=> acked[id] \in pend'
  <2>1. acked[id] \in pend => acked[id].id = id
    BY <1>1, NoneIsNoRow DEF Stamped
  <2> QED
    BY <1>2, <1>4, <2>1
<1>7. pc'["owner"] # "down" =>
         /\ pc["owner"] = pc'["owner"] /\ mem'["owner"] = mem["owner"]
         /\ counter'["owner"] = counter["owner"] /\ counter["owner"] \in Nat
         /\ scanned' = scanned
  BY <1>1, <1>2 DEF Stopping
<1>8. \A t \in Services :
         Reloading(id, Ends, pc'[t], mem'[t][id], snap'[t], Best(Ends, file, id))
  <2> SUFFICES ASSUME NEW t \in Services
               PROVE Reloading(id, Ends, pc'[t], mem'[t][id], snap'[t], Best(Ends, file, id))
    OBVIOUS
  <2>1. CASE t = s
    BY <1>1, <1>2, <2>1 DEF Reloading
  <2>2. CASE t # s
    <3>1. pc'[t] = pc[t] /\ mem'[t] = mem[t] /\ snap'[t] = snap[t]
      BY <1>1, <1>2, <2>2
    <3> QED
      BY <1>4, <3>1 DEF Safe
  <2> QED
    BY <2>1, <2>2
<1>9. /\ pc'["owner"] = "up" => /\ pc["owner"] = "up"
                                /\ mem'["owner"][id] = mem["owner"][id]
                                /\ scanned'.rows = scanned.rows \/ scanned'.rows = << >>
      /\ pc'["owner"] # "down" => /\ pc["owner"] # "down"
                                  /\ counter["owner"] \in Nat /\ counter'["owner"] \in Nat
                                  /\ counter["owner"] <= counter'["owner"]
  BY <1>7
<1> QED
  BY <1>4, <1>5, <1>6, <1>8, <1>9, SafeFrame

\* A compaction leaves what a restart would read as it was.
LEMMA CompactBest ==
    ASSUME Typed, Stamped, AllSafe, NEW s \in Services, Compact(s)
    PROVE  \A id \in Ids \ exposed : Best(Ends, file', id) = Best(Ends, file, id)
<1> SUFFICES ASSUME NEW id \in Ids \ exposed
             PROVE  Best(Ends, file', id) = Best(Ends, file, id)
  OBVIOUS
<1>1. pc[s] = "drained" /\ file' = Compacted(mem[s]) /\ mem[s] \in Table
  BY Shapes DEF Compact
<1>2. Held(mem[s][id]) = Best(Ends, file, id)
  BY <1>1 DEF AllSafe, Safe, Reloading
<1>3. \A i \in Ids : mem[s][i] # None => mem[s][i].id = i
  BY DEF Stamped
<1>4. Loaded(Ends, Empty, Compacted(mem[s]))[id] = Held(mem[s][id])
  BY <1>1, <1>3, CompactedLoads
<1> QED
  BY <1>1, <1>2, <1>4 DEF Best

LEMMA SafeStop ==
    ASSUME Typed, Stamped, OwnerState, AllSafe, NEW s \in Services, Stop(s)
    PROVE  AllSafe'
<1>1. /\ acked \in Table /\ pend \in SUBSET Row /\ file \in Seq(Row)
      /\ mem \in [Services -> Table] /\ counter \in [Services -> 0 .. NumIds]
      /\ snap \in [Services -> Seq(Row)]
      /\ pc \in [Services -> {"up", "down"} \cup Stopping]
      /\ "owner" \in Services /\ NumIds \in Nat
      /\ mem[s] \in Table /\ snap[s] \in Seq(Row)
  BY Shapes
<1>2. FromFile(file, acked) /\ FromFile(snap[s], acked)
  BY DEF Stamped
<1>a. ASSUME pc[s] # "up", pc[s] # "down", pc'[s] # "up", kind' = kind, acked' = acked,
             pc' = [pc EXCEPT ![s] = pc'[s]], pend' = pend, file' = file, exposed' = exposed,
             scanned' = scanned, \A t \in Services \ {s} : mem'[t] = mem[t] /\ snap'[t] = snap[t],
             counter["owner"] <= counter'["owner"], counter'["owner"] \in Nat,
             \A id \in Ids \ exposed :
               Safe(id) => Reloading(id, Ends, pc'[s], mem'[s][id], snap'[s], Best(Ends, file, id))
      PROVE  AllSafe'
  <2>1. SUFFICES ASSUME NEW id \in Ids, id \notin exposed PROVE Safe(id)'
    BY <1>a DEF AllSafe
  <2>2. Safe(id)
    BY <2>1 DEF AllSafe
  <2>3. \A t \in Services \ {s} : pc'[t] = pc[t]
    BY <1>1, <1>a
  <2>4. \A t \in Services :
           Reloading(id, Ends, pc'[t], mem'[t][id], snap'[t], Best(Ends, file, id))
    <3> SUFFICES ASSUME NEW t \in Services
                 PROVE Reloading(id, Ends, pc'[t], mem'[t][id], snap'[t], Best(Ends, file, id))
      OBVIOUS
    <3>1. CASE t = s
      BY <1>a, <2>1, <2>2, <3>1
    <3>2. CASE t # s
      <4>1. pc'[t] = pc[t] /\ mem'[t] = mem[t] /\ snap'[t] = snap[t]
        BY <1>a, <2>3, <3>2
      <4> QED
        BY <2>2, <4>1 DEF Safe
    <3> QED
      BY <3>1, <3>2
  <2>5. /\ pc'["owner"] = "up" => pc["owner"] = "up" /\ mem'["owner"] = mem["owner"]
        /\ pc'["owner"] # "down" => pc["owner"] # "down"
    BY <1>1, <1>a, <2>3
  <2>6. counter["owner"] \in Nat
    BY <1>1
  <2> QED
    BY <1>a, <2>2, <2>4, <2>5, <2>6, SafeFrame
<1>3. CASE StopWait(s)
  <2>1. /\ pc' = [pc EXCEPT ![s] = "waited"] /\ pc[s] = "up"
        /\ UNCHANGED <<kind, mem, counter, snap, scanned, pend, file, acked, exposed>>
    BY <1>3 DEF StopWait, Goto
  <2>2. SUFFICES ASSUME NEW id \in Ids, id \notin exposed PROVE Safe(id)'
    BY <2>1 DEF AllSafe
  <2>3. Safe(id)
    BY <2>2 DEF AllSafe
  <2>4. \A t \in Services :
           Reloading(id, Ends, pc'[t], mem'[t][id], snap'[t], Best(Ends, file, id))
    <3> SUFFICES ASSUME NEW t \in Services
                 PROVE Reloading(id, Ends, pc'[t], mem'[t][id], snap'[t], Best(Ends, file, id))
      OBVIOUS
    <3>1. CASE t = s
      BY <1>1, <2>1, <3>1 DEF Reloading
    <3>2. CASE t # s
      <4>1. pc'[t] = pc[t]
        BY <1>1, <2>1, <3>2
      <4> QED
        BY <2>1, <2>3, <4>1 DEF Safe
    <3> QED
      BY <3>1, <3>2
  <2>5. /\ pc'["owner"] = "up" => pc["owner"] = "up"
        /\ pc'["owner"] # "down" => pc["owner"] # "down"
        /\ counter["owner"] \in Nat
    BY <1>1, <2>1
  <2> QED
    BY <2>1, <2>3, <2>4, <2>5, SafeFrame
<1>4. CASE ReloadRead(s)
  <2>1. /\ pc' = [pc EXCEPT ![s] = "read"] /\ pc[s] = "waited" /\ pc'[s] = "read"
        /\ mem' = [mem EXCEPT ![s] = Empty] /\ snap' = [snap EXCEPT ![s] = file]
        /\ UNCHANGED <<kind, counter, scanned, pend, file, acked, exposed>>
    BY <1>1, <1>4 DEF ReloadRead, Goto, bounds
  <2>2. \A id \in Ids :
           Reloading(id, Ends, pc'[s], mem'[s][id], snap'[s], Best(Ends, file, id))
    BY <1>1, <2>1, EmptyIsTable DEF Reloading
  <2>3. /\ \A t \in Services \ {s} : mem'[t] = mem[t] /\ snap'[t] = snap[t]
        /\ counter["owner"] <= counter'["owner"] /\ counter'["owner"] \in Nat
    BY <1>1, <2>1
  <2> QED
    BY <1>a, <2>1, <2>2, <2>3
<1>5. CASE ReloadStore(s)
  <2>1. /\ pc' = [pc EXCEPT ![s] = "loaded"] /\ pc[s] = "read" /\ pc'[s] = "loaded"
        /\ mem' = [mem EXCEPT ![s] = IF kind = "uprunning_orders"
                                     THEN Loaded(Ends, mem[s], snap[s])
                                     ELSE Loaded(Ends, Empty, snap[s])]
        /\ counter' = [counter EXCEPT ![s] = CounterAfter(counter[s], snap[s])]
        /\ snap' = [snap EXCEPT ![s] = << >>]
        /\ UNCHANGED <<kind, scanned, pend, file, acked, exposed>>
    BY <1>1, <1>5, LoadIntoIsLoaded DEF ReloadStore, Goto, bounds, Merge, Load, Nothing
  <2>2. ASSUME NEW id \in Ids, Safe(id)
        PROVE  Reloading(id, Ends, pc'[s], mem'[s][id], snap'[s], Best(Ends, file, id))
    <3>1. mem[s][id] = None /\ Best(Ends, snap[s], id) = Best(Ends, file, id)
      BY <2>1, <2>2 DEF Safe, Reloading
    <3>2. Loaded(Ends, mem[s], snap[s])[id] = Loaded(Ends, Empty, snap[s])[id]
      <4>1. Empty \in Table /\ mem[s][id] = Empty[id]
        BY <3>1, EmptyIsTable
      <4> QED
        BY <1>1, <4>1, LoadedLocal
    <3>3. mem'[s][id] = Best(Ends, file, id)
      BY <1>1, <2>1, <3>1, <3>2 DEF Best
    <3>4. Held(Best(Ends, file, id)) = Best(Ends, file, id)
      BY <1>1, <1>2, BestHeld
    <3> QED
      BY <2>1, <3>3, <3>4 DEF Reloading
  <2>3. \A t \in Services \ {s} : mem'[t] = mem[t] /\ snap'[t] = snap[t]
    BY <1>1, <2>1
  <2>4. counter["owner"] <= counter'["owner"] /\ counter'["owner"] \in Nat
    <3>1. /\ counter[s] \in 0 .. NumIds /\ CounterAfter(counter[s], snap[s]) \in 0 .. NumIds
          /\ counter[s] <= CounterAfter(counter[s], snap[s])
      BY <1>1, CounterCovers
    <3> QED
      BY <1>1, <2>1, <3>1
  <2> QED
    BY <1>a, <2>1, <2>2, <2>3, <2>4
<1>6. CASE CompactWait(s)
  <2>1. /\ pc' = [pc EXCEPT ![s] = "drained"] /\ pc[s] = "loaded" /\ pc'[s] = "drained"
        /\ UNCHANGED <<kind, mem, counter, snap, scanned, pend, file, acked, exposed>>
    BY <1>1, <1>6 DEF CompactWait, Goto, bounds
  <2>2. ASSUME NEW id \in Ids, Safe(id)
        PROVE  Reloading(id, Ends, pc'[s], mem'[s][id], snap'[s], Best(Ends, file, id))
    BY <2>1, <2>2 DEF Safe, Reloading
  <2>3. /\ \A t \in Services \ {s} : mem'[t] = mem[t] /\ snap'[t] = snap[t]
        /\ counter["owner"] <= counter'["owner"] /\ counter'["owner"] \in Nat
    BY <1>1, <2>1
  <2> QED
    BY <1>a, <2>1, <2>2, <2>3
<1>7. CASE Compact(s)
  <2>1. /\ pc[s] = "drained" /\ file' = Compacted(mem[s]) /\ Gone(s)
        /\ UNCHANGED <<kind, acked, exposed>>
    BY <1>7 DEF Compact
  <2>2. \A id \in Ids \ exposed : Best(Ends, file', id) = Best(Ends, file, id)
    BY <1>7, CompactBest
  <2>3. \A r \in Pending(s) : r.id \in exposed
    BY <2>1 DEF Pending, OwnerState, Stopping
  <2> QED
    BY <2>1, <2>2, <2>3, SafeGone
<1>8. CASE CompactSkipped(s)
  BY <1>8, SafeGone DEF CompactSkipped
<1> QED
  BY <1>3, <1>4, <1>5, <1>6, <1>7, <1>8 DEF Stop

LEMMA SafeStart ==
    ASSUME Typed, Stamped, OwnerState, AllSafe, NEW s \in Services, Start(s)
    PROVE  AllSafe'
<1>1. /\ acked \in Table /\ file \in Seq(Row)
      /\ mem \in [Services -> Table] /\ counter \in [Services -> 0 .. NumIds]
      /\ snap \in [Services -> Seq(Row)]
      /\ pc \in [Services -> {"up", "down"} \cup Stopping]
      /\ "owner" \in Services /\ NumIds \in Nat
  BY Shapes
<1>2. /\ pc' = [pc EXCEPT ![s] = "up"] /\ pc[s] = "down"
      /\ mem' = [mem EXCEPT ![s] = Loaded(Ends, Empty, file)]
      /\ counter' = [counter EXCEPT ![s] = CounterAfter(0, file)]
      /\ UNCHANGED <<kind, snap, scanned, pend, file, acked, exposed>>
  BY LoadIntoIsLoaded DEF Start, Goto, Load, bounds
<1>3. SUFFICES ASSUME NEW id \in Ids, id \notin exposed PROVE Safe(id)'
  BY <1>2 DEF AllSafe
<1>4. Safe(id)
  BY <1>3 DEF AllSafe
<1> DEFINE best == Best(Ends, file, id)
<1>5. Held(best) = best
  BY <1>1, BestHeld DEF Stamped
<1>6. \A t \in Services : Reloading(id, Ends, pc'[t], mem'[t][id], snap'[t], best)
  <2> SUFFICES ASSUME NEW t \in Services
               PROVE Reloading(id, Ends, pc'[t], mem'[t][id], snap'[t], best)
    OBVIOUS
  <2>1. CASE t = s
    BY <1>1, <1>2, <2>1 DEF Reloading
  <2>2. CASE t # s
    <3>1. pc'[t] = pc[t] /\ mem'[t] = mem[t] /\ snap'[t] = snap[t]
      BY <1>1, <1>2, <2>2
    <3> QED
      BY <1>4, <3>1 DEF Safe
  <2> QED
    BY <2>1, <2>2
<1>7. CASE s = "owner"
  <2>1. /\ pend = {} /\ scanned.rows = << >>
        /\ mem'["owner"] = Loaded(Ends, Empty, file)
        /\ counter'["owner"] = CounterAfter(0, file)
    BY <1>1, <1>2, <1>7 DEF OwnerState, Nothing
  <2>2. best = Held(acked[id])
    BY <1>4, <2>1 DEF Safe, Backed
  <2>3. mem'["owner"][id] = best
    BY <2>1 DEF Best
  <2>4. InMemory(id, Ends, mem'["owner"][id], acked[id], scanned.rows)
    <3>1. DOMAIN << >> = {}
      BY EmptySeq
    <3> QED
      BY <1>5, <2>1, <2>2, <2>3, <3>1 DEF InMemory
  <2>5. acked[id] # None => id <= counter'["owner"]
    <3>1. acked[id] # None => best # None
      <4>1. acked[id] \in Row \cup {None}
        BY <1>1 DEF Table
      <4> QED
        BY <2>2, <4>1, OnDiskType DEF Held
    <3>2. \A i \in Ids : Loaded(Ends, Empty, file)[i] # None => i <= CounterAfter(0, file)
      <4>1. 0 \in 0 .. NumIds /\ Empty \in Table /\ \A i \in Ids : Empty[i] # None => i <= 0
        BY <1>1, EmptyIsTable
      <4> QED
        BY <1>1, <4>1, LoadedCovered
    <3> QED
      BY <2>1, <3>1, <3>2 DEF Best
  <2>6. Ends' = Ends
    BY <1>2 DEF Ends
  <2> QED
    BY <1>2, <1>4, <1>6, <2>4, <2>5, <2>6 DEF Safe
<1>8. CASE s # "owner"
  <2>1. pc'["owner"] = pc["owner"] /\ mem'["owner"] = mem["owner"]
        /\ counter'["owner"] = counter["owner"] /\ counter["owner"] \in Nat
    BY <1>1, <1>2, <1>8
  <2> QED
    BY <1>2, <1>4, <1>6, <2>1, SafeFrame
<1> QED
  BY <1>7, <1>8

LEMMA SafeStep ==
    ASSUME Typed, Stamped, OwnerState, AllSafe, Stamped', Next PROVE AllSafe'
<1>0. /\ acked \in Table /\ pend \in SUBSET Row /\ mem["owner"] \in Table
      /\ counter \in [Services -> 0 .. NumIds] /\ counter["owner"] \in Nat
      /\ "owner" \in Services /\ NumIds \in Nat /\ second \in Nat
  BY Shapes
<1>1. CASE Create
  <2>1. counter["owner"] + 1 \in Ids
    BY <1>0, <1>1, Shapes DEF Create, Ids
  <2>2. PICK n \in Ids : n = counter["owner"] + 1
    BY <2>1
  <2>3. /\ pc["owner"] # "down" /\ writes < MaxWrites /\ Write(n, FALSE, FALSE)
        /\ UNCHANGED <<kind, second, pc, snap, scanned, file>>
        /\ counter'["owner"] = n
    BY <1>0, <1>1, <2>2 DEF Create, MayWrite
  <2>4. counter'["owner"] \in Nat /\ counter["owner"] <= counter'["owner"]
        /\ n <= counter'["owner"] /\ ~(n <= counter["owner"])
    BY <1>0, <2>1, <2>2, <2>3 DEF Ids
  <2>5. n \notin exposed => acked[n] = None
    BY <2>3, <2>4 DEF AllSafe, Safe
  <2> QED
    BY <2>3, <2>4, <2>5, SafeWrite
<1>2. ASSUME NEW id \in Ids, Update(id) PROVE AllSafe'
  <2>1. PICK final \in BOOLEAN :
           /\ final => Ends
           /\ Write(id, final, ~final /\ mem["owner"][id].at \div 2 = second)
    BY <1>2 DEF Update
  <2>2. /\ pc["owner"] # "down" /\ writes < MaxWrites
        /\ UNCHANGED <<kind, second, pc, snap, scanned, file, counter>>
        /\ mem["owner"][id] # None /\ ~mem["owner"][id].final
    BY <1>2 DEF Update, MayWrite
  <2>3. counter'["owner"] = counter["owner"] /\ id <= counter["owner"]
    BY <1>0, <2>2 DEF OwnerState
  <2> DEFINE tie == ~final /\ mem["owner"][id].at \div 2 = second
  <2>4. (id \notin exposed /\ pc["owner"] = "up" /\ ~tie /\ acked[id] # None) =>
          \/ 2 * (acked[id].at \div 2) < 2 * second
          \/ Ends /\ final /\ ~acked[id].final
    <3> SUFFICES ASSUME id \notin exposed, pc["owner"] = "up", ~tie, acked[id] # None
                 PROVE  \/ 2 * (acked[id].at \div 2) < 2 * second
                        \/ Ends /\ final /\ ~acked[id].final
      OBVIOUS
    <3> DEFINE m == mem["owner"][id]
               last == acked[id]
    <3>1. m \in Row /\ last \in Row /\ last.at <= Instant
      BY <1>0, <2>2 DEF Table, Stamped
    <3>2. OnDisk(m) = OnDisk(last)
      BY <2>2 DEF AllSafe, Safe, InMemory, Held
    <3>3. m.final = last.final /\ 2 * (m.at \div 2) = 2 * (last.at \div 2)
          /\ m.at \in Nat /\ last.at \in Nat
      BY <3>1, <3>2, OnDiskType DEF Row
    <3>4. ~m.final /\ (final \/ m.at \div 2 # second)
      BY <2>2
    <3> HIDE DEF m, last
    <3>5. m.at \div 2 = last.at \div 2 /\ last.at <= 2 * second + 1
      BY <3>1, <3>3 DEF Instant
    <3>6. last.at \div 2 < second \/ last.at \div 2 = second
      BY <1>0, <3>3, <3>5
    <3>7. last.at \div 2 < second => 2 * (last.at \div 2) < 2 * second
      BY <1>0, <3>3
    <3>8. \/ 2 * (last.at \div 2) < 2 * second
          \/ Ends /\ final /\ ~last.final
      BY <2>1, <3>3, <3>4, <3>5, <3>6, <3>7
    <3> QED
      BY <3>8 DEF last
  <2>5. Write(id, final, tie)
    BY <2>1
  <2> HIDE DEF tie
  <2> QED
    BY <1>0, <2>2, <2>3, <2>4, <2>5, SafeWrite
<1>3. ASSUME NEW row \in pend, AppendRow(row) PROVE AllSafe'
  BY <1>3, SafeAppend
<1>4. ASSUME NEW row \in pend, AppendFails(row) PROVE AllSafe'
  <2>1. /\ pend' = pend \ {row} /\ exposed' = exposed \cup {row.id}
        /\ UNCHANGED <<kind, mem, counter, pc, snap, scanned, file, acked>>
    BY <1>4 DEF AppendFails, stores
  <2>2. SUFFICES ASSUME NEW id \in Ids, id \notin exposed' PROVE Safe(id)'
    BY DEF AllSafe
  <2>3. Safe(id) /\ row.id # id
    BY <2>1, <2>2 DEF AllSafe
  <2>4. acked[id] # row
    BY <1>0, <2>3, NoneIsNoRow DEF Stamped
  <2>5. /\ \A r \in pend' : r.id = id => r \in pend
        /\ acked[id] \in pend <=> acked[id] \in pend'
    BY <2>1, <2>4
  <2>6. \A s \in Services :
           Reloading(id, Ends, pc'[s], mem'[s][id], snap'[s], Best(Ends, file, id))
    BY <2>1, <2>3 DEF Safe
  <2> QED
    BY <1>0, <2>1, <2>3, <2>5, <2>6, SafeFrame
<1>5. CASE Tick
  <2>1. UNCHANGED <<kind, mem, counter, pc, snap, scanned, pend, file, acked, exposed>>
    BY <1>5 DEF Tick, stores
  <2>2. Ends' = Ends
    BY <2>1 DEF Ends
  <2> QED
    BY <2>1, <2>2 DEF AllSafe, Safe
<1>6. CASE ScanRead
  BY <1>6, SafeScanRead
<1>7. CASE ScanMerge
  BY <1>7, SafeScanMerge
<1>8. ASSUME NEW s \in Services, Stop(s) PROVE AllSafe'
  BY <1>8, SafeStop
<1>9. ASSUME NEW s \in Services, Crash(s) PROVE AllSafe'
  BY <1>9, SafeGone DEF Crash
<1>10. ASSUME NEW s \in Services, Start(s) PROVE AllSafe'
  BY <1>10, SafeStart
<1> QED
  BY <1>1, <1>2, <1>3, <1>4, <1>5, <1>6, <1>7, <1>8, <1>9, <1>10 DEF Next

-----------------------------------------------------------------------------
(* The properties.                                                         *)

LEMMA InvInit == Init => IInv
<1> SUFFICES ASSUME Init PROVE IInv
  OBVIOUS
<1>1. /\ acked = Empty /\ pend = {} /\ file = << >> /\ scanned.rows = << >>
      /\ pc["owner"] = "up" /\ pc["other"] = "up"
      /\ \A s \in Services : snap[s] = << >> /\ mem[s] = Empty /\ pc[s] = "up"
      /\ mem["owner"] = Empty
  BY EmptyIsTable DEF Init, Nothing, Services
  \* The initial tables are empty, whoever holds them.
<1>2. FromFile(<< >>, acked) /\ TableKnown(Empty, acked) /\ DOMAIN << >> = {}
  BY KnownNothing, EmptySeq
<1>3. \A id \in Ids : Empty[id] = None
  BY EmptyIsTable
<1>4. Stamped
  BY <1>1, <1>2, <1>3 DEF Stamped
<1>5. OwnerState
  BY <1>1, <1>3 DEF OwnerState, Stopping
<1>6. ASSUME NEW id \in Ids PROVE Safe(id)
  <2>1. Best(Ends, file, id) = None
    BY <1>1, <1>3, EmptyIsTable, LoadedNothing DEF Best
  <2>2. Backed(id, Ends, acked[id], pend, Best(Ends, file, id))
    BY <1>1, <1>3, <2>1 DEF Backed, Held
  <2>3. InMemory(id, Ends, mem["owner"][id], acked[id], scanned.rows)
    BY <1>1, <1>2 DEF InMemory
  <2>4. \A s \in Services :
           Reloading(id, Ends, pc[s], mem[s][id], snap[s], Best(Ends, file, id))
    BY <1>1 DEF Reloading
  <2>5. acked[id] = None
    BY <1>1, <1>3
  <2> QED
    BY <2>2, <2>3, <2>4, <2>5 DEF Safe
<1>7. Typed
  BY TypedInit
<1> QED
  BY <1>4, <1>5, <1>6, <1>7 DEF IInv, AllSafe

LEMMA InvStep == IInv /\ [Next]_vars => IInv'
<1>1. ASSUME IInv, Next PROVE IInv'
  <2>1. Typed /\ Stamped /\ OwnerState /\ AllSafe
    BY <1>1 DEF IInv
  <2>2. Typed' /\ Stamped' /\ OwnerState'
    BY <1>1, <2>1, TypeStep, StampedStep, OwnerStep
  <2>3. AllSafe'
    BY <1>1, <2>1, <2>2, SafeStep
  <2> QED
    BY <2>2, <2>3 DEF IInv
<1>2. ASSUME IInv, UNCHANGED vars PROVE IInv'
  <2>1. Typed'
    BY <1>2, TypedStutters DEF IInv
  <2>2. Stamped' /\ OwnerState'
    BY <1>2 DEF IInv, Stamped, OwnerState, vars, Instant
  <2>3. AllSafe'
    <3>1. Ends' = Ends
      BY <1>2 DEF Ends, vars
    <3> QED
      BY <1>2, <3>1 DEF IInv, AllSafe, Safe, vars
  <2> QED
    BY <2>1, <2>2, <2>3 DEF IInv
<1> QED
  BY <1>1, <1>2

LEMMA InvHolds == Spec => []IInv
BY InvInit, InvStep, PTL DEF Spec

LEMMA DurableIsBest == Durable = [id \in Ids |-> Best(Ends, file, id).stamp]
BY LoadIntoIsLoaded DEF Durable, Load, Best

\* Persistence.AckedIsDurable for any number of rows, writes, seconds, kills
\* and failed appends: once no append of a row is in flight, a restart of
\* either service reads the last state written, unless the write is exposed
\* (global_state.go:207, 294, 1928).
THEOREM WritesAreDurable == Spec => []AckedIsDurable
<1>1. IInv => AckedIsDurable
  <2> SUFFICES ASSUME IInv, NEW id \in Ids \ exposed, \A row \in pend : row.id # id
               PROVE  Durable[id] = acked[id].stamp
    BY DEF AckedIsDurable
  <2>1. Typed /\ Stamped /\ Safe(id)
    BY DEF IInv, AllSafe
  <2>2. acked[id] \in Row \cup {None} /\ pend \in SUBSET Row
    BY <2>1, Shapes DEF Table
  <2>3. acked[id] \notin pend
    BY <2>1, <2>2, NoneIsNoRow DEF Stamped
  <2>4. Best(Ends, file, id) = Held(acked[id])
    BY <2>1, <2>3 DEF Safe, Backed
  <2>5. Best(Ends, file, id).stamp = acked[id].stamp
    BY <2>2, <2>4, OnDiskType DEF Held
  <2> QED
    BY <2>5, DurableIsBest
<1> QED
  BY InvHolds, <1>1, PTL

\* The writes, seen from the owner's memory: each one has a new stamp.
LEMMA WriteNewer ==
    ASSUME Typed, Stamped, NEW w \in Ids, NEW final \in BOOLEAN, NEW tie,
           Write(w, final, tie)
    PROVE  \A id \in Ids : mem'["owner"][id].stamp >= mem["owner"][id].stamp
<1>1. /\ acked \in Table /\ mem \in [Services -> Table] /\ mem["owner"] \in Table
      /\ "owner" \in Services /\ writes \in Nat
  BY Shapes
<1> DEFINE row == [id |-> w, stamp |-> writes + 1, final |-> final, at |-> Instant]
<1>2. mem' = [mem EXCEPT !["owner"][w] = row] /\ row.stamp = writes + 1
  BY DEF Write
<1> HIDE DEF row
<1>3. ASSUME NEW id \in Ids
      PROVE  mem["owner"][id].stamp \in Nat /\ mem["owner"][id].stamp <= writes
  <2>1. CASE mem["owner"][id] = None
    BY <1>1, <2>1 DEF None
  <2>2. CASE mem["owner"][id] # None
    <3> DEFINE m == mem["owner"][id]
    <3>1. m \in Row /\ m.id = id /\ Known(m, acked)
      BY <1>1, <2>2 DEF Table, Stamped
    <3>2. acked[id] \in Row /\ m.stamp <= acked[id].stamp
      <4> HIDE DEF m
      <4> QED
        BY <1>1, <3>1, StampBound
    <3>3. acked[id].stamp <= writes
      BY <3>2, NoneIsNoRow DEF Stamped
    <3> QED
      BY <1>1, <3>1, <3>2, <3>3 DEF Row
  <2> QED
    BY <2>1, <2>2
<1> QED
  BY <1>1, <1>2, <1>3 DEF Table

\* Persistence.ReloadKeepsNewer: the scanner's reload, whatever it has read
\* and however long ago, never takes an order in the owner's memory back to
\* an earlier state (global_state.go:302).
THEOREM ReloadsKeepNewer == Spec => ReloadKeepsNewer
<1>1. ASSUME IInv, [Next]_vars
      PROVE  pc["owner"] = "up" /\ pc' = pc
               => \A id \in Ids \ exposed :
                    mem'["owner"][id].stamp >= mem["owner"][id].stamp
  <2> SUFFICES ASSUME pc["owner"] = "up", pc' = pc
               PROVE  \A id \in Ids \ exposed :
                        mem'["owner"][id].stamp >= mem["owner"][id].stamp
    OBVIOUS
  <2>1. Typed /\ Stamped /\ OwnerState /\ AllSafe
    BY <1>1 DEF IInv
  <2>2. /\ mem \in [Services -> Table] /\ mem["owner"] \in Table
        /\ scanned.rows \in Seq(Row) /\ "owner" \in Services
        /\ pc \in [Services -> {"up", "down"} \cup Stopping]
        /\ counter["owner"] \in 0 .. NumIds /\ NumIds \in Nat
    BY <2>1, Shapes
  <2>3. \A id \in Ids : mem["owner"][id].stamp \in Nat
    BY <2>2 DEF Table, Row, None
  <2>4. mem'["owner"] = mem["owner"] => \A id \in Ids \ exposed :
           mem'["owner"][id].stamp >= mem["owner"][id].stamp
    BY <2>3
  <2>5. CASE Create
    <3>1. PICK n \in Ids : n = counter["owner"] + 1
      BY <2>2, <2>5 DEF Create, Ids
    <3>2. Write(n, FALSE, FALSE)
      BY <2>5, <3>1 DEF Create
    <3> QED
      BY <2>1, <3>2, WriteNewer
  <2>6. ASSUME NEW w \in Ids, Update(w)
        PROVE  \A id \in Ids \ exposed :
                 mem'["owner"][id].stamp >= mem["owner"][id].stamp
    <3>1. PICK final \in BOOLEAN :
             Write(w, final, ~final /\ mem["owner"][w].at \div 2 = second)
      BY <2>6 DEF Update
    <3> QED
      BY <2>1, <3>1, WriteNewer
  <2>7. CASE ScanMerge
    <3>1. mem' = [mem EXCEPT !["owner"] = Loaded(Ends, mem["owner"], scanned.rows)]
      BY <2>7, LoadIntoIsLoaded DEF ScanMerge, Merge
    <3>2. ASSUME NEW id \in Ids \ exposed
          PROVE  Loaded(Ends, mem["owner"], scanned.rows)[id] = mem["owner"][id]
      <4>1. \A i \in DOMAIN scanned.rows : scanned.rows[i].id = id =>
               ~Replaces(Ends, scanned.rows[i], mem["owner"][id])
        BY <2>1 DEF AllSafe, Safe, InMemory
      <4> QED
        BY <2>2, <4>1, LoadedKeeps
    <3> QED
      BY <2>2, <2>3, <3>1, <3>2
  <2>8. ASSUME NEW row \in pend, AppendRow(row) \/ AppendFails(row)
        PROVE  mem'["owner"] = mem["owner"]
    BY <2>8 DEF AppendRow, AppendFails, stores
  <2>9. CASE Tick \/ ScanRead
    BY <2>4, <2>9 DEF Tick, ScanRead, stores
  <2>10. ASSUME NEW s \in Services, Stop(s) \/ Crash(s) \/ Start(s) PROVE FALSE
    BY <2>2, <2>10 DEF Stop, StopWait, ReloadRead, ReloadStore, CompactWait, Compact,
          CompactSkipped, Crash, Start, Gone, Goto
  <2>11. CASE UNCHANGED vars
    BY <2>4, <2>11 DEF vars
  <2> QED
    BY <1>1, <2>4, <2>5, <2>6, <2>7, <2>8, <2>9, <2>10, <2>11 DEF Next
<1>2. IInv /\ [Next]_vars =>
         [pc["owner"] = "up" /\ pc' = pc
            => \A id \in Ids \ exposed :
                 mem'["owner"][id].stamp >= mem["owner"][id].stamp]_vars
  BY <1>1
<1> QED
  BY InvHolds, <1>2, PTL DEF Spec, ReloadKeepsNewer

\* Persistence.IdsAreFresh: a row gets an id that no row had before, across
\* restarts and compactions, unless the row that had it may have been lost
\* (global_state.go:443, 451).
THEOREM NewIdsAreFresh == Spec => IdsAreFresh
<1>1. ASSUME IInv, [Next]_vars, NEW id \in Ids, counter["owner"] = id - 1,
             counter'["owner"] = id, writes' > writes
      PROVE  acked[id] = None \/ id \in exposed
  <2>1. Typed /\ AllSafe
    BY <1>1 DEF IInv
  <2>2. writes \in Nat /\ NumIds \in Nat /\ counter["owner"] \in Nat
    BY <2>1, Shapes
  <2>3. writes' # writes
    BY <1>1, <2>2
  <2>4. Create \/ \E w \in Ids : Update(w)
    BY <1>1, <2>3 DEF Next, AppendRow, AppendFails, Tick, ScanRead, ScanMerge, Stop,
          StopWait, ReloadRead, ReloadStore, CompactWait, Compact, CompactSkipped,
          Crash, Start, bounds, vars
  <2>5. pc["owner"] # "down"
    BY <2>4 DEF Create, Update, MayWrite
  <2>6. ~(id <= counter["owner"])
    BY <1>1 DEF Ids
  <2> QED
    BY <2>1, <2>5, <2>6 DEF AllSafe, Safe
<1>2. IInv /\ [Next]_vars =>
         [\A id \in Ids :
            /\ counter["owner"] = id - 1 /\ counter'["owner"] = id
            /\ writes' > writes
            => acked[id] = None \/ id \in exposed]_vars
  BY <1>1
<1> QED
  BY InvHolds, <1>2, PTL DEF Spec, IdsAreFresh

\* Persistence implements DurableTable: what a restart would read of a row
\* that is not exposed is never an older state than before, through appends
\* in any order, reloads, compactions by either service, kills and restarts.
THEOREM PersistenceImplementsDurableTable == Spec => DiskKeepsRows
<1>1. Init => Disk!Init
  <2> SUFFICES ASSUME Init PROVE Disk!Init
    OBVIOUS
  <2>1. file = << >> /\ exposed = {}
    BY DEF Init, Nothing
  <2>2. \A id \in Ids : Best(Ends, file, id).stamp = 0
    BY <2>1, EmptyIsTable, LoadedNothing DEF Best, None
  <2> QED
    BY <2>1, <2>2, DurableIsBest DEF Disk!Init
<1>2. ASSUME IInv, IInv', [Next]_vars
      PROVE  /\ \A id \in Ids : /\ Best(Ends, file, id).stamp \in Nat
                                /\ Best(Ends, file', id).stamp \in Nat
             /\ exposed' \subseteq Ids
             /\ \A id \in Ids \ exposed :
                  Best(Ends, file', id).stamp >= Best(Ends, file, id).stamp
             /\ Ends' = Ends
  <2>1. Typed /\ Stamped /\ AllSafe /\ acked \in Table /\ file \in Seq(Row)
        /\ pend \in SUBSET Row
    BY <1>2, Shapes DEF IInv
  <2>2. file' \in Seq(Row) /\ exposed' \subseteq Ids
    BY <1>2 DEF IInv, Typed, TypeOK
  <2>3. \A rows \in Seq(Row), id \in Ids : Best(Ends, rows, id).stamp \in Nat
    <3> SUFFICES ASSUME NEW rows \in Seq(Row), NEW id \in Ids
                 PROVE  Best(Ends, rows, id).stamp \in Nat
      OBVIOUS
    <3>1. Loaded(Ends, Empty, rows) \in Table
      BY EmptyIsTable, LoadedType
    <3>2. Best(Ends, rows, id) \in Row \cup {None}
      BY <3>1 DEF Best, Table
    <3> QED
      BY <3>2 DEF Row, None
  <2>4. ASSUME NEW id \in Ids \ exposed
        PROVE  Best(Ends, file', id).stamp >= Best(Ends, file, id).stamp
    <3>1. CASE file' = file
      BY <2>1, <2>3, <3>1
    <3>2. ASSUME NEW row \in pend, AppendRow(row)
          PROVE  Best(Ends, file', id).stamp >= Best(Ends, file, id).stamp
      <4>1. Best(Ends, file', id) =
              IF row.id = id /\ Replaces(Ends, OnDisk(row), Best(Ends, file, id))
              THEN OnDisk(row) ELSE Best(Ends, file, id)
        BY <2>1, <3>2, BestAppend DEF AppendRow
      <4>2. row.id = id => InOrder(Ends, Best(Ends, file, id), OnDisk(row))
        BY <2>1 DEF AllSafe, Safe, Backed
      <4>3. Best(Ends, file', id).stamp \in Nat /\ Best(Ends, file, id).stamp \in Nat
        BY <2>1, <2>2, <2>3
      <4> QED
        BY <4>1, <4>2, <4>3 DEF InOrder
    <3>3. ASSUME NEW s \in Services, Compact(s)
          PROVE  Best(Ends, file', id).stamp >= Best(Ends, file, id).stamp
      <4>1. Best(Ends, file', id) = Best(Ends, file, id)
        BY <2>1, <3>3, CompactBest
      <4> QED
        BY <2>1, <2>3, <4>1
    <3>4. \/ file' = file
          \/ \E row \in pend : AppendRow(row)
          \/ \E s \in Services : Compact(s)
      BY <1>2 DEF Next, Create, Update, Write, AppendFails, Tick, ScanRead, ScanMerge, Stop,
            StopWait, ReloadRead, ReloadStore, CompactWait, CompactSkipped,
            Crash, Start, bounds, vars
    <3> QED
      BY <3>1, <3>2, <3>3, <3>4
  <2>5. kind' = kind
    BY <1>2 DEF Next, Create, Update, Write, AppendRow, AppendFails, Tick, ScanRead, ScanMerge,
          Stop, StopWait, ReloadRead, ReloadStore, CompactWait, Compact, CompactSkipped,
          Crash, Start, bounds, vars
  <2> QED
    BY <2>1, <2>2, <2>3, <2>4, <2>5 DEF Ends
<1>3. (Durable = [id \in Ids |-> Best(Ends, file, id).stamp])'
  BY DurableIsBest, PTL
<1>4. IInv /\ IInv' /\ [Next]_vars => [Disk!Next]_(Disk!vars)
  <2> SUFFICES ASSUME IInv, IInv', [Next]_vars PROVE Disk!Next
    OBVIOUS
  <2>1. Durable = [id \in Ids |-> Best(Ends, file, id).stamp]
    BY DurableIsBest
  <2>2. Durable' = [id \in Ids |-> Best(Ends, file', id).stamp]
    BY <1>2, <1>3
  <2>3. /\ Durable' \in [Ids -> Nat]
        /\ \A id \in Ids \ exposed : Durable'[id] >= Durable[id]
        /\ exposed' \subseteq Ids
    BY <1>2, <2>1, <2>2
  <2> QED
    BY <2>3 DEF Disk!Next
<1> QED
  BY InvHolds, <1>1, <1>4, PTL DEF Spec, DiskKeepsRows, Disk!Spec
=============================================================================
