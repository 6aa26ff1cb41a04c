--------------------------- MODULE Session_proofs ---------------------------
(***************************************************************************)
(* Theorems about the session and the catalogs, for any databases, tables  *)
(* and attributes and any statements.  IInv is the inductive invariant:    *)
(* for the catalogs, that the free slots of attrcat are those its list     *)
(* names, and for each table what its rows, its row in relcat and its      *)
(* files say of each other; also that a table which is not there, and was  *)
(* never left half made or half dropped, has no rows.  Every statement     *)
(* touches one table, and the loops of SM_Manager go through its rows.     *)
(* What a statement may come to is a catalog Close to the one it began     *)
(* with; where it ends half way the history says so of the table.          *)
(***************************************************************************)
EXTENDS Session, Lists_proofs

FreeSlots(c) == {i \in DOMAIN c.rows : c.rows[i] = NoRow}

RelRows == [attrCount : Nat, indexCount : Int]

WellFormed(c) ==
    /\ c = [rel |-> c.rel, rows |-> c.rows, free |-> c.free, files |-> c.files,
            botched |-> c.botched, scrambled |-> c.scrambled, torn |-> c.torn]
    /\ c.rows \in Seq(Rows \cup {NoRow})
    /\ c.free \in Seq(Nat) /\ IsInjective(c.free) /\ Range(c.free) = FreeSlots(c)
    /\ DOMAIN c.rel \subseteq Tables /\ c.rel = [t \in DOMAIN c.rel |-> c.rel[t]]
    /\ \A t \in DOMAIN c.rel : c.rel[t] \in RelRows

Whole(c, t) ==
    /\ Cardinality(RowsOf(c, t)) = c.rel[t].attrCount
    /\ \A i, j \in RowsOf(c, t) : c.rows[i].attrName = c.rows[j].attrName => i = j

Numbered(c, t) ==
    /\ c.rel[t].indexCount \in Nat
    /\ \A i, j \in Indexed(c, t) : c.rows[i].indexNo = c.rows[j].indexNo => i = j
    /\ IndexNosOf(c, t) = 0 .. c.rel[t].indexCount - 1

TableInv(c, t) ==
    t \notin c.botched =>
        /\ t \notin DOMAIN c.rel => RowsOf(c, t) = {}
        /\ t \in DOMAIN c.rel =>
            /\ Whole(c, t)
            /\ t \notin c.torn => Numbered(c, t)
            /\ t \notin c.torn /\ t \notin c.scrambled => OwnIndexFiles(c, t)

CatalogInv(c) == WellFormed(c) /\ \A t \in Tables : TableInv(c, t)

DirectoryInv(d) ==
    /\ d = Directory(d.state, d.cat, d.nested)
    /\ d.state \in {"sound", "doubled", "bare"} /\ d.nested \subseteq Names
    /\ CatalogInv(d.cat) /\ Len(d.cat.rows) <= MaxRows

DirectoriesInv(D) ==
    /\ DOMAIN D \subseteq Names /\ D = [d \in DOMAIN D |-> D[d]]
    /\ \A d \in DOMAIN D : DirectoryInv(D[d])

InUseInv ==
    /\ {running, db_opened} \subseteq BOOLEAN
    /\ {current_db, opened} \subseteq Names \cup {NoName}
    /\ db_opened = (current_db # NoName)
    /\ OpenedIsCurrent

IInv == DirectoriesInv(dirs) /\ InUseInv

----------------------------------------------------------------------------
(* A row goes to a slot that held none.                                    *)
LEMMA InsertRowAt ==
    ASSUME NEW c, WellFormed(c), NEW row \in Rows
    PROVE  LET d == InsertRow(c, row) IN
           /\ WellFormed(d)
           /\ d.rel = c.rel /\ d.files = c.files
           /\ d.botched = c.botched /\ d.scrambled = c.scrambled /\ d.torn = c.torn
           /\ \E p \in Nat :
                /\ p \in DOMAIN c.rows => c.rows[p] = NoRow
                /\ DOMAIN d.rows = DOMAIN c.rows \cup {p} /\ d.rows[p] = row
                /\ \A i \in DOMAIN c.rows : i # p => d.rows[i] = c.rows[i]
<1> DEFINE d == InsertRow(c, row)
           X == Rows \cup {NoRow}
           n == Len(c.rows)
<1>1. /\ c.rows \in Seq(X) /\ n \in Nat /\ DOMAIN c.rows = 1 .. n
      /\ c.free \in Seq(Nat) /\ IsInjective(c.free) /\ Range(c.free) = FreeSlots(c)
  BY DEF WellFormed
<1>2. row \in X /\ row # NoRow
  BY RowsAssumption
<1>3. CASE c.free = <<>>
  <2>1. d = [rel |-> c.rel, rows |-> Append(c.rows, row), free |-> c.free, files |-> c.files,
             botched |-> c.botched, scrambled |-> c.scrambled, torn |-> c.torn]
    BY <1>3 DEF InsertRow, WellFormed
  <2>2. /\ d.rel = c.rel /\ d.rows = Append(c.rows, row) /\ d.free = c.free
        /\ d.files = c.files /\ d.botched = c.botched
        /\ d.scrambled = c.scrambled /\ d.torn = c.torn
    BY <2>1
  <2> HIDE DEF d, X
  <2>3. /\ d.rows \in Seq(X) /\ DOMAIN d.rows = 1 .. n + 1 /\ d.rows[n + 1] = row
        /\ \A i \in 1 .. n : d.rows[i] = c.rows[i]
    BY <2>2, <1>1, <1>2
  <2>4. n + 1 \in Nat /\ n + 1 \notin DOMAIN c.rows
        /\ DOMAIN d.rows = DOMAIN c.rows \cup {n + 1}
    BY <2>3, <1>1
  <2>5. FreeSlots(d) = FreeSlots(c)
    BY <2>3, <2>4, <1>1, <1>2 DEF FreeSlots
  <2>6. WellFormed(d)
    BY <2>1, <2>2, <2>3, <2>5, <1>1 DEF WellFormed, X
  <2> QED BY <2>2, <2>3, <2>4, <2>6, <1>1 DEF d
<1>4. CASE c.free # <<>>
  <2> DEFINE p == Head(c.free)
             q == Tail(c.free)
  <2>1. d = [rel |-> c.rel, rows |-> [c.rows EXCEPT ![p] = row], free |-> q,
             files |-> c.files, botched |-> c.botched, scrambled |-> c.scrambled,
             torn |-> c.torn]
    BY <1>4 DEF InsertRow, WellFormed
  <2>2. /\ d.rel = c.rel /\ d.rows = [c.rows EXCEPT ![p] = row] /\ d.free = q
        /\ d.files = c.files /\ d.botched = c.botched
        /\ d.scrambled = c.scrambled /\ d.torn = c.torn
    BY <2>1
  <2> DEFINE f == c.free
             m == Len(f)
  <2>3. /\ p = f[1] /\ m \in Nat /\ m >= 1 /\ DOMAIN f = 1 .. m
        /\ q \in Seq(Nat) /\ Len(q) = m - 1 /\ DOMAIN q = 1 .. m - 1
        /\ \A i \in 1 .. m - 1 : q[i] = f[i + 1]
    BY <1>1, <1>4
  <2>4. \A i, j \in 1 .. m : f[i] = f[j] => i = j
    BY <2>3, <1>1 DEF IsInjective
  <2>5. Range(f) = {f[i] : i \in 1 .. m} /\ Range(q) = {q[i] : i \in 1 .. m - 1}
    BY <2>3 DEF Range
  <2>6. p \in FreeSlots(c) /\ p \in Nat
    BY <2>3, <1>1 DEF Range
  <2> HIDE DEF f, m, q
  <2>7. IsInjective(q)
    <3>1. ASSUME NEW i \in 1 .. m - 1, NEW j \in 1 .. m - 1, q[i] = q[j] PROVE i = j
      <4>1. i + 1 \in 1 .. m /\ j + 1 \in 1 .. m /\ f[i + 1] = f[j + 1]
        BY <2>3, <3>1
      <4>2. i + 1 = j + 1  BY <4>1, <2>4
      <4> QED BY <4>2, <2>3
    <3> QED BY <3>1, <2>3 DEF IsInjective
  <2>8. Range(q) = Range(c.free) \ {p}
    <3>1. ASSUME NEW i \in 1 .. m - 1 PROVE q[i] \in Range(f) \ {p}
      <4>1. i + 1 \in 1 .. m /\ 1 \in 1 .. m /\ i + 1 # 1 /\ q[i] = f[i + 1]  BY <2>3
      <4> QED BY <4>1, <2>3, <2>4, <2>5
    <3>2. ASSUME NEW i \in 1 .. m, f[i] # p PROVE f[i] \in Range(q)
      <4>1. i # 1  BY <3>2, <2>3
      <4>2. i - 1 \in 1 .. m - 1 /\ (i - 1) + 1 = i  BY <4>1, <2>3
      <4>3. q[i - 1] = f[i]  BY <4>2, <2>3
      <4> QED BY <4>2, <4>3, <2>5
    <3>3. Range(q) = Range(f) \ {p}  BY <3>1, <3>2, <2>5
    <3> QED BY <3>3 DEF f
  <2> HIDE DEF d, X, p, q
  <2>9. /\ d.rows \in Seq(X) /\ DOMAIN d.rows = DOMAIN c.rows /\ d.rows[p] = row
        /\ \A i \in DOMAIN c.rows : i # p => d.rows[i] = c.rows[i]
    BY <2>2, <2>6, <1>1, <1>2 DEF FreeSlots
  <2>10. FreeSlots(d) = FreeSlots(c) \ {p}
    BY <2>9, <2>6, <1>2 DEF FreeSlots
  <2>11. WellFormed(d)
    BY <2>1, <2>2, <2>3, <2>7, <2>8, <2>9, <2>10, <1>1 DEF WellFormed, X
  <2>12. c.rows[p] = NoRow /\ DOMAIN d.rows = DOMAIN c.rows \cup {p}
    BY <2>6, <2>9 DEF FreeSlots
  <2> QED BY <2>2, <2>6, <2>9, <2>11, <2>12 DEF d
<1> QED BY <1>3, <1>4

(* A row is taken out of its slot.                                         *)
LEMMA DeleteRowAt ==
    ASSUME NEW c, WellFormed(c), NEW p \in DOMAIN c.rows, c.rows[p] # NoRow
    PROVE  LET d == DeleteRow(c, p) IN
           /\ WellFormed(d)
           /\ d.rel = c.rel /\ d.files = c.files
           /\ d.botched = c.botched /\ d.scrambled = c.scrambled /\ d.torn = c.torn
           /\ DOMAIN d.rows = DOMAIN c.rows /\ d.rows[p] = NoRow
           /\ \A i \in DOMAIN c.rows : i # p => d.rows[i] = c.rows[i]
<1> DEFINE d == DeleteRow(c, p)
           X == Rows \cup {NoRow}
           q == <<p>> \o c.free
<1>1. /\ c.rows \in Seq(X) /\ DOMAIN c.rows \subseteq Nat
      /\ c.free \in Seq(Nat) /\ IsInjective(c.free) /\ Range(c.free) = FreeSlots(c)
  BY DEF WellFormed
<1>2. d = [rel |-> c.rel, rows |-> [c.rows EXCEPT ![p] = NoRow], free |-> q,
           files |-> c.files, botched |-> c.botched, scrambled |-> c.scrambled, torn |-> c.torn]
  <2>1. d = [c EXCEPT !.rows[p] = NoRow, !.free = q]
    BY DEF DeleteRow
  <2> HIDE DEF d, q
  <2> QED BY <2>1 DEF WellFormed
<1>3. /\ d.rel = c.rel /\ d.rows = [c.rows EXCEPT ![p] = NoRow] /\ d.free = q
      /\ d.files = c.files /\ d.botched = c.botched /\ d.scrambled = c.scrambled /\ d.torn = c.torn
  BY <1>2
<1>4. q \in Seq(Nat) /\ IsInjective(q) /\ Range(q) = {p} \cup Range(c.free)
  <2> DEFINE h == <<p>>
             f == c.free
  <2>1. h \in Seq(Nat) /\ IsInjective(h) /\ Range(h) = {p}
    BY <1>1 DEF IsInjective, Range
  <2>2. f \in Seq(Nat) /\ IsInjective(f) /\ Range(h) \cap Range(f) = {}
    BY <2>1, <1>1 DEF FreeSlots
  <2>3. q = h \o f /\ f = c.free  OBVIOUS
  <2> HIDE DEF h, f, q
  <2>4. /\ h \o f \in Seq(Nat) /\ IsInjective(h \o f)
        /\ Range(h \o f) = Range(h) \cup Range(f)
    BY <2>1, <2>2, JoinProperties
  <2> QED BY <2>1, <2>3, <2>4
<1> HIDE DEF d, X, q
<1>5. /\ d.rows \in Seq(X) /\ DOMAIN d.rows = DOMAIN c.rows /\ d.rows[p] = NoRow
      /\ \A i \in DOMAIN c.rows : i # p => d.rows[i] = c.rows[i]
  BY <1>3, <1>1 DEF X
<1>6. FreeSlots(d) = FreeSlots(c) \cup {p}
  BY <1>5 DEF FreeSlots
<1>7. WellFormed(d)
  <2>1. d = [rel |-> d.rel, rows |-> d.rows, free |-> d.free, files |-> d.files,
             botched |-> d.botched, scrambled |-> d.scrambled, torn |-> d.torn]
    BY <1>2, <1>3
  <2>2. d.free \in Seq(Nat) /\ IsInjective(d.free) /\ Range(d.free) = FreeSlots(d)
    BY <1>1, <1>3, <1>4, <1>6
  <2>3. /\ DOMAIN d.rel \subseteq Tables /\ d.rel = [t \in DOMAIN d.rel |-> d.rel[t]]
        /\ \A t \in DOMAIN d.rel : d.rel[t] \in RelRows
    BY <1>3 DEF WellFormed
  <2> QED BY <1>5, <2>1, <2>2, <2>3 DEF WellFormed, X
<1> QED BY <1>3, <1>5, <1>7 DEF d

(* What happens to one table leaves the rows of the others alone.          *)
SameRows(c, d, t) ==
    \A u : u # t =>
        /\ RowsOf(d, u) = RowsOf(c, u)
        /\ \A i \in RowsOf(c, u) : d.rows[i] = c.rows[i]

LEMMA RowsFinite ==
    ASSUME NEW c, WellFormed(c), NEW t
    PROVE  /\ IsFiniteSet(RowsOf(c, t)) /\ Cardinality(RowsOf(c, t)) \in Nat
           /\ \A i \in RowsOf(c, t) : c.rows[i] \in Rows /\ i \in DOMAIN c.rows /\ i \in Nat \ {0}
<1>1. Len(c.rows) \in Nat /\ DOMAIN c.rows = 1 .. Len(c.rows)
      /\ \A i \in DOMAIN c.rows : c.rows[i] \in Rows \cup {NoRow}
  BY DEF WellFormed
<1>2. IsFiniteSet(1 .. Len(c.rows))
  BY <1>1, FS_Interval
<1>3. IsFiniteSet(RowsOf(c, t))
  BY <1>1, <1>2, FS_Subset DEF RowsOf
<1> QED BY <1>1, <1>3, FS_CardinalityType DEF RowsOf

(* The attributes a table is created with, as mk_attr_infos returns them.  *)
Infos == [attrName : Attrs, pk : BOOLEAN]

LEMMA NewRowIs ==
    ASSUME NEW t \in Tables, NEW attrs \in Seq(Infos), NEW n \in DOMAIN attrs
    PROVE  /\ NewRow(t, attrs, n) \in Rows
           /\ NewRow(t, attrs, n).relName = t
           /\ NewRow(t, attrs, n).attrName = attrs[n].attrName
           /\ NewRow(t, attrs, n).offset = n
           /\ NewRow(t, attrs, n).indexNo = IF attrs[n].pk THEN 0 ELSE -1
<1>1. n \in Nat /\ attrs[n] \in Infos
  OBVIOUS
<1>2. attrs[n].attrName \in Attrs /\ attrs[n].pk \in BOOLEAN
  BY <1>1 DEF Infos
<1> QED BY <1>1, <1>2 DEF NewRow, Rows

(* The loop is as many turns as there are attributes.                      *)
LEMMA InsertRowsIs ==
    ASSUME NEW c, NEW t, NEW attrs, Len(attrs) \in Nat
    PROVE  LET g == InsertRows(c, t, attrs) IN
           /\ g[0] = c
           /\ \A n \in 1 .. Len(attrs) : g[n] = InsertRow(g[n - 1], NewRow(t, attrs, n))
<1> DEFINE On(x, n) == InsertRow(x, NewRow(t, attrs, n))
           Is(f, N) == f = [n \in 0 .. N |-> IF n = 0 THEN c ELSE On(f[n - 1], n)]
           T == {N \in Nat : ~ \E f : Is(f, N)}
           M == Len(attrs)
<1>1. InsertRows(c, t, attrs) = CHOOSE f : Is(f, M)
  BY DEF InsertRows
<1> HIDE DEF On, M
<1>2. T = {}
  <2> SUFFICES ASSUME T # {} PROVE FALSE  OBVIOUS
  <2>1. PICK N \in T : \A k \in T : N <= k
    <3>1. T \in SUBSET Nat  OBVIOUS
    <3> HIDE DEF T
    <3> QED BY <3>1, LeastNat
  <2>2. N # 0
    <3>1. Is([n \in 0 .. 0 |-> c], 0)  OBVIOUS
    <3> QED BY <3>1
  <2>3. N \in Nat /\ N - 1 \in Nat
    BY <2>1, <2>2
  <2>4. N - 1 \notin T
    <3> HIDE DEF T
    <3> QED BY <2>1, <2>3
  <2>5. PICK f : Is(f, N - 1)
    BY <2>3, <2>4
  <2> DEFINE h == [n \in 0 .. N |-> IF n = N THEN On(f[N - 1], N) ELSE f[n]]
  <2>6. \A n \in 0 .. N : n # N => n \in 0 .. N - 1
    BY <2>3
  <2>7. \A n \in 0 .. N - 1 : h[n] = f[n] /\ n \in 0 .. N
    BY <2>3
  <2>8. h[N] = On(f[N - 1], N) /\ h[N - 1] = f[N - 1]
    BY <2>3
  <2>9. h = [n \in 0 .. N |-> h[n]]  OBVIOUS
  <2> HIDE DEF h
  <2>10. ASSUME NEW n \in 0 .. N PROVE h[n] = IF n = 0 THEN c ELSE On(h[n - 1], n)
    <3>1. CASE n = N
      BY <3>1, <2>2, <2>8
    <3>2. CASE n # N
      <4>1. n \in 0 .. N - 1 /\ (n # 0 => n - 1 \in 0 .. N - 1)
        BY <3>2, <2>3
      <4>2. f[n] = IF n = 0 THEN c ELSE On(f[n - 1], n)
        BY <4>1, <2>5
      <4> QED BY <4>1, <4>2, <2>7
    <3> QED BY <3>1, <3>2
  <2>11. Is(h, N)
    BY <2>9, <2>10
  <2> QED BY <2>1, <2>11
<1>3. M \in Nat  BY DEF M
<1>4. Is(CHOOSE f : Is(f, M), M)
  <2>1. \E f : Is(f, M)  BY <1>2, <1>3
  <2> HIDE DEF Is
  <2> QED BY <2>1
<1> DEFINE g == CHOOSE f : Is(f, M)
<1>5. /\ g[0] = c /\ \A n \in 1 .. M : g[n] = On(g[n - 1], n)
  <2>1. g = [n \in 0 .. M |-> IF n = 0 THEN c ELSE On(g[n - 1], n)]
    BY <1>4
  <2> HIDE DEF g
  <2>2. 0 \in 0 .. M /\ \A n \in 1 .. M : n \in 0 .. M /\ n # 0
    BY <1>3
  <2> QED BY <2>1, <2>2
<1>6. InsertRows(c, t, attrs) = g
  BY <1>1
<1> HIDE DEF g
<1> QED BY <1>5, <1>6 DEF On, M

(* After n turns the rows of t are those of its first n attributes, if     *)
(* there were none before.                                                 *)
Inserted(c, t, attrs, d, n) ==
    /\ WellFormed(d) /\ d.rel = c.rel /\ d.files = c.files
    /\ d.botched = c.botched /\ d.scrambled = c.scrambled /\ d.torn = c.torn
    /\ SameRows(c, d, t)
    /\ RowsOf(c, t) = {} =>
        /\ Cardinality(RowsOf(d, t)) = n
        /\ \A i \in RowsOf(d, t) : /\ d.rows[i].offset \in 1 .. n
                                   /\ d.rows[i] = NewRow(t, attrs, d.rows[i].offset)
        /\ \A i, j \in RowsOf(d, t) : d.rows[i].offset = d.rows[j].offset => i = j
        /\ \A k \in 1 .. n : \E i \in RowsOf(d, t) : d.rows[i].offset = k

LEMMA InsertedStep ==
    ASSUME NEW c, NEW t \in Tables, NEW attrs \in Seq(Infos), NEW n \in DOMAIN attrs,
           NEW d, Inserted(c, t, attrs, d, n - 1)
    PROVE  Inserted(c, t, attrs, InsertRow(d, NewRow(t, attrs, n)), n)
<1> DEFINE row == NewRow(t, attrs, n)
           e == InsertRow(d, row)
<1>1. /\ row \in Rows /\ row.relName = t /\ row.offset = n
  BY NewRowIs
<1>2. WellFormed(d)  BY DEF Inserted
<1>3. /\ WellFormed(e) /\ e.rel = d.rel /\ e.files = d.files
      /\ e.botched = d.botched /\ e.scrambled = d.scrambled /\ e.torn = d.torn
  BY <1>1, <1>2, InsertRowAt
<1>4. PICK p \in Nat :
        /\ p \in DOMAIN d.rows => d.rows[p] = NoRow
        /\ DOMAIN e.rows = DOMAIN d.rows \cup {p} /\ e.rows[p] = row
        /\ \A i \in DOMAIN d.rows : i # p => e.rows[i] = d.rows[i]
  BY <1>1, <1>2, InsertRowAt
<1>5. row # NoRow  BY <1>1, RowsAssumption
<1> HIDE DEF e, row
<1>6. \A u : p \notin RowsOf(d, u)
  BY <1>4 DEF RowsOf
<1>7. \A u : \A i \in RowsOf(d, u) : i \in RowsOf(e, u) /\ e.rows[i] = d.rows[i] /\ i # p
  BY <1>4, <1>6 DEF RowsOf
<1>8. \A u : \A i \in RowsOf(e, u) : i # p => i \in RowsOf(d, u)
  BY <1>4 DEF RowsOf
<1>9. RowsOf(e, t) = RowsOf(d, t) \cup {p}
  <2>1. p \in RowsOf(e, t)  BY <1>1, <1>4, <1>5 DEF RowsOf
  <2> QED BY <2>1, <1>7, <1>8
<1>10. \A u : u # t => RowsOf(e, u) = RowsOf(d, u)
  <2>1. \A u : u # t => p \notin RowsOf(e, u)
    BY <1>1, <1>4, <1>5 DEF RowsOf
  <2> QED BY <2>1, <1>7, <1>8
<1>11. SameRows(c, e, t)
  BY <1>7, <1>10 DEF SameRows, Inserted
<1>12. ASSUME RowsOf(c, t) = {}
      PROVE  /\ Cardinality(RowsOf(e, t)) = n
             /\ \A i \in RowsOf(e, t) : /\ e.rows[i].offset \in 1 .. n
                                        /\ e.rows[i] = NewRow(t, attrs, e.rows[i].offset)
             /\ \A i, j \in RowsOf(e, t) : e.rows[i].offset = e.rows[j].offset => i = j
             /\ \A k \in 1 .. n : \E i \in RowsOf(e, t) : e.rows[i].offset = k
  <2>1. /\ Cardinality(RowsOf(d, t)) = n - 1
        /\ \A i \in RowsOf(d, t) : /\ d.rows[i].offset \in 1 .. n - 1
                                   /\ d.rows[i] = NewRow(t, attrs, d.rows[i].offset)
        /\ \A i, j \in RowsOf(d, t) : d.rows[i].offset = d.rows[j].offset => i = j
        /\ \A k \in 1 .. n - 1 : \E i \in RowsOf(d, t) : d.rows[i].offset = k
    BY <1>12 DEF Inserted
  <2>2. n \in Nat \ {0}  OBVIOUS
  <2>3. Cardinality(RowsOf(e, t)) = n
    <3>1. IsFiniteSet(RowsOf(d, t)) /\ p \notin RowsOf(d, t)
      BY <1>2, <1>6, RowsFinite
    <3>2. Cardinality(RowsOf(d, t) \cup {p}) = Cardinality(RowsOf(d, t)) + 1
      BY <3>1, FS_AddElement
    <3> QED BY <3>2, <2>1, <2>2, <1>9
  <2>4. e.rows[p].offset = n /\ e.rows[p] = NewRow(t, attrs, e.rows[p].offset) /\ n \in 1 .. n
    BY <1>1, <1>4, <2>2 DEF row
  <2>5. \A i \in RowsOf(d, t) : /\ e.rows[i].offset \in 1 .. n - 1 /\ e.rows[i].offset # n
                                /\ e.rows[i].offset \in 1 .. n
                                /\ e.rows[i] = NewRow(t, attrs, e.rows[i].offset)
    BY <1>7, <2>1, <2>2
  <2>6. \A i \in RowsOf(e, t) : /\ e.rows[i].offset \in 1 .. n
                                /\ e.rows[i] = NewRow(t, attrs, e.rows[i].offset)
    BY <1>9, <2>4, <2>5
  <2>7. \A i, j \in RowsOf(e, t) : e.rows[i].offset = e.rows[j].offset => i = j
    BY <1>7, <1>9, <2>1, <2>4, <2>5
  <2>8. ASSUME NEW k \in 1 .. n PROVE \E i \in RowsOf(e, t) : e.rows[i].offset = k
    <3>1. CASE k = n  BY <3>1, <1>9, <2>4
    <3>2. CASE k # n
      <4>1. k \in 1 .. n - 1  BY <3>2, <2>2
      <4> QED BY <4>1, <1>7, <2>1
    <3> QED BY <3>1, <3>2
  <2> QED BY <2>3, <2>6, <2>7, <2>8
<1>13. /\ e.rel = c.rel /\ e.files = c.files
       /\ e.botched = c.botched /\ e.scrambled = c.scrambled /\ e.torn = c.torn
  BY <1>3 DEF Inserted
<1>14. Inserted(c, t, attrs, e, n)
  BY <1>3, <1>11, <1>12, <1>13 DEF Inserted
<1> QED BY <1>14 DEF e, row

LEMMA RowsInserted ==
    ASSUME NEW c, WellFormed(c), NEW t \in Tables, NEW attrs \in Seq(Infos)
    PROVE  \A n \in 0 .. Len(attrs) : Inserted(c, t, attrs, InsertRows(c, t, attrs)[n], n)
<1> DEFINE M == Len(attrs)
           g == InsertRows(c, t, attrs)
<1>1. M \in Nat /\ DOMAIN attrs = 1 .. M  BY SMTT(30)
<1>2. /\ g[0] = c
      /\ \A n \in 1 .. M : g[n] = InsertRow(g[n - 1], NewRow(t, attrs, n))
  BY <1>1, InsertRowsIs, SMTT(30)
<1> HIDE DEF M, g
<1> DEFINE T == {n \in 0 .. M : ~ Inserted(c, t, attrs, g[n], n)}
<1>3. Inserted(c, t, attrs, g[0], 0)
  <2>1. RowsOf(c, t) = {} => Cardinality(RowsOf(c, t)) = 0
    BY FS_EmptySet
  <2> QED BY <1>2, <2>1 DEF Inserted, SameRows
<1>4. T = {}
  <2> SUFFICES ASSUME T # {} PROVE FALSE  OBVIOUS
  <2>1. PICK n \in T : \A k \in T : n <= k
    <3>1. T \in SUBSET Nat  BY <1>1
    <3> HIDE DEF T
    <3> QED BY <3>1, LeastNat
  <2>2. n \in 1 .. M /\ n - 1 \in 0 .. M
    BY <2>1, <1>1, <1>3
  <2>3. n - 1 \notin T
    <3>1. n - 1 < n  BY <2>2, <1>1
    <3> HIDE DEF T
    <3> QED BY <2>1, <3>1, <2>2, <1>1
  <2>4. Inserted(c, t, attrs, g[n - 1], n - 1)
    BY <2>2, <2>3
  <2>5. Inserted(c, t, attrs, g[n], n)
    BY <2>2, <2>4, <1>1, <1>2, InsertedStep
  <2> QED BY <2>1, <2>5
<1> QED BY <1>4 DEF M, g

(* What happens to the files of one table leaves the indexes of the others.*)
OthersFiles(f, g, t) ==
    \A u : u # t => \A n \in Int :
        /\ <<u, n>> \in DOMAIN g <=> <<u, n>> \in DOMAIN f
        /\ <<u, n>> \in DOMAIN f => g[<<u, n>>] = f[<<u, n>>]
SameFiles(c, d, t) == OthersFiles(c.files, d.files, t)

LEMMA FileNames ==
    ASSUME NEW t, NEW u, NEW m, NEW n
    PROVE  /\ <<u, n>> # <<t>>
           /\ <<u, n>> = <<t, m>> <=> u = t /\ n = m
<1>1. Len(<<u, n>>) = 2 /\ Len(<<t>>) = 1  OBVIOUS
<1> QED BY <1>1

LEMMA OwnFile ==
    ASSUME NEW f, NEW t, NEW name, name = <<t>> \/ (\E m : name = <<t, m>>), NEW value
    PROVE  /\ OthersFiles(f, With(f, name, value), t)
           /\ OthersFiles(f, Without(f, {name}), t)
<1> SUFFICES ASSUME NEW u, u # t, NEW n \in Int
             PROVE  /\ <<u, n>> \in DOMAIN With(f, name, value) <=> <<u, n>> \in DOMAIN f
                    /\ <<u, n>> \in DOMAIN f => With(f, name, value)[<<u, n>>] = f[<<u, n>>]
                    /\ <<u, n>> \in DOMAIN Without(f, {name}) <=> <<u, n>> \in DOMAIN f
                    /\ <<u, n>> \in DOMAIN f => Without(f, {name})[<<u, n>>] = f[<<u, n>>]
  BY DEF OthersFiles
<1> DEFINE x == <<u, n>>
<1>1. x # name
  BY FileNames
<1> HIDE DEF x
<1>2. /\ x \in DOMAIN With(f, name, value) <=> x \in DOMAIN f
      /\ x \in DOMAIN f => With(f, name, value)[x] = f[x]
      /\ x \in DOMAIN Without(f, {name}) <=> x \in DOMAIN f
      /\ x \in DOMAIN f => Without(f, {name})[x] = f[x]
  BY <1>1 DEF With, Without
<1> QED BY <1>2 DEF x

(* What relcat and the history say of the other tables stays.              *)
SameEntries(c, d, t) ==
    \A u : u # t =>
        /\ u \in DOMAIN d.rel <=> u \in DOMAIN c.rel
        /\ u \in DOMAIN c.rel => d.rel[u] = c.rel[u]
        /\ u \in d.botched <=> u \in c.botched
        /\ u \in d.torn <=> u \in c.torn
        /\ u \in d.scrambled <=> u \in c.scrambled

SameHistory(c, d) ==
    d.botched = c.botched /\ d.torn = c.torn /\ d.scrambled = c.scrambled

(* A catalog that differs from another in what it says of one table only.  *)
Close(c, d, t) ==
    WellFormed(d) /\ SameRows(c, d, t) /\ SameFiles(c, d, t) /\ SameEntries(c, d, t)

LEMMA CloseToItself ==
    ASSUME NEW c, WellFormed(c), NEW t
    PROVE  Close(c, c, t)
  BY DEF Close, SameRows, SameFiles, OthersFiles, SameEntries

LEMMA CloseAgain ==
    ASSUME NEW c, NEW d, NEW e, NEW t, Close(c, d, t), Close(d, e, t)
    PROVE  Close(c, e, t)
<1>1. WellFormed(e)  BY DEF Close
<1>2. SameRows(c, e, t)  BY DEF Close, SameRows
<1>3. SameFiles(c, e, t)
  <2> DEFINE f == c.files
             g == d.files
             h == e.files
  <2>1. OthersFiles(f, g, t) /\ OthersFiles(g, h, t)  BY DEF Close, SameFiles
  <2> HIDE DEF f, g, h
  <2>2. OthersFiles(f, h, t)  BY <2>1 DEF OthersFiles
  <2> QED BY <2>2 DEF SameFiles, f, h
<1>4. SameEntries(c, e, t)  BY DEF Close, SameEntries
<1> QED BY <1>1, <1>2, <1>3, <1>4 DEF Close

RelationsOk(rel) ==
    /\ DOMAIN rel \subseteq Tables /\ rel = [t \in DOMAIN rel |-> rel[t]]
    /\ \A t \in DOMAIN rel : rel[t] \in RelRows

LEMMA Relations ==
    ASSUME NEW rel, RelationsOk(rel), NEW t
    PROVE  /\ RelationsOk(Without(rel, {t}))
           /\ t \in Tables => \A row \in RelRows : RelationsOk(With(rel, t, row))
  BY DEF RelationsOk, With, Without

(* The rows stay, whatever happens to the rest.                            *)
LEMMA RowsStay ==
    ASSUME NEW c, WellFormed(c), NEW rel, RelationsOk(rel), NEW files, NEW botched,
           NEW torn, NEW scrambled, NEW d,
           d = [rel |-> rel, rows |-> c.rows, free |-> c.free, files |-> files,
                botched |-> botched, scrambled |-> scrambled, torn |-> torn]
    PROVE  /\ WellFormed(d) /\ d.rel = rel /\ d.rows = c.rows /\ d.files = files
           /\ d.botched = botched /\ d.scrambled = scrambled /\ d.torn = torn
           /\ \A t : RowsOf(d, t) = RowsOf(c, t) /\ SameRows(c, d, t)
<1>1. /\ d.rel = rel /\ d.rows = c.rows /\ d.free = c.free /\ d.files = files
      /\ d.botched = botched /\ d.scrambled = scrambled /\ d.torn = torn
  OBVIOUS
<1>2. d = [rel |-> d.rel, rows |-> d.rows, free |-> d.free, files |-> d.files,
           botched |-> d.botched, scrambled |-> d.scrambled, torn |-> d.torn]
  BY <1>1
<1>3. WellFormed(d)
  BY <1>1, <1>2 DEF WellFormed, FreeSlots, RelationsOk
<1>4. \A t : RowsOf(d, t) = RowsOf(c, t)
  BY <1>1 DEF RowsOf
<1>5. \A t : SameRows(c, d, t)
  BY <1>1, <1>4 DEF SameRows
<1> QED BY <1>1, <1>3, <1>4, <1>5

(* One field of a catalog is replaced.                                     *)
LEMMA FilesChanged ==
    ASSUME NEW c, WellFormed(c), NEW files
    PROVE  LET d == [c EXCEPT !.files = files] IN
           /\ WellFormed(d) /\ d.rel = c.rel /\ d.rows = c.rows /\ d.files = files
           /\ SameHistory(c, d)
           /\ \A t : RowsOf(d, t) = RowsOf(c, t)
           /\ \A t : OthersFiles(c.files, files, t) => Close(c, d, t)
<1> DEFINE d == [c EXCEPT !.files = files]
<1>1. d = [rel |-> c.rel, rows |-> c.rows, free |-> c.free, files |-> files,
           botched |-> c.botched, scrambled |-> c.scrambled, torn |-> c.torn]
  BY DEF WellFormed
<1>2. RelationsOk(c.rel)
  BY DEF WellFormed, RelationsOk
<1> HIDE DEF d
<1>3. /\ WellFormed(d) /\ d.rel = c.rel /\ d.rows = c.rows /\ d.files = files
      /\ d.botched = c.botched /\ d.scrambled = c.scrambled /\ d.torn = c.torn
      /\ \A t : RowsOf(d, t) = RowsOf(c, t) /\ SameRows(c, d, t)
  BY <1>1, <1>2, RowsStay
<1>4. \A t : OthersFiles(c.files, files, t) => Close(c, d, t)
  BY <1>3 DEF Close, SameFiles, SameEntries
<1> QED BY <1>3, <1>4 DEF SameHistory, d

LEMMA RelChanged ==
    ASSUME NEW c, WellFormed(c), NEW rel, RelationsOk(rel)
    PROVE  LET d == [c EXCEPT !.rel = rel] IN
           /\ WellFormed(d) /\ d.rel = rel /\ d.rows = c.rows /\ d.files = c.files
           /\ SameHistory(c, d)
           /\ \A t : RowsOf(d, t) = RowsOf(c, t)
           /\ \A t : (\A u : u # t => /\ u \in DOMAIN rel <=> u \in DOMAIN c.rel
                                      /\ u \in DOMAIN c.rel => rel[u] = c.rel[u])
                     => Close(c, d, t)
<1> DEFINE d == [c EXCEPT !.rel = rel]
<1>1. d = [rel |-> rel, rows |-> c.rows, free |-> c.free, files |-> c.files,
           botched |-> c.botched, scrambled |-> c.scrambled, torn |-> c.torn]
  BY DEF WellFormed
<1> HIDE DEF d
<1>2. /\ WellFormed(d) /\ d.rel = rel /\ d.rows = c.rows /\ d.files = c.files
      /\ d.botched = c.botched /\ d.scrambled = c.scrambled /\ d.torn = c.torn
      /\ \A t : RowsOf(d, t) = RowsOf(c, t) /\ SameRows(c, d, t)
  BY <1>1, RowsStay
<1>3. \A t : SameFiles(c, d, t)
  BY <1>2 DEF SameFiles, OthersFiles
<1>4. ASSUME NEW t, \A u : u # t => /\ u \in DOMAIN rel <=> u \in DOMAIN c.rel
                                    /\ u \in DOMAIN c.rel => rel[u] = c.rel[u]
      PROVE  Close(c, d, t)
  BY <1>2, <1>3, <1>4 DEF Close, SameEntries
<1> QED BY <1>2, <1>4 DEF SameHistory, d

LEMMA HistoryChanged ==
    ASSUME NEW c, WellFormed(c), NEW botched, NEW torn, NEW scrambled, NEW t, NEW d,
           d = [rel |-> c.rel, rows |-> c.rows, free |-> c.free, files |-> c.files,
                botched |-> botched, scrambled |-> scrambled, torn |-> torn],
           \A u : u # t => /\ u \in botched <=> u \in c.botched
                           /\ u \in torn <=> u \in c.torn
                           /\ u \in scrambled <=> u \in c.scrambled
    PROVE  /\ Close(c, d, t) /\ d.rel = c.rel /\ d.rows = c.rows /\ d.files = c.files
           /\ d.botched = botched /\ d.scrambled = scrambled /\ d.torn = torn
           /\ \A u : RowsOf(d, u) = RowsOf(c, u)
<1>1. RelationsOk(c.rel)
  BY DEF WellFormed, RelationsOk
<1>2. /\ WellFormed(d) /\ d.rel = c.rel /\ d.rows = c.rows /\ d.files = c.files
      /\ d.botched = botched /\ d.scrambled = scrambled /\ d.torn = torn
      /\ \A u : RowsOf(d, u) = RowsOf(c, u) /\ SameRows(c, d, u)
  BY <1>1, RowsStay
<1>3. SameFiles(c, d, t)
  BY <1>2 DEF SameFiles, OthersFiles
<1>4. SameEntries(c, d, t)
  BY <1>2 DEF SameEntries
<1> QED BY <1>2, <1>3, <1>4 DEF Close

LEMMA Marked ==
    ASSUME NEW c, WellFormed(c), NEW t
    PROVE  /\ LET d == Botched(c, t) IN
              /\ Close(c, d, t) /\ d.rel = c.rel /\ d.rows = c.rows /\ d.files = c.files
              /\ t \in d.botched
           /\ LET d == Torn(c, t) IN
              /\ Close(c, d, t) /\ d.rel = c.rel /\ d.rows = c.rows /\ d.files = c.files
              /\ d.botched = c.botched /\ t \in d.torn
              /\ \A u : RowsOf(d, u) = RowsOf(c, u)
<1>1. ASSUME NEW d, d = Botched(c, t)
      PROVE  /\ Close(c, d, t) /\ d.rel = c.rel /\ d.rows = c.rows /\ d.files = c.files
             /\ t \in d.botched
  <2> DEFINE b == c.botched \cup {t}
  <2>1. d = [rel |-> c.rel, rows |-> c.rows, free |-> c.free, files |-> c.files,
             botched |-> b, scrambled |-> c.scrambled, torn |-> c.torn]
    BY <1>1 DEF WellFormed, Botched
  <2>2. t \in b /\ \A u : u # t => (u \in b <=> u \in c.botched)  OBVIOUS
  <2> HIDE DEF b
  <2> QED BY <2>1, <2>2, HistoryChanged
<1>2. ASSUME NEW d, d = Torn(c, t)
      PROVE  /\ Close(c, d, t) /\ d.rel = c.rel /\ d.rows = c.rows /\ d.files = c.files
             /\ d.botched = c.botched /\ t \in d.torn
             /\ \A u : RowsOf(d, u) = RowsOf(c, u)
  <2> DEFINE b == c.torn \cup {t}
  <2>1. d = [rel |-> c.rel, rows |-> c.rows, free |-> c.free, files |-> c.files,
             botched |-> c.botched, scrambled |-> c.scrambled, torn |-> b]
    BY <1>2 DEF WellFormed, Torn
  <2>2. t \in b /\ \A u : u # t => (u \in b <=> u \in c.torn)  OBVIOUS
  <2> HIDE DEF b
  <2> QED BY <2>1, <2>2, HistoryChanged
<1> QED BY <1>1, <1>2

LEMMA DoneIs ==
    ASSUME NEW x, NEW rc
    PROVE  Done(x, rc).cat = x /\ Done(x, rc).rc = rc
  BY DEF Done

LEMMA FailedIs ==
    ASSUME NEW cats, NEW result \in Failed(cats)
    PROVE  result.cat \in cats
  BY DEF Failed, Done

(* The scan of DropTable, i slots on: unless it has failed, the rows of t  *)
(* that are left are behind it.                                            *)
Scanned(c, t, d, i) ==
    /\ Close(c, d.cat, t) /\ d.cat.rel = c.rel /\ SameHistory(c, d.cat)
    /\ d.rc = "OK" => RowsOf(d.cat, t) = {j \in RowsOf(c, t) : j > i}

LEMMA IndexFileDropped ==
    ASSUME NEW d, WellFormed(d.cat), NEW t, NEW i
    PROVE  LET e == DropIndexFile(d, t, i) IN
           /\ Close(d.cat, e.cat, t) /\ e.cat.rel = d.cat.rel /\ SameHistory(d.cat, e.cat)
           /\ \A u : RowsOf(e.cat, u) = RowsOf(d.cat, u)
           /\ e.rc = "OK" => d.rc = "OK"
<1> DEFINE e == DropIndexFile(d, t, i)
           x == d.cat
           F == Without(x.files, {<<t, x.rows[i].indexNo>>})
           y == [x EXCEPT !.files = F]
<1>1. \/ e = d \/ e = Done(x, "PF_UNIX")
      \/ d.rc = "OK" /\ e = Done(y, "OK")
  BY Zenon DEF DropIndexFile, WithoutIndex
<1>2. /\ WellFormed(y) /\ y.rel = x.rel /\ SameHistory(x, y)
      /\ \A u : RowsOf(y, u) = RowsOf(x, u)
      /\ Close(x, y, t)
  <2>1. OthersFiles(x.files, F, t)  BY OwnFile
  <2> HIDE DEF F, x
  <2> QED BY <2>1, FilesChanged DEF x
<1>3. Close(x, x, t) /\ SameHistory(x, x)
  BY CloseToItself DEF SameHistory
<1>4. e.cat = x \/ e.cat = y
  <2> HIDE DEF e, y, x
  <2> QED BY <1>1, DoneIs DEF x
<1>5. e.rc = "OK" => d.rc = "OK"
  <2> HIDE DEF e, y, x
  <2> QED BY <1>1, DoneIs
<1> HIDE DEF e, y
<1> QED BY <1>2, <1>3, <1>4, <1>5 DEF e, x

LEMMA DeletedRow ==
    ASSUME NEW c, WellFormed(c), NEW t, NEW x, Close(c, x, t), x.rel = c.rel,
           SameHistory(c, x),
           NEW i \in Nat \ {0}, i \in RowsOf(c, t),
           RowsOf(x, t) = {j \in RowsOf(c, t) : j > i - 1}
    PROVE  Scanned(c, t, Done(DeleteRow(x, i), "OK"), i)
<1> DEFINE e == DeleteRow(x, i)
<1>1. i \in RowsOf(x, t) /\ \A j \in RowsOf(c, t) : j \in Nat
  BY RowsFinite
<1>2. i \in DOMAIN x.rows /\ x.rows[i] # NoRow /\ x.rows[i].relName = t
  BY <1>1 DEF RowsOf
<1>3. /\ WellFormed(e) /\ e.rel = x.rel /\ e.files = x.files
      /\ e.botched = x.botched /\ e.scrambled = x.scrambled /\ e.torn = x.torn
      /\ DOMAIN e.rows = DOMAIN x.rows /\ e.rows[i] = NoRow
      /\ \A j \in DOMAIN x.rows : j # i => e.rows[j] = x.rows[j]
  BY <1>2, DeleteRowAt DEF Close
<1> HIDE DEF e
<1>4. \A u : RowsOf(e, u) = RowsOf(x, u) \ {i}
  BY <1>3 DEF RowsOf
<1>5. \A u : u # t => i \notin RowsOf(x, u)
  BY <1>2 DEF RowsOf
<1>6. SameRows(c, e, t)
  <2>1. ASSUME NEW u, u # t PROVE RowsOf(e, u) = RowsOf(c, u)
    BY <2>1, <1>4, <1>5 DEF SameRows, Close
  <2>2. ASSUME NEW u, u # t, NEW j \in RowsOf(c, u) PROVE e.rows[j] = c.rows[j]
    <3>1. j \in RowsOf(x, u) /\ x.rows[j] = c.rows[j]  BY <2>2 DEF SameRows, Close
    <3>2. j # i /\ j \in DOMAIN x.rows  BY <3>1, <2>2, <1>5 DEF RowsOf
    <3> QED BY <3>1, <3>2, <1>3
  <2> QED BY <2>1, <2>2 DEF SameRows
<1>7. Close(c, e, t)
  BY <1>3, <1>6 DEF SameFiles, SameEntries, Close
<1>8. RowsOf(e, t) = {j \in RowsOf(c, t) : j > i}
  <2>1. \A j \in Nat : j > i - 1 /\ j # i <=> j > i
    OBVIOUS
  <2>2. {j \in RowsOf(c, t) : j > i} = {j \in RowsOf(c, t) : j > i - 1} \ {i}
    BY <1>1, <2>1
  <2> QED BY <1>4, <2>2
<1>9. Scanned(c, t, Done(e, "OK"), i)
  BY <1>3, <1>7, <1>8, DoneIs DEF Scanned, SameHistory
<1> QED BY <1>9 DEF e

LEMMA ScannedStep ==
    ASSUME NEW c, WellFormed(c), NEW t, NEW i \in Nat \ {0}, i \in RowsOf(c, t),
           NEW d, Scanned(c, t, d, i - 1)
    PROVE  Scanned(c, t, DropRow(d, t, i), i)
<1> DEFINE e == DropIndexFile(d, t, i)
           x == e.cat
<1>1. WellFormed(d.cat)  BY DEF Scanned, Close
<1>2. /\ Close(d.cat, x, t) /\ x.rel = d.cat.rel /\ SameHistory(d.cat, x)
      /\ \A u : RowsOf(x, u) = RowsOf(d.cat, u)
      /\ e.rc = "OK" => d.rc = "OK"
  BY <1>1, IndexFileDropped
<1>3. DropRow(d, t, i) = IF e.rc # "OK" THEN e ELSE Done(DeleteRow(x, i), "OK")
  BY DEF DropRow
<1> HIDE DEF e
<1>4. /\ Close(c, x, t) /\ x.rel = c.rel /\ SameHistory(c, x)
  <2>1. Close(c, d.cat, t)  BY DEF Scanned
  <2>2. Close(c, x, t)
    <3> HIDE DEF x
    <3> QED BY <2>1, <1>2, CloseAgain
  <2> QED BY <2>2, <1>2 DEF Scanned, SameHistory
<1>5. CASE e.rc # "OK"
  BY <1>3, <1>4, <1>5 DEF Scanned
<1>6. CASE e.rc = "OK"
  <2>1. RowsOf(x, t) = {j \in RowsOf(c, t) : j > i - 1}
    BY <1>2, <1>6 DEF Scanned
  <2> HIDE DEF x
  <2>2. Scanned(c, t, Done(DeleteRow(x, i), "OK"), i)
    BY <2>1, <1>4, DeletedRow
  <2> QED BY <2>2, <1>3, <1>6
<1> QED BY <1>5, <1>6

(* The loop goes through the slots of attrcat.                             *)
LEMMA DropRowsIs ==
    ASSUME NEW c, NEW t, Len(c.rows) \in Nat
    PROVE  LET g == DropRows(c, t) IN
           /\ g[0] = Done(c, "OK")
           /\ \A n \in 1 .. Len(c.rows) :
                g[n] = IF n \in RowsOf(c, t) THEN DropRow(g[n - 1], t, n) ELSE g[n - 1]
<1> DEFINE z == Done(c, "OK")
           On(x, n) == IF n \in RowsOf(c, t) THEN DropRow(x, t, n) ELSE x
           Is(f, N) == f = [n \in 0 .. N |-> IF n = 0 THEN z ELSE On(f[n - 1], n)]
           T == {N \in Nat : ~ \E f : Is(f, N)}
           M == Len(c.rows)
<1>1. DropRows(c, t) = CHOOSE f : Is(f, M)
  BY DEF DropRows
<1> HIDE DEF On, M, z
<1>2. T = {}
  <2> SUFFICES ASSUME T # {} PROVE FALSE  OBVIOUS
  <2>1. PICK N \in T : \A k \in T : N <= k
    <3>1. T \in SUBSET Nat  OBVIOUS
    <3> HIDE DEF T
    <3> QED BY <3>1, LeastNat
  <2>2. N # 0
    <3>1. Is([n \in 0 .. 0 |-> z], 0)  OBVIOUS
    <3> QED BY <3>1
  <2>3. N \in Nat /\ N - 1 \in Nat
    BY <2>1, <2>2
  <2>4. N - 1 \notin T
    <3> HIDE DEF T
    <3> QED BY <2>1, <2>3
  <2>5. PICK f : Is(f, N - 1)
    BY <2>3, <2>4
  <2> DEFINE h == [n \in 0 .. N |-> IF n = N THEN On(f[N - 1], N) ELSE f[n]]
  <2>6. \A n \in 0 .. N : n # N => n \in 0 .. N - 1
    BY <2>3
  <2>7. \A n \in 0 .. N - 1 : h[n] = f[n] /\ n \in 0 .. N
    BY <2>3
  <2>8. h[N] = On(f[N - 1], N) /\ h[N - 1] = f[N - 1]
    BY <2>3
  <2>9. h = [n \in 0 .. N |-> h[n]]  OBVIOUS
  <2> HIDE DEF h
  <2>10. ASSUME NEW n \in 0 .. N PROVE h[n] = IF n = 0 THEN z ELSE On(h[n - 1], n)
    <3>1. CASE n = N
      BY <3>1, <2>2, <2>8
    <3>2. CASE n # N
      <4>1. n \in 0 .. N - 1 /\ (n # 0 => n - 1 \in 0 .. N - 1)
        BY <3>2, <2>3
      <4>2. f[n] = IF n = 0 THEN z ELSE On(f[n - 1], n)
        BY <4>1, <2>5
      <4> QED BY <4>1, <4>2, <2>7
    <3> QED BY <3>1, <3>2
  <2>11. Is(h, N)
    BY <2>9, <2>10
  <2> QED BY <2>1, <2>11
<1>3. M \in Nat  BY DEF M
<1>4. Is(CHOOSE f : Is(f, M), M)
  <2>1. \E f : Is(f, M)  BY <1>2, <1>3
  <2> HIDE DEF Is
  <2> QED BY <2>1
<1> DEFINE g == CHOOSE f : Is(f, M)
<1>5. /\ g[0] = z /\ \A n \in 1 .. M : g[n] = On(g[n - 1], n)
  <2>1. g = [n \in 0 .. M |-> IF n = 0 THEN z ELSE On(g[n - 1], n)]
    BY <1>4
  <2> HIDE DEF g
  <2>2. 0 \in 0 .. M /\ \A n \in 1 .. M : n \in 0 .. M /\ n # 0
    BY <1>3
  <2> QED BY <2>1, <2>2
<1>6. DropRows(c, t) = g
  BY <1>1
<1> HIDE DEF g
<1> QED BY <1>5, <1>6 DEF On, M, z

LEMMA RowsDropped ==
    ASSUME NEW c, WellFormed(c), NEW t
    PROVE  \A n \in 0 .. Len(c.rows) : Scanned(c, t, DropRows(c, t)[n], n)
<1> DEFINE M == Len(c.rows)
           g == DropRows(c, t)
<1>1. M \in Nat /\ DOMAIN c.rows = 1 .. M  BY DEF WellFormed
<1>2. /\ g[0] = Done(c, "OK")
      /\ \A n \in 1 .. M :
            g[n] = IF n \in RowsOf(c, t) THEN DropRow(g[n - 1], t, n) ELSE g[n - 1]
  BY <1>1, DropRowsIs
<1> HIDE DEF M, g
<1> DEFINE T == {n \in 0 .. M : ~ Scanned(c, t, g[n], n)}
<1>3. Scanned(c, t, g[0], 0)
  <2>1. g[0].cat = c /\ g[0].rc = "OK"  BY <1>2, DoneIs
  <2>2. RowsOf(c, t) = {j \in RowsOf(c, t) : j > 0}
    BY RowsFinite
  <2> QED BY <2>1, <2>2, CloseToItself DEF Scanned, SameHistory
<1>4. T = {}
  <2> SUFFICES ASSUME T # {} PROVE FALSE  OBVIOUS
  <2>1. PICK n \in T : \A k \in T : n <= k
    <3>1. T \in SUBSET Nat  BY <1>1
    <3> HIDE DEF T
    <3> QED BY <3>1, LeastNat
  <2>2. n \in 1 .. M /\ n - 1 \in 0 .. M /\ n \in Nat \ {0}
    BY <2>1, <1>1, <1>3
  <2>3. n - 1 \notin T
    <3>1. n - 1 < n  BY <2>2, <1>1
    <3> HIDE DEF T
    <3> QED BY <2>1, <3>1, <2>2, <1>1
  <2>4. Scanned(c, t, g[n - 1], n - 1)
    BY <2>2, <2>3
  <2>5. Scanned(c, t, g[n], n)
    <3>1. CASE n \in RowsOf(c, t)
      BY <3>1, <2>2, <2>4, <1>2, ScannedStep
    <3>2. CASE n \notin RowsOf(c, t)
      <4>1. g[n] = g[n - 1]  BY <3>2, <2>2, <1>2
      <4>2. {j \in RowsOf(c, t) : j > n} = {j \in RowsOf(c, t) : j > n - 1}
        <5>1. \A j \in RowsOf(c, t) : j > n <=> j > n - 1
          BY <3>2, <2>2, RowsFinite
        <5> QED BY <5>1
      <4> QED BY <4>1, <4>2, <2>4 DEF Scanned
    <3> QED BY <3>1, <3>2
  <2> QED BY <2>1, <2>5
<1> QED BY <1>4 DEF M, g

(* The loop goes through the slots of attrcat.                             *)
LEMMA RenumberRowsIs ==
    ASSUME NEW c, NEW t, NEW above, Len(c.rows) \in Nat
    PROVE  LET g == RenumberRows(c, t, above) IN
           /\ g[0] = c
           /\ \A n \in 1 .. Len(c.rows) :
                g[n] = IF n \in above THEN Renumber(g[n - 1], t, n) ELSE g[n - 1]
<1> DEFINE On(x, n) == IF n \in above THEN Renumber(x, t, n) ELSE x
           Is(f, N) == f = [n \in 0 .. N |-> IF n = 0 THEN c ELSE On(f[n - 1], n)]
           T == {N \in Nat : ~ \E f : Is(f, N)}
           M == Len(c.rows)
<1>1. RenumberRows(c, t, above) = CHOOSE f : Is(f, M)
  BY DEF RenumberRows
<1> HIDE DEF On, M
<1>2. T = {}
  <2> SUFFICES ASSUME T # {} PROVE FALSE  OBVIOUS
  <2>1. PICK N \in T : \A k \in T : N <= k
    <3>1. T \in SUBSET Nat  OBVIOUS
    <3> HIDE DEF T
    <3> QED BY <3>1, LeastNat
  <2>2. N # 0
    <3>1. Is([n \in 0 .. 0 |-> c], 0)  OBVIOUS
    <3> QED BY <3>1
  <2>3. N \in Nat /\ N - 1 \in Nat
    BY <2>1, <2>2
  <2>4. N - 1 \notin T
    <3> HIDE DEF T
    <3> QED BY <2>1, <2>3
  <2>5. PICK f : Is(f, N - 1)
    BY <2>3, <2>4
  <2> DEFINE h == [n \in 0 .. N |-> IF n = N THEN On(f[N - 1], N) ELSE f[n]]
  <2>6. \A n \in 0 .. N : n # N => n \in 0 .. N - 1
    BY <2>3
  <2>7. \A n \in 0 .. N - 1 : h[n] = f[n] /\ n \in 0 .. N
    BY <2>3
  <2>8. h[N] = On(f[N - 1], N) /\ h[N - 1] = f[N - 1]
    BY <2>3
  <2>9. h = [n \in 0 .. N |-> h[n]]  OBVIOUS
  <2> HIDE DEF h
  <2>10. ASSUME NEW n \in 0 .. N PROVE h[n] = IF n = 0 THEN c ELSE On(h[n - 1], n)
    <3>1. CASE n = N
      BY <3>1, <2>2, <2>8
    <3>2. CASE n # N
      <4>1. n \in 0 .. N - 1 /\ (n # 0 => n - 1 \in 0 .. N - 1)
        BY <3>2, <2>3
      <4>2. f[n] = IF n = 0 THEN c ELSE On(f[n - 1], n)
        BY <4>1, <2>5
      <4> QED BY <4>1, <4>2, <2>7
    <3> QED BY <3>1, <3>2
  <2>11. Is(h, N)
    BY <2>9, <2>10
  <2> QED BY <2>1, <2>11
<1>3. M \in Nat  BY DEF M
<1>4. Is(CHOOSE f : Is(f, M), M)
  <2>1. \E f : Is(f, M)  BY <1>2, <1>3
  <2> HIDE DEF Is
  <2> QED BY <2>1
<1> DEFINE g == CHOOSE f : Is(f, M)
<1>5. /\ g[0] = c /\ \A n \in 1 .. M : g[n] = On(g[n - 1], n)
  <2>1. g = [n \in 0 .. M |-> IF n = 0 THEN c ELSE On(g[n - 1], n)]
    BY <1>4
  <2> HIDE DEF g
  <2>2. 0 \in 0 .. M /\ \A n \in 1 .. M : n \in 0 .. M /\ n # 0
    BY <1>3
  <2> QED BY <2>1, <2>2
<1>6. RenumberRows(c, t, above) = g
  BY <1>1
<1> HIDE DEF g
<1> QED BY <1>5, <1>6 DEF On, M

(* One row gets another index number, whatever happens to relcat and to    *)
(* the files.                                                              *)
LEMMA Edited ==
    ASSUME NEW c, WellFormed(c), NEW t, NEW i \in RowsOf(c, t), NEW n \in Int,
           NEW d, RelationsOk(d.rel),
           d = [rel |-> d.rel, rows |-> [c.rows EXCEPT ![i].indexNo = n], free |-> c.free,
                files |-> d.files, botched |-> d.botched, scrambled |-> d.scrambled,
                torn |-> d.torn]
    PROVE  /\ WellFormed(d)
           /\ \A u : RowsOf(d, u) = RowsOf(c, u)
           /\ DOMAIN d.rows = DOMAIN c.rows
           /\ d.rows[i].indexNo = n /\ d.rows[i].attrName = c.rows[i].attrName
           /\ \A j \in DOMAIN c.rows : j # i => d.rows[j] = c.rows[j]
           /\ SameRows(c, d, t)
<1> DEFINE X == Rows \cup {NoRow}
           row == [c.rows[i] EXCEPT !.indexNo = n]
<1>1. /\ c.rows \in Seq(X) /\ i \in DOMAIN c.rows /\ c.rows[i] \in Rows
      /\ c.rows[i].relName = t
  BY RowsFinite DEF WellFormed, RowsOf
<1>2. /\ row \in Rows /\ row.relName = t /\ row.indexNo = n
      /\ row.attrName = c.rows[i].attrName
  BY <1>1 DEF Rows
<1>3. row # NoRow /\ c.rows[i] # NoRow  BY <1>1, <1>2, RowsAssumption
<1>4. d.rows = [c.rows EXCEPT ![i] = row] /\ d.free = c.free
  <2> DEFINE r == [c.rows EXCEPT ![i].indexNo = n]
  <2>1. r = [c.rows EXCEPT ![i] = row]  OBVIOUS
  <2>2. d = [rel |-> d.rel, rows |-> r, free |-> c.free,
             files |-> d.files, botched |-> d.botched, scrambled |-> d.scrambled,
                torn |-> d.torn]
    OBVIOUS
  <2> HIDE DEF r
  <2>3. d.rows = r /\ d.free = c.free  BY <2>2
  <2> QED BY <2>1, <2>3
<1> HIDE DEF row, X
<1>5. /\ d.rows \in Seq(X) /\ DOMAIN d.rows = DOMAIN c.rows /\ d.rows[i] = row
      /\ \A j \in DOMAIN c.rows : j # i => d.rows[j] = c.rows[j]
  BY <1>1, <1>2, <1>4 DEF X
<1>6. FreeSlots(d) = FreeSlots(c)
  BY <1>3, <1>5 DEF FreeSlots
<1>7. WellFormed(d)
  <2>1. d = [rel |-> d.rel, rows |-> d.rows, free |-> d.free, files |-> d.files,
             botched |-> d.botched, scrambled |-> d.scrambled,
                torn |-> d.torn]
    <3>1. /\ [c.rows EXCEPT ![i].indexNo = n] = d.rows
      BY <1>4 DEF row
    <3> QED BY <3>1, <1>4
  <2> QED BY <1>4, <1>5, <1>6, <2>1 DEF WellFormed, RelationsOk, X
<1>8. \A u : RowsOf(d, u) = RowsOf(c, u)
  BY <1>1, <1>2, <1>3, <1>5 DEF RowsOf
<1>9. SameRows(c, d, t)
  <2>1. ASSUME NEW u, u # t, NEW j \in RowsOf(c, u) PROVE d.rows[j] = c.rows[j]
    <3>1. j # i /\ j \in DOMAIN c.rows  BY <1>1, <2>1 DEF RowsOf
    <3> QED BY <3>1, <1>5
  <2> QED BY <2>1, <1>8 DEF SameRows
<1> QED BY <1>2, <1>5, <1>7, <1>8, <1>9

LEMMA RowEdited ==
    ASSUME NEW c, WellFormed(c), NEW t, NEW i \in RowsOf(c, t), NEW n \in Int
    PROVE  LET d == [c EXCEPT !.rows[i].indexNo = n] IN
           /\ Close(c, d, t) /\ d.rel = c.rel /\ d.files = c.files /\ SameHistory(c, d)
           /\ \A u : RowsOf(d, u) = RowsOf(c, u)
           /\ DOMAIN d.rows = DOMAIN c.rows
           /\ d.rows[i].indexNo = n /\ d.rows[i].attrName = c.rows[i].attrName
           /\ \A j \in DOMAIN c.rows : j # i => d.rows[j] = c.rows[j]
<1> DEFINE r == [c.rows EXCEPT ![i].indexNo = n]
           d == [c EXCEPT !.rows[i].indexNo = n]
<1>1. d = [c EXCEPT !.rows = r]
  OBVIOUS
<1> HIDE DEF r, d
<1>2. d = [rel |-> c.rel, rows |-> r, free |-> c.free, files |-> c.files,
           botched |-> c.botched, scrambled |-> c.scrambled, torn |-> c.torn]
  BY <1>1 DEF WellFormed
<1>3. /\ d.rel = c.rel /\ d.files = c.files
      /\ d.botched = c.botched /\ d.scrambled = c.scrambled /\ d.torn = c.torn
  BY <1>2
<1>4. RelationsOk(d.rel)
  BY <1>3 DEF WellFormed, RelationsOk
<1>5. d = [rel |-> d.rel, rows |-> [c.rows EXCEPT ![i].indexNo = n], free |-> c.free,
           files |-> d.files, botched |-> d.botched, scrambled |-> d.scrambled,
           torn |-> d.torn]
  BY <1>2, <1>3 DEF r
<1>6. /\ WellFormed(d)
      /\ \A u : RowsOf(d, u) = RowsOf(c, u)
      /\ DOMAIN d.rows = DOMAIN c.rows
      /\ d.rows[i].indexNo = n /\ d.rows[i].attrName = c.rows[i].attrName
      /\ \A j \in DOMAIN c.rows : j # i => d.rows[j] = c.rows[j]
      /\ SameRows(c, d, t)
  BY <1>4, <1>5, Edited
<1>7. Close(c, d, t)
  BY <1>3, <1>6 DEF Close, SameFiles, OthersFiles, SameEntries
<1> QED BY <1>3, <1>6, <1>7 DEF SameHistory, d

LEMMA CountChanged ==
    ASSUME NEW c, WellFormed(c), NEW t \in DOMAIN c.rel, NEW n \in Int
    PROVE  LET d == [c EXCEPT !.rel[t].indexCount = n] IN
           /\ Close(c, d, t) /\ d.rows = c.rows /\ d.files = c.files /\ SameHistory(c, d)
           /\ \A u : RowsOf(d, u) = RowsOf(c, u)
           /\ DOMAIN d.rel = DOMAIN c.rel
           /\ d.rel[t].indexCount = n /\ d.rel[t].attrCount = c.rel[t].attrCount
<1> DEFINE d == [c EXCEPT !.rel[t].indexCount = n]
           e == [c.rel[t] EXCEPT !.indexCount = n]
           R == [c.rel EXCEPT ![t] = e]
<1>1. d = [c EXCEPT !.rel = R]
  OBVIOUS
<1> HIDE DEF d
<1>2. /\ e \in RelRows /\ e.indexCount = n /\ e.attrCount = c.rel[t].attrCount
  <2>1. c.rel[t] \in RelRows  BY DEF WellFormed
  <2> QED BY <2>1 DEF RelRows
<1> HIDE DEF e
<1>3. /\ RelationsOk(R) /\ DOMAIN R = DOMAIN c.rel /\ R[t] = e
      /\ \A u \in DOMAIN c.rel : u # t => R[u] = c.rel[u]
  BY <1>2 DEF WellFormed, RelationsOk
<1> HIDE DEF R
<1>4. /\ d.rel = R /\ d.rows = c.rows /\ d.files = c.files /\ SameHistory(c, d)
      /\ \A u : RowsOf(d, u) = RowsOf(c, u)
      /\ Close(c, d, t)
  <2> DEFINE x == [c EXCEPT !.rel = R]
  <2>1. /\ x.rel = R /\ x.rows = c.rows /\ x.files = c.files /\ SameHistory(c, x)
        /\ \A u : RowsOf(x, u) = RowsOf(c, u)
        /\ \A v : (\A u : u # v => /\ u \in DOMAIN R <=> u \in DOMAIN c.rel
                                   /\ u \in DOMAIN c.rel => R[u] = c.rel[u])
                     => Close(c, x, v)
    BY <1>3, RelChanged
  <2> HIDE DEF x
  <2>2. Close(c, x, t)  BY <2>1, <1>3
  <2> QED BY <2>1, <2>2, <1>1 DEF x
<1> QED BY <1>2, <1>3, <1>4 DEF d

(* The loop of DropIndex, i slots on: the rows above the dropped index     *)
(* have the number below theirs.                                           *)
NumberAfter(c, above, i, j) ==
    IF j \in above /\ j <= i THEN c.rows[j].indexNo - 1 ELSE c.rows[j].indexNo

Renumbered(c, t, above, d, i) ==
    /\ Close(c, d, t) /\ d.rel = c.rel /\ SameHistory(c, d)
    /\ RowsOf(d, t) = RowsOf(c, t)
    /\ \A j \in RowsOf(c, t) : /\ d.rows[j].attrName = c.rows[j].attrName
                               /\ d.rows[j].indexNo = NumberAfter(c, above, i, j)

(* When they ascend along attrcat, each has its own file at any moment.    *)
Ascending(c, t, above, m) ==
    /\ m \in Nat
    /\ \A j \in above : c.rows[j].indexNo > m
    /\ \A j \in Indexed(c, t) \ above : c.rows[j].indexNo < m
    /\ \A j, k \in Indexed(c, t) : c.rows[j].indexNo = c.rows[k].indexNo => j = k
    /\ \A j, k \in above : j < k => c.rows[j].indexNo < c.rows[k].indexNo
    /\ \A j \in Indexed(c, t) : c.rows[j].indexNo >= 0

MovedFile(d, t, n, e) ==
    e.files = IF <<t, n>> \in DOMAIN d.files
              THEN With(Without(d.files, {<<t, n>>}), <<t, n - 1>>, d.files[<<t, n>>])
              ELSE d.files

LEMMA FileRenamed ==
    ASSUME NEW d, WellFormed(d), NEW t, NEW i
    PROVE  LET e == RenameFile(d, t, i) IN
           /\ Close(d, e, t) /\ e.rel = d.rel /\ e.rows = d.rows /\ SameHistory(d, e)
           /\ \A u : RowsOf(e, u) = RowsOf(d, u)
           /\ MovedFile(d, t, d.rows[i].indexNo, e)
<1> DEFINE n == d.rows[i].indexNo
           G == Without(d.files, {<<t, n>>})
           F == IF <<t, n>> \in DOMAIN d.files
                THEN With(G, <<t, n - 1>>, d.files[<<t, n>>]) ELSE d.files
           e == [d EXCEPT !.files = F]
<1>1. RenameFile(d, t, i) = e
  BY DEF RenameFile
<1>2. OthersFiles(d.files, F, t)
  <2> DEFINE v == d.files[<<t, n>>]
             f == d.files
  <2>1. OthersFiles(f, G, t)  BY OwnFile
  <2>2. OthersFiles(G, With(G, <<t, n - 1>>, v), t)  BY OwnFile
  <2> DEFINE H == With(G, <<t, n - 1>>, v)
  <2>3. F = H \/ F = f  OBVIOUS
  <2> HIDE DEF f, G, H, F, v, n
  <2>4. OthersFiles(f, H, t)  BY <2>1, <2>2 DEF OthersFiles, H
  <2>5. OthersFiles(f, f, t)  BY DEF OthersFiles
  <2> QED BY <2>3, <2>4, <2>5 DEF f
<1>3. MovedFile(d, t, n, e)
  <2>1. e.files = F  BY FilesChanged
  <2> HIDE DEF e
  <2> QED BY <2>1 DEF MovedFile
<1> HIDE DEF F
<1>4. /\ Close(d, e, t) /\ e.rel = d.rel /\ e.rows = d.rows /\ SameHistory(d, e)
      /\ \A u : RowsOf(e, u) = RowsOf(d, u)
  BY <1>2, FilesChanged
<1> HIDE DEF e
<1> QED BY <1>1, <1>3, <1>4

LEMMA RenumberIs ==
    ASSUME NEW c, WellFormed(c), NEW t, NEW above \in SUBSET RowsOf(c, t),
           NEW i \in above, NEW d, Renumbered(c, t, above, d, i - 1)
    PROVE  /\ Renumbered(c, t, above, Renumber(d, t, i), i)
           /\ MovedFile(d, t, c.rows[i].indexNo, Renumber(d, t, i))
           /\ c.rows[i].indexNo \in Int /\ d.rows[i].indexNo = c.rows[i].indexNo
<1> DEFINE x == RenameFile(d, t, i)
           e == Renumber(d, t, i)
           n == c.rows[i].indexNo
<1>1. /\ i \in RowsOf(c, t) /\ c.rows[i] \in Rows /\ i \in Nat \ {0}
      /\ \A j \in RowsOf(c, t) : j \in Nat
  BY RowsFinite
<1>2. n \in Int  BY <1>1 DEF Rows
<1>3. /\ WellFormed(d) /\ i \in RowsOf(d, t) /\ RowsOf(d, t) = RowsOf(c, t)
  BY <1>1 DEF Renumbered, Close
<1>4. d.rows[i].indexNo = n
  BY <1>1 DEF Renumbered, NumberAfter
<1>5. /\ Close(d, x, t) /\ x.rel = d.rel /\ x.rows = d.rows /\ SameHistory(d, x)
      /\ \A u : RowsOf(x, u) = RowsOf(d, u)
      /\ MovedFile(d, t, n, x)
  BY <1>3, <1>4, FileRenamed
<1>6. e = [x EXCEPT !.rows[i].indexNo = n - 1]
  <2>1. e = [x EXCEPT !.rows[i].indexNo = x.rows[i].indexNo - 1]  BY DEF Renumber
  <2> HIDE DEF x, e
  <2> QED BY <2>1, <1>4, <1>5
<1> HIDE DEF e, x, n
<1>7. /\ Close(x, e, t) /\ e.rel = x.rel /\ e.files = x.files /\ SameHistory(x, e)
      /\ \A u : RowsOf(e, u) = RowsOf(x, u)
      /\ e.rows[i].indexNo = n - 1 /\ e.rows[i].attrName = x.rows[i].attrName
      /\ \A j \in DOMAIN x.rows : j # i => e.rows[j] = x.rows[j]
  <2> DEFINE k == n - 1
             y == [x EXCEPT !.rows[i].indexNo = k]
  <2>1. WellFormed(x) /\ i \in RowsOf(x, t) /\ k \in Int  BY <1>2, <1>3, <1>5 DEF Close
  <2>2. e = y  BY <1>6
  <2> HIDE DEF k
  <2>3. /\ Close(x, y, t) /\ y.rel = x.rel /\ y.files = x.files /\ SameHistory(x, y)
        /\ \A u : RowsOf(y, u) = RowsOf(x, u)
        /\ y.rows[i].indexNo = k /\ y.rows[i].attrName = x.rows[i].attrName
        /\ \A j \in DOMAIN x.rows : j # i => y.rows[j] = x.rows[j]
    BY <2>1, RowEdited
  <2> HIDE DEF y
  <2> QED BY <2>2, <2>3 DEF k
<1>8. Close(c, e, t)
  <2>1. Close(c, d, t)  BY DEF Renumbered
  <2>2. Close(c, x, t)  BY <2>1, <1>5, CloseAgain
  <2> QED BY <2>2, <1>7, CloseAgain
<1>9. ASSUME NEW j \in RowsOf(c, t)
      PROVE  /\ e.rows[j].attrName = c.rows[j].attrName
             /\ e.rows[j].indexNo = NumberAfter(c, above, i, j)
  <2>1. /\ d.rows[j].attrName = c.rows[j].attrName
        /\ d.rows[j].indexNo = NumberAfter(c, above, i - 1, j)
    BY DEF Renumbered
  <2>2. CASE j = i
    <3>1. NumberAfter(c, above, i, i) = n - 1  BY <1>1 DEF NumberAfter, n
    <3> QED BY <2>1, <2>2, <3>1, <1>5, <1>7
  <2>3. CASE j # i
    <3>1. j \in DOMAIN d.rows  BY <1>3 DEF RowsOf
    <3>2. j <= i <=> j <= i - 1
      <4>1. i \in Nat /\ j \in Nat /\ j # i  BY <1>1, <2>3
      <4> QED BY <4>1
    <3>3. e.rows[j] = d.rows[j]  BY <2>3, <3>1, <1>5, <1>7
    <3> QED BY <2>1, <3>2, <3>3 DEF NumberAfter
  <2> QED BY <2>2, <2>3
<1>10. Renumbered(c, t, above, e, i)
  <2>1. e.rel = c.rel /\ SameHistory(c, e) /\ RowsOf(e, t) = RowsOf(c, t)
    BY <1>3, <1>5, <1>7 DEF Renumbered, SameHistory
  <2> QED BY <2>1, <1>8, <1>9 DEF Renumbered
<1>11. MovedFile(d, t, n, e)
  BY <1>5, <1>7 DEF MovedFile
<1> QED BY <1>2, <1>4, <1>10, <1>11 DEF e, n

LEMMA OwnStep ==
    ASSUME NEW c, WellFormed(c), NEW t, NEW above \in SUBSET RowsOf(c, t), NEW m,
           Ascending(c, t, above, m),
           NEW i \in above, NEW d, Renumbered(c, t, above, d, i - 1), OwnIndexFiles(d, t)
    PROVE  OwnIndexFiles(Renumber(d, t, i), t)
<1> DEFINE e == Renumber(d, t, i)
           n == c.rows[i].indexNo
<1>1. /\ Renumbered(c, t, above, e, i) /\ n \in Int /\ d.rows[i].indexNo = n
      /\ e.files = IF <<t, n>> \in DOMAIN d.files
                   THEN With(Without(d.files, {<<t, n>>}), <<t, n - 1>>, d.files[<<t, n>>])
                   ELSE d.files
  <2>1. /\ Renumbered(c, t, above, e, i) /\ MovedFile(d, t, n, e)
        /\ n \in Int /\ d.rows[i].indexNo = n
    BY RenumberIs
  <2> HIDE DEF e, n
  <2> QED BY <2>1 DEF MovedFile
<1>2. i \in RowsOf(c, t) /\ RowsOf(d, t) = RowsOf(c, t) /\ RowsOf(e, t) = RowsOf(c, t)
  BY <1>1 DEF Renumbered
<1>3. m \in Nat /\ n > m /\ \A j \in RowsOf(c, t) : j \in Nat /\ c.rows[j].indexNo \in Int
  BY RowsFinite DEF Ascending, n, Rows
<1> HIDE DEF e, n
<1>4. <<t, n>> \in DOMAIN d.files /\ d.files[<<t, n>>] = c.rows[i].attrName
  <2>1. i \in Indexed(d, t)
    BY <1>1, <1>2, <1>3 DEF Indexed
  <2>2. d.rows[i].attrName = c.rows[i].attrName
    BY <1>2 DEF Renumbered
  <2> QED BY <2>1, <2>2, <1>1 DEF OwnIndexFiles
<1>5. e.files = With(Without(d.files, {<<t, n>>}), <<t, n - 1>>, c.rows[i].attrName)
  BY <1>1, <1>4
<1>6. /\ <<t, n - 1>> \in DOMAIN e.files /\ e.files[<<t, n - 1>>] = c.rows[i].attrName
      /\ \A k \in Int : k # n /\ k # n - 1 /\ <<t, k>> \in DOMAIN d.files =>
            <<t, k>> \in DOMAIN e.files /\ e.files[<<t, k>>] = d.files[<<t, k>>]
  BY <1>5, FileNames DEF With, Without
<1>7. ASSUME NEW j \in Indexed(e, t)
      PROVE  /\ <<t, e.rows[j].indexNo>> \in DOMAIN e.files
             /\ e.files[<<t, e.rows[j].indexNo>>] = e.rows[j].attrName
  <2> DEFINE k == e.rows[j].indexNo
  <2>1. j \in RowsOf(c, t) /\ k # -1
    BY <1>2 DEF Indexed
  <2>2. /\ k = NumberAfter(c, above, i, j) /\ e.rows[j].attrName = c.rows[j].attrName
        /\ d.rows[j].indexNo = NumberAfter(c, above, i - 1, j)
        /\ d.rows[j].attrName = c.rows[j].attrName
    BY <2>1, <1>1 DEF Renumbered
  <2>3. i \in Nat /\ j \in Nat /\ c.rows[j].indexNo \in Int
    BY <2>1, <1>2, <1>3
  <2> HIDE DEF k
  <2>4. CASE j = i
    <3>1. k = n - 1
      BY <2>2, <2>3, <2>4, <1>2 DEF NumberAfter, n
    <3> QED BY <3>1, <2>2, <2>4, <1>6 DEF k
  <2>5. CASE j # i
    <3>1. d.rows[j].indexNo = k /\ k \in Int
      BY <2>2, <2>3, <2>5 DEF NumberAfter
    <3>2. k # n /\ k # n - 1
      <4>1. CASE j \in above
        <5>1. CASE j < i
          BY <5>1, <4>1, <2>2, <2>3, <1>3 DEF NumberAfter, Ascending, n
        <5>2. CASE j > i
          BY <5>2, <4>1, <2>2, <2>3, <1>3 DEF NumberAfter, Ascending, n
        <5> QED BY <5>1, <5>2, <2>3, <2>5
      <4>2. CASE j \notin above
        <5>1. k = c.rows[j].indexNo  BY <4>2, <2>2 DEF NumberAfter
        <5>2. j \in Indexed(c, t) \ above  BY <5>1, <4>2, <2>1 DEF Indexed
        <5>3. k < m  BY <5>1, <5>2 DEF Ascending
        <5> QED BY <5>3, <3>1, <1>1, <1>3
      <4> QED BY <4>1, <4>2
    <3>3. j \in Indexed(d, t)
      BY <2>1, <3>1, <1>2 DEF Indexed
    <3>4. <<t, k>> \in DOMAIN d.files /\ d.files[<<t, k>>] = c.rows[j].attrName
      BY <3>1, <3>3, <2>2 DEF OwnIndexFiles
    <3> QED BY <3>1, <3>2, <3>4, <2>2, <1>6 DEF k
  <2> QED BY <2>4, <2>5
<1> QED BY <1>7 DEF OwnIndexFiles, e

LEMMA RowsRenumbered ==
    ASSUME NEW c, WellFormed(c), NEW t, NEW above \in SUBSET RowsOf(c, t), NEW m
    PROVE  \A n \in 0 .. Len(c.rows) :
              LET d == RenumberRows(c, t, above)[n] IN
              /\ Renumbered(c, t, above, d, n)
              /\ Ascending(c, t, above, m) /\ OwnIndexFiles(c, t) => OwnIndexFiles(d, t)
<1> DEFINE M == Len(c.rows)
           g == RenumberRows(c, t, above)
           Own == Ascending(c, t, above, m) /\ OwnIndexFiles(c, t)
<1>1. M \in Nat /\ DOMAIN c.rows = 1 .. M  BY DEF WellFormed
<1>2. /\ g[0] = c
      /\ \A n \in 1 .. M : g[n] = IF n \in above THEN Renumber(g[n - 1], t, n) ELSE g[n - 1]
  BY <1>1, RenumberRowsIs
<1> HIDE DEF M, g
<1> DEFINE Good(n) == Renumbered(c, t, above, g[n], n) /\ (Own => OwnIndexFiles(g[n], t))
           T == {n \in 0 .. M : ~ Good(n)}
<1>3. Good(0)
  <2>1. \A j \in RowsOf(c, t) : NumberAfter(c, above, 0, j) = c.rows[j].indexNo
    BY RowsFinite DEF NumberAfter
  <2> QED BY <1>2, <2>1, CloseToItself DEF Renumbered, SameHistory
<1>4. T = {}
  <2> SUFFICES ASSUME T # {} PROVE FALSE  OBVIOUS
  <2>1. PICK n \in T : \A k \in T : n <= k
    <3>1. T \in SUBSET Nat  BY <1>1
    <3> HIDE DEF T
    <3> QED BY <3>1, LeastNat
  <2>2. n \in 1 .. M /\ n - 1 \in 0 .. M /\ n \in Nat \ {0}
    <3>1. n \in 0 .. M /\ n # 0
      <4> HIDE DEF Good
      <4> QED BY <2>1, <1>3
    <3> QED BY <3>1, <1>1
  <2>3. n - 1 \notin T
    <3>1. n - 1 < n  BY <2>2, <1>1
    <3> HIDE DEF T
    <3> QED BY <2>1, <3>1, <2>2, <1>1
  <2>4. Good(n - 1)
    <3> HIDE DEF Good
    <3> QED BY <2>2, <2>3
  <2>5. Good(n)
    <3>1. CASE n \in above
      <4>1. g[n] = Renumber(g[n - 1], t, n)  BY <3>1, <2>2, <1>2
      <4>2. Renumbered(c, t, above, g[n], n)
        BY <4>1, <3>1, <2>4, RenumberIs
      <4>3. Own => OwnIndexFiles(g[n], t)
        BY <4>1, <3>1, <2>4, OwnStep
      <4> QED BY <4>2, <4>3
    <3>2. CASE n \notin above
      <4>1. g[n] = g[n - 1]  BY <3>2, <2>2, <1>2
      <4>2. \A j \in RowsOf(c, t) : NumberAfter(c, above, n, j) = NumberAfter(c, above, n - 1, j)
        <5>1. \A j \in above : j <= n <=> j <= n - 1
          BY <3>2, <2>2, RowsFinite
        <5> QED BY <5>1 DEF NumberAfter
      <4>3. Renumbered(c, t, above, g[n], n)
        <5> DEFINE d == g[n - 1]
        <5>1. Renumbered(c, t, above, d, n - 1) /\ g[n] = d  BY <2>4, <4>1
        <5> HIDE DEF d
        <5>2. \A j \in RowsOf(c, t) : d.rows[j].indexNo = NumberAfter(c, above, n, j)
          BY <4>2, <5>1 DEF Renumbered
        <5>3. Renumbered(c, t, above, d, n)
          BY <5>1, <5>2 DEF Renumbered
        <5> QED BY <5>1, <5>3
      <4> QED BY <4>1, <4>3, <2>4
    <3> QED BY <3>1, <3>2
  <2> QED
    <3> HIDE DEF Good
    <3> QED BY <2>1, <2>5
<1>5. \A n \in 0 .. M : Good(n)
  <2> HIDE DEF Good
  <2> QED BY <1>4
<1> QED BY <1>5 DEF M, g

----------------------------------------------------------------------------
LEMMA OtherTables ==
    ASSUME NEW c, CatalogInv(c), NEW d, NEW t, Close(c, d, t), t \in Tables => TableInv(d, t)
    PROVE  CatalogInv(d)
<1> SUFFICES ASSUME NEW u \in Tables, u # t PROVE TableInv(d, u)
  BY DEF CatalogInv, Close
<1>1. TableInv(c, u)
  BY DEF CatalogInv
<1>2. /\ u \in DOMAIN d.rel <=> u \in DOMAIN c.rel
      /\ u \in DOMAIN c.rel => d.rel[u] = c.rel[u]
      /\ u \in d.botched <=> u \in c.botched
      /\ u \in d.torn <=> u \in c.torn
      /\ u \in d.scrambled <=> u \in c.scrambled
  BY DEF SameEntries, Close
<1>3. RowsOf(d, u) = RowsOf(c, u) /\ \A i \in RowsOf(c, u) : d.rows[i] = c.rows[i]
  BY DEF SameRows, Close
<1>4. /\ Indexed(d, u) = Indexed(c, u) /\ IndexNosOf(d, u) = IndexNosOf(c, u)
      /\ Indexed(c, u) \subseteq RowsOf(c, u)
  BY <1>3 DEF Indexed, IndexNosOf
<1>5. u \in DOMAIN c.rel /\ Whole(c, u) => Whole(d, u)
  BY <1>2, <1>3 DEF Whole
<1>6. u \in DOMAIN c.rel /\ Numbered(c, u) => Numbered(d, u)
  BY <1>2, <1>3, <1>4 DEF Numbered
<1>7. OwnIndexFiles(c, u) => OwnIndexFiles(d, u)
  <2> SUFFICES ASSUME OwnIndexFiles(c, u), NEW i \in Indexed(c, u)
               PROVE  /\ <<u, d.rows[i].indexNo>> \in DOMAIN d.files
                      /\ d.files[<<u, d.rows[i].indexNo>>] = d.rows[i].attrName
    BY <1>4 DEF OwnIndexFiles
  <2>1. i \in RowsOf(c, u) /\ d.rows[i] = c.rows[i]
    BY <1>3, <1>4
  <2>2. c.rows[i].indexNo \in Int
    BY <2>1, RowsFinite DEF CatalogInv, Rows
  <2> DEFINE n == c.rows[i].indexNo
  <2>3. <<u, n>> \in DOMAIN c.files /\ c.files[<<u, n>>] = c.rows[i].attrName
    BY DEF OwnIndexFiles
  <2> HIDE DEF n
  <2>4. <<u, n>> \in DOMAIN d.files /\ d.files[<<u, n>>] = c.files[<<u, n>>]
    BY <2>2, <2>3 DEF SameFiles, OthersFiles, Close, n
  <2> QED BY <2>1, <2>3, <2>4 DEF n
<1> QED BY <1>1, <1>2, <1>3, <1>5, <1>6, <1>7 DEF TableInv

(* A statement that ends half way in the creation or removal of a table.   *)
LEMMA BotchedInv ==
    ASSUME NEW c, CatalogInv(c), NEW d, NEW t, Close(c, d, t)
    PROVE  CatalogInv(Botched(d, t))
<1> DEFINE e == Botched(d, t)
<1>1. Close(d, e, t) /\ t \in e.botched
  BY Marked DEF Close
<1> HIDE DEF e
<1>2. Close(c, e, t)  BY <1>1, CloseAgain
<1>3. TableInv(e, t)  BY <1>1 DEF TableInv
<1>4. CatalogInv(e)  BY <1>2, <1>3, OtherTables
<1> QED BY <1>4 DEF e

(* One that ends half way in the creation or removal of an index: the      *)
(* attributes are what they were.                                          *)
SameAttributes(c, d, t) ==
    /\ DOMAIN d.rel = DOMAIN c.rel /\ d.rel[t].attrCount = c.rel[t].attrCount
    /\ d.botched = c.botched /\ RowsOf(d, t) = RowsOf(c, t)
    /\ \A i \in RowsOf(c, t) : d.rows[i].attrName = c.rows[i].attrName

LEMMA TornInv ==
    ASSUME NEW c, CatalogInv(c), NEW t \in DOMAIN c.rel, NEW d, Close(c, d, t),
           SameAttributes(c, d, t)
    PROVE  CatalogInv(Torn(d, t))
<1> DEFINE e == Torn(d, t)
<1>1. /\ Close(d, e, t) /\ t \in e.torn /\ e.rel = d.rel /\ e.rows = d.rows
      /\ e.botched = d.botched /\ RowsOf(e, t) = RowsOf(d, t)
  BY Marked DEF Close
<1> HIDE DEF e
<1>2. Close(c, e, t)  BY <1>1, CloseAgain
<1>3. TableInv(e, t)
  <2>1. t \in Tables /\ TableInv(c, t)  BY DEF CatalogInv, WellFormed
  <2>2. Whole(c, t) => Whole(e, t)  BY <1>1 DEF Whole, SameAttributes
  <2> QED BY <1>1, <2>1, <2>2 DEF TableInv, SameAttributes
<1>4. CatalogInv(e)  BY <1>2, <1>3, OtherTables
<1> QED BY <1>4 DEF e

(* What mk_attr_infos lets through.                                        *)
Acceptable(attrs) ==
    /\ attrs \in Seq(Infos)
    /\ \A i, j \in DOMAIN attrs : attrs[i].attrName = attrs[j].attrName => i = j
    /\ \A i, j \in DOMAIN attrs : attrs[i].pk /\ attrs[j].pk => i = j

LEMMA CreatedTable ==
    ASSUME NEW c, NEW t \in Tables, NEW attrs, Acceptable(attrs), NEW d, NEW e,
           Inserted(c, t, attrs, d, Len(attrs)), RowsOf(c, t) = {},
           e.rows = d.rows, RowsOf(e, t) = RowsOf(d, t), t \in DOMAIN e.rel,
           e.rel[t] = [attrCount |-> Len(attrs),
                       indexCount |-> Cardinality({i \in DOMAIN attrs : attrs[i].pk})],
           \A i \in DOMAIN attrs : attrs[i].pk =>
                <<t, 0>> \in DOMAIN e.files /\ e.files[<<t, 0>>] = attrs[i].attrName
    PROVE  TableInv(e, t)
<1> DEFINE n == Len(attrs)
           keys == {i \in DOMAIN attrs : attrs[i].pk}
           k(i) == d.rows[i].offset
<1>1. attrs \in Seq(Infos) /\ n \in Nat /\ DOMAIN attrs = 1 .. n
  BY DEF Acceptable
<1>2. /\ Cardinality(RowsOf(d, t)) = n
      /\ \A i \in RowsOf(d, t) : k(i) \in 1 .. n /\ d.rows[i] = NewRow(t, attrs, k(i))
      /\ \A i, j \in RowsOf(d, t) : k(i) = k(j) => i = j
      /\ \A l \in 1 .. n : \E i \in RowsOf(d, t) : k(i) = l
  BY DEF Inserted
<1> HIDE DEF n, k
<1>3. \A i \in RowsOf(d, t) :
        /\ k(i) \in DOMAIN attrs
        /\ d.rows[i].attrName = attrs[k(i)].attrName
        /\ d.rows[i].indexNo = IF attrs[k(i)].pk THEN 0 ELSE -1
  BY <1>1, <1>2, NewRowIs
<1>4. Whole(e, t)
  <2>1. Cardinality(RowsOf(e, t)) = e.rel[t].attrCount
    BY <1>2 DEF n
  <2>2. \A i, j \in RowsOf(e, t) : e.rows[i].attrName = e.rows[j].attrName => i = j
    BY <1>2, <1>3 DEF Acceptable
  <2> QED BY <2>1, <2>2 DEF Whole
<1>5. \A i \in Indexed(e, t) : /\ i \in RowsOf(d, t) /\ e.rows[i].indexNo = 0
                               /\ attrs[k(i)].pk /\ k(i) \in DOMAIN attrs
                               /\ e.rows[i].attrName = attrs[k(i)].attrName
  BY <1>3 DEF Indexed
<1>6. e.rel[t].indexCount = Cardinality(keys)
  OBVIOUS
<1>7. /\ e.rel[t].indexCount \in Nat
      /\ IndexNosOf(e, t) = 0 .. e.rel[t].indexCount - 1
  <2>1. CASE keys = {}
    <3>1. Cardinality(keys) = 0  BY <2>1, FS_EmptySet
    <3>2. \A i \in RowsOf(e, t) : e.rows[i].indexNo = -1
      BY <2>1, <1>3
    <3>3. IndexNosOf(e, t) = {}  BY <3>2 DEF IndexNosOf
    <3>4. e.rel[t].indexCount = 0  BY <3>1, <1>6
    <3>5. \A q : q = 0 => q \in Nat /\ 0 .. q - 1 = {}  OBVIOUS
    <3> DEFINE q == e.rel[t].indexCount
               N == IndexNosOf(e, t)
    <3> SUFFICES q \in Nat /\ N = 0 .. q - 1  OBVIOUS
    <3>10. q = 0 /\ N = {}  BY <3>3, <3>4
    <3> HIDE DEF q, N
    <3> QED BY <3>10, <3>5
  <2>2. CASE keys # {}
    <3>1. PICK l \in keys : TRUE  BY <2>2
    <3>2. keys = {l}  BY <3>1 DEF Acceptable
    <3>3. Cardinality(keys) = 1  BY <3>2, FS_Singleton
    <3>4. PICK i \in RowsOf(d, t) : k(i) = l
      BY <3>1, <1>1, <1>2
    <3>5. i \in RowsOf(e, t) /\ e.rows[i].indexNo = 0
      BY <3>1, <3>4, <1>3
    <3>6. \A j \in RowsOf(e, t) : e.rows[j].indexNo \in {0, -1}
      BY <1>3
    <3>7. IndexNosOf(e, t) = {0}
      BY <3>5, <3>6 DEF IndexNosOf
    <3>8. e.rel[t].indexCount = 1  BY <3>3, <1>6
    <3>9. \A q : q = 1 => q \in Nat /\ 0 .. q - 1 = {0}  OBVIOUS
    <3> DEFINE q == e.rel[t].indexCount
               N == IndexNosOf(e, t)
    <3> SUFFICES q \in Nat /\ N = 0 .. q - 1  OBVIOUS
    <3>10. q = 1 /\ N = {0}  BY <3>7, <3>8
    <3> HIDE DEF q, N
    <3> QED BY <3>10, <3>9
  <2> QED BY <2>1, <2>2
<1>8. Numbered(e, t)
  <2>1. ASSUME NEW i \in Indexed(e, t), NEW j \in Indexed(e, t) PROVE i = j
    <3>1. k(i) = k(j)  BY <1>5 DEF Acceptable
    <3> QED BY <3>1, <1>2, <1>5
  <2> QED BY <2>1, <1>7 DEF Numbered
<1>9. OwnIndexFiles(e, t)
  BY <1>5 DEF OwnIndexFiles
<1> QED BY <1>4, <1>8, <1>9 DEF TableInv

LEMMA CreateTableKeeps ==
    ASSUME NEW c, CatalogInv(c), NEW t \in Tables, NEW attrs, Acceptable(attrs), NEW tooLarge,
           NEW result \in CreateTable(c, t, attrs, tooLarge)
    PROVE  CatalogInv(result.cat)
<1> DEFINE M == Len(attrs)
           described == InsertRows(c, t, attrs)
           all == described[M]
           keys == {i \in DOMAIN attrs : attrs[i].pk}
           F == With(all.files, <<t>>, "records")
           withFile == [all EXCEPT !.files = F]
           a == attrs[CHOOSE i \in keys : TRUE].attrName
           G == With(withFile.files, <<t, 0>>, a)
           indexed == IF keys = {} THEN withFile ELSE [withFile EXCEPT !.files = G]
           row == [attrCount |-> Len(attrs), indexCount |-> Cardinality(keys)]
           R == With(indexed.rel, t, row)
           created == [indexed EXCEPT !.rel = R]
<1>1. /\ WellFormed(c) /\ attrs \in Seq(Infos) /\ TableInv(c, t) /\ M \in Nat
  BY DEF CatalogInv, Acceptable
<1>2. \/ result.cat = c
      \/ \E n \in 0 .. M : result.cat = Botched(described[n], t)
      \/ result.cat = Botched(withFile, t)
      \/ result.cat = Botched(indexed, t)
      \/ t \notin DOMAIN c.rel /\ result.cat = created
  <2> DEFINE taken == keys # {} /\ <<t, 0>> \in DOMAIN c.files
             halves == {described[n] : n \in 1 .. M}
                          \cup (IF tooLarge THEN {} ELSE {withFile})
                          \cup (IF tooLarge \/ taken THEN {} ELSE {indexed})
             failed == Failed({c} \cup {Botched(half, t) : half \in halves})
             large == Done(Botched(all, t), "RM_RECORDSIZE_TOO_LARGE")
  <2>1. CreateTable(c, t, attrs, tooLarge) =
          {Done(c, "SM_REL_EXISTS")} \cup
          IF t \in DOMAIN c.rel THEN {}
          ELSE failed \cup
               (IF tooLarge THEN {large}
                ELSE IF taken THEN {}
                ELSE Failed({created}) \cup {Done(created, "OK")})
    BY Zenon DEF CreateTable
  <2>2. M \in 0 .. M /\ \A n \in 1 .. M : n \in 0 .. M  BY <1>1
  <2>3. ASSUME result \in failed
        PROVE  result.cat = c \/ \E half \in halves : result.cat = Botched(half, t)
    BY <2>3, FailedIs
  <2>4. \A half \in halves : \/ \E n \in 0 .. M : half = described[n]
                             \/ half = withFile \/ half = indexed
    <3> HIDE DEF described, withFile, indexed, M
    <3> QED BY <2>2
  <2>5. result = large => result.cat = Botched(described[M], t)
    BY DoneIs
  <2>6. result \in Failed({created}) => result.cat = created
    BY FailedIs
  <2> HIDE DEF failed, halves, large, withFile, indexed, created, described, taken, M
  <2>7. \/ result = Done(c, "SM_REL_EXISTS") \/ result \in failed \/ result = large
        \/ t \notin DOMAIN c.rel /\ (result \in Failed({created}) \/ result = Done(created, "OK"))
    BY <2>1
  <2> QED BY <2>2, <2>3, <2>4, <2>5, <2>6, <2>7, DoneIs
<1>3. \A n \in 0 .. M : /\ Inserted(c, t, attrs, described[n], n)
                        /\ Close(c, described[n], t)
  <2>1. \A n \in 0 .. M : Inserted(c, t, attrs, described[n], n)
    BY <1>1, RowsInserted
  <2> HIDE DEF described
  <2> QED BY <2>1 DEF Inserted, Close, SameFiles, OthersFiles, SameEntries
<1>4. /\ Inserted(c, t, attrs, all, M) /\ Close(c, all, t)
      /\ WellFormed(all) /\ all.rel = c.rel /\ all.files = c.files /\ SameHistory(c, all)
  <2>1. M \in 0 .. M  BY <1>1
  <2> HIDE DEF described
  <2>2. Inserted(c, t, attrs, all, M) /\ Close(c, all, t)  BY <2>1, <1>3
  <2> QED BY <2>2 DEF Inserted, SameHistory
<1> HIDE DEF all
<1>5. /\ Close(c, withFile, t) /\ WellFormed(withFile) /\ withFile.rel = c.rel
      /\ withFile.rows = all.rows /\ withFile.files = F /\ SameHistory(c, withFile)
      /\ RowsOf(withFile, t) = RowsOf(all, t)
  <2>1. OthersFiles(all.files, F, t)  BY OwnFile
  <2> HIDE DEF F
  <2>2. /\ Close(all, withFile, t) /\ WellFormed(withFile) /\ withFile.rel = all.rel
        /\ withFile.rows = all.rows /\ withFile.files = F /\ SameHistory(all, withFile)
        /\ RowsOf(withFile, t) = RowsOf(all, t)
    BY <2>1, <1>4, FilesChanged
  <2> HIDE DEF withFile
  <2>3. Close(c, withFile, t)  BY <2>2, <1>4, CloseAgain
  <2> QED BY <2>2, <2>3, <1>4 DEF SameHistory
<1> HIDE DEF withFile, F
<1>6. /\ Close(c, indexed, t) /\ WellFormed(indexed) /\ indexed.rel = c.rel
      /\ indexed.rows = all.rows /\ SameHistory(c, indexed)
      /\ RowsOf(indexed, t) = RowsOf(all, t)
      /\ keys # {} => indexed.files = G
  <2>1. CASE keys = {}
    BY <2>1, <1>5
  <2>2. CASE keys # {}
    <3> DEFINE x == [withFile EXCEPT !.files = G]
    <3>1. OthersFiles(withFile.files, G, t)  BY OwnFile
    <3> HIDE DEF G
    <3>2. /\ Close(withFile, x, t) /\ WellFormed(x) /\ x.rel = withFile.rel
          /\ x.rows = withFile.rows /\ x.files = G /\ SameHistory(withFile, x)
          /\ RowsOf(x, t) = RowsOf(withFile, t)
      BY <3>1, <1>5, FilesChanged
    <3>3. indexed = x  BY <2>2
    <3> HIDE DEF x, indexed
    <3>4. Close(c, x, t)  BY <3>2, <1>5, CloseAgain
    <3> QED BY <3>2, <3>3, <3>4, <1>5 DEF SameHistory
  <2> QED BY <2>1, <2>2
<1> HIDE DEF indexed
<1>7. keys = {} \/ \E l \in DOMAIN attrs : keys = {l}
  BY DEF Acceptable
<1>8. RelationsOk(R) /\ row \in RelRows
  <2>1. Cardinality(keys) \in {0, 1}
    <3> HIDE DEF keys
    <3> QED BY <1>7, FS_EmptySet, FS_Singleton
  <2>2. row \in RelRows
    <3> HIDE DEF keys, M
    <3> QED BY <2>1, <1>1 DEF RelRows, M
  <2>3. RelationsOk(indexed.rel)  BY <1>6 DEF WellFormed, RelationsOk
  <2> HIDE DEF row
  <2> QED BY <2>2, <2>3, Relations
<1>9. /\ Close(c, created, t) /\ created.rel = R /\ created.rows = all.rows
      /\ created.files = indexed.files /\ SameHistory(c, created)
      /\ RowsOf(created, t) = RowsOf(all, t)
  <2>1. \A u : u # t => /\ u \in DOMAIN R <=> u \in DOMAIN indexed.rel
                        /\ u \in DOMAIN indexed.rel => R[u] = indexed.rel[u]
    <3> HIDE DEF row
    <3> QED BY DEF With
  <2> HIDE DEF R
  <2>2. /\ created.rel = R /\ created.rows = indexed.rows
        /\ created.files = indexed.files /\ SameHistory(indexed, created)
        /\ RowsOf(created, t) = RowsOf(indexed, t)
        /\ Close(indexed, created, t)
    BY <2>1, <1>6, <1>8, RelChanged
  <2> HIDE DEF created
  <2>3. Close(c, created, t)  BY <2>2, <1>6, CloseAgain
  <2> QED BY <2>2, <2>3, <1>6 DEF SameHistory
<1> HIDE DEF created, described
<1>10. CASE t \notin DOMAIN c.rel /\ result.cat = created
  <2>1. TableInv(created, t)
    <3>1. CASE t \in c.botched
      BY <3>1, <1>9 DEF TableInv, SameHistory
    <3>2. CASE t \notin c.botched
      <4>1. RowsOf(c, t) = {}
        BY <1>1, <1>10, <3>2 DEF TableInv
      <4>2. t \in DOMAIN created.rel /\ created.rel[t] = row
        <5> HIDE DEF row
        <5> QED BY <1>9 DEF With
      <4>3. \A i \in DOMAIN attrs : attrs[i].pk =>
               /\ <<t, 0>> \in DOMAIN created.files
               /\ created.files[<<t, 0>>] = attrs[i].attrName
        <5>1. ASSUME NEW i \in DOMAIN attrs, attrs[i].pk
              PROVE  /\ <<t, 0>> \in DOMAIN created.files
                     /\ created.files[<<t, 0>>] = attrs[i].attrName
          <6>1. keys = {i} /\ keys # {}  BY <5>1, <1>7
          <6>2. a = attrs[i].attrName  BY <6>1
          <6>3. created.files = G  BY <6>1, <1>6, <1>9
          <6> QED BY <6>2, <6>3 DEF With
        <5> QED BY <5>1
      <4> QED BY <4>1, <4>2, <4>3, <1>4, <1>9, CreatedTable
    <3> QED BY <3>1, <3>2
  <2> QED BY <2>1, <1>9, <1>10, OtherTables
<1> HIDE DEF keys, M
<1> QED BY <1>2, <1>3, <1>5, <1>6, <1>10, BotchedInv

LEMMA DropTableKeeps ==
    ASSUME NEW c, CatalogInv(c), NEW t, NEW result \in DropTable(c, t)
    PROVE  CatalogInv(result.cat)
<1> DEFINE M == Len(c.rows)
           F == Without(c.files, {<<t>>})
           b == [c EXCEPT !.files = F]
           dropped == DropRows(b, t)
           last == dropped[M]
           gone == [last.cat EXCEPT !.botched = last.cat.botched \ {t}]
           clean == [gone EXCEPT !.rel = Without(gone.rel, {t}), !.torn = gone.torn \ {t},
                                 !.scrambled = gone.scrambled \ {t}]
<1>1. /\ WellFormed(c) /\ WellFormed(b) /\ b.rel = c.rel /\ b.rows = c.rows
      /\ SameHistory(c, b) /\ Close(c, b, t)
      /\ \A u : RowsOf(b, u) = RowsOf(c, u)
  <2>1. OthersFiles(c.files, F, t)  BY OwnFile
  <2>2. WellFormed(c)  BY DEF CatalogInv
  <2> HIDE DEF F
  <2> QED BY <2>1, <2>2, FilesChanged
<1>2. \/ result.cat = c
      \/ \E i \in 0 .. M : result.cat = Botched(dropped[i].cat, t)
      \/ \E i \in RowsOf(c, t) : result.cat = Botched(DropIndexFile(dropped[i - 1], t, i).cat, t)
      \/ last.rc = "OK" /\ t \notin DOMAIN c.rel /\ result.cat = gone
      \/ last.rc = "OK" /\ result.cat = clean
  <2> DEFINE halves == {dropped[i].cat : i \in 0 .. M}
                 \cup {DropIndexFile(dropped[i - 1], t, i).cat : i \in RowsOf(c, t)}
             failed == Failed({c} \cup {Botched(half, t) : half \in halves})
  <2>1. DropTable(c, t) =
          IF <<t>> \notin DOMAIN c.files THEN Failed({c})
          ELSE failed \cup
               (IF last.rc # "OK" THEN {}
                ELSE IF t \notin DOMAIN c.rel THEN {Done(gone, "RM_EOF")}
                ELSE Failed({clean}) \cup {Done(clean, "OK")})
    BY Zenon DEF DropTable
  <2>2. ASSUME result \in failed
        PROVE  result.cat = c \/ \E half \in halves : result.cat = Botched(half, t)
    BY <2>2, FailedIs
  <2>3. \A half \in halves : \/ \E i \in 0 .. M : half = dropped[i].cat
                             \/ \E i \in RowsOf(c, t) :
                                   half = DropIndexFile(dropped[i - 1], t, i).cat
    <3> HIDE DEF dropped, M
    <3> QED OBVIOUS
  <2>4. /\ result \in Failed({clean}) => result.cat = clean
        /\ result \in Failed({c}) => result.cat = c
    BY FailedIs
  <2> HIDE DEF failed, halves, dropped, last, gone, clean, M
  <2>5. \/ result \in Failed({c}) \/ result \in failed
        \/ last.rc = "OK" /\ t \notin DOMAIN c.rel /\ result = Done(gone, "RM_EOF")
        \/ last.rc = "OK" /\ (result \in Failed({clean}) \/ result = Done(clean, "OK"))
    BY <2>1
  <2> QED BY <2>2, <2>3, <2>4, <2>5, DoneIs
<1>3. \A i \in 0 .. M : Scanned(b, t, dropped[i], i)
  <2> HIDE DEF b
  <2> QED BY <1>1, RowsDropped
<1> HIDE DEF b, dropped
<1>4. /\ M \in Nat /\ DOMAIN c.rows = 1 .. M
      /\ \A j \in RowsOf(c, t) : j - 1 \in 0 .. M /\ ~ (j > M)
  <2>1. M \in Nat /\ DOMAIN c.rows = 1 .. M  BY <1>1 DEF WellFormed
  <2> QED BY <2>1 DEF RowsOf
<1>5. \A i \in 0 .. M : Close(c, dropped[i].cat, t)
  BY <1>1, <1>3, CloseAgain DEF Scanned
<1>6. \A i \in RowsOf(c, t) : Close(c, DropIndexFile(dropped[i - 1], t, i).cat, t)
  <2> TAKE i \in RowsOf(c, t)
  <2> DEFINE d == dropped[i - 1]
             e == DropIndexFile(d, t, i)
  <2>1. Close(c, d.cat, t)  BY <1>4, <1>5
  <2>2. Close(d.cat, e.cat, t)  BY <2>1, IndexFileDropped DEF Close
  <2> HIDE DEF d, e
  <2>3. Close(c, e.cat, t)  BY <2>1, <2>2, CloseAgain
  <2> QED BY <2>3 DEF d, e
<1> DEFINE x == last.cat
<1>7. /\ Close(c, x, t) /\ x.rel = c.rel /\ SameHistory(c, x)
      /\ last.rc = "OK" => RowsOf(x, t) = {}
  <2>1. M \in 0 .. M  BY <1>4
  <2>2. Scanned(b, t, last, M) /\ Close(c, x, t)  BY <2>1, <1>3, <1>5
  <2> HIDE DEF last, M
  <2>3. last.rc = "OK" => RowsOf(x, t) = {j \in RowsOf(c, t) : j > M}
    BY <2>2, <1>1 DEF Scanned
  <2> QED BY <2>2, <2>3, <1>1, <1>4 DEF Scanned, SameHistory
<1> HIDE DEF x, M
<1>8. /\ WellFormed(x) /\ RelationsOk(c.rel) /\ RelationsOk(Without(c.rel, {t}))
      /\ x = [rel |-> x.rel, rows |-> x.rows, free |-> x.free, files |-> x.files,
              botched |-> x.botched, scrambled |-> x.scrambled, torn |-> x.torn]
  <2>1. RelationsOk(c.rel)  BY <1>1 DEF WellFormed, RelationsOk
  <2>2. WellFormed(x)  BY <1>7 DEF Close
  <2> QED BY <2>1, <2>2, Relations DEF WellFormed
<1> DEFINE w == x.botched \ {t}
<1>9. /\ gone = [rel |-> x.rel, rows |-> x.rows, free |-> x.free, files |-> x.files,
                 botched |-> w, scrambled |-> x.scrambled, torn |-> x.torn]
      /\ clean = [[[gone EXCEPT !.rel = Without(gone.rel, {t})]
                        EXCEPT !.torn = gone.torn \ {t}]
                        EXCEPT !.scrambled = gone.scrambled \ {t}]
  <2>1. gone = [x EXCEPT !.botched = w]  BY DEF x
  <2> HIDE DEF gone
  <2>2. clean = [[[gone EXCEPT !.rel = Without(gone.rel, {t})]
                        EXCEPT !.torn = gone.torn \ {t}]
                        EXCEPT !.scrambled = gone.scrambled \ {t}]
    OBVIOUS
  <2> HIDE DEF w, clean, x
  <2> QED BY <2>1, <2>2, <1>8
<1> HIDE DEF gone, clean
<1>10. \A u : u # t => (u \in w <=> u \in x.botched)
  OBVIOUS
<1> HIDE DEF w
<1>11. /\ Close(x, gone, t) /\ gone.rel = x.rel /\ gone.rows = x.rows /\ gone.files = x.files
       /\ gone.botched = w /\ gone.scrambled = x.scrambled /\ gone.torn = x.torn
       /\ RowsOf(gone, t) = RowsOf(x, t) /\ gone.free = x.free
  <2>1. /\ Close(x, gone, t) /\ gone.rel = x.rel /\ gone.rows = x.rows /\ gone.files = x.files
        /\ gone.botched = w /\ gone.scrambled = x.scrambled /\ gone.torn = x.torn
        /\ RowsOf(gone, t) = RowsOf(x, t)
    BY <1>8, <1>9, <1>10, HistoryChanged
  <2>2. gone.free = x.free  BY <1>9
  <2> QED BY <2>1, <2>2
<1>12. Close(c, gone, t)  BY <1>7, <1>11, CloseAgain
<1>13. CASE last.rc = "OK" /\ t \notin DOMAIN c.rel /\ result.cat = gone
  <2>1. TableInv(gone, t)  BY <1>7, <1>11, <1>13 DEF TableInv
  <2> QED BY <2>1, <1>12, <1>13, OtherTables
<1>14. CASE last.rc = "OK" /\ result.cat = clean
  <2> DEFINE r == Without(c.rel, {t})
             v == x.torn \ {t}
             s == x.scrambled \ {t}
             y == [gone EXCEPT !.rel = r]
             z == [rel |-> y.rel, rows |-> y.rows, free |-> y.free, files |-> y.files,
                   botched |-> y.botched, scrambled |-> s, torn |-> v]
  <2>1. /\ t \notin DOMAIN r
        /\ \A u : u # t => /\ u \in DOMAIN r <=> u \in DOMAIN gone.rel
                           /\ u \in DOMAIN gone.rel => r[u] = gone.rel[u]
    BY <1>7, <1>11 DEF Without
  <2>2. \A u : u # t => /\ u \in v <=> u \in x.torn
                        /\ u \in s <=> u \in x.scrambled
    OBVIOUS
  <2>3. clean = [[y EXCEPT !.torn = v] EXCEPT !.scrambled = s]
    BY <1>7, <1>9, <1>11
  <2>4. RelationsOk(r)  BY <1>8
  <2> HIDE DEF r, v, s
  <2>5. /\ WellFormed(y) /\ y.rel = r /\ y.rows = gone.rows /\ SameHistory(gone, y)
        /\ RowsOf(y, t) = RowsOf(gone, t)
        /\ Close(gone, y, t)
    <3>1. WellFormed(gone)  BY <1>11 DEF Close
    <3> QED BY <3>1, <2>1, <2>4, RelChanged
  <2> HIDE DEF y
  <2>6. clean = z
    BY <2>3, <2>5 DEF WellFormed
  <2>7. \A u : u # t => /\ u \in v <=> u \in y.torn
                        /\ u \in s <=> u \in y.scrambled
    BY <2>2, <2>5, <1>11 DEF SameHistory
  <2>8. /\ Close(y, clean, t) /\ clean.rel = r /\ RowsOf(clean, t) = RowsOf(y, t)
    BY <2>5, <2>6, <2>7, HistoryChanged
  <2> HIDE DEF z
  <2>9. Close(c, clean, t)
    <3>1. Close(c, y, t)  BY <2>5, <1>12, CloseAgain
    <3> QED BY <3>1, <2>8, CloseAgain
  <2>10. TableInv(clean, t)  BY <2>1, <2>5, <2>8, <1>7, <1>11, <1>14 DEF TableInv
  <2> QED BY <2>9, <2>10, <1>14, OtherTables
<1> HIDE DEF last
<1> QED BY <1>2, <1>5, <1>6, <1>13, <1>14, BotchedInv

(* The row of an attribute is one of its table's.                          *)
LEMMA RowFound ==
    ASSUME NEW c, WellFormed(c), NEW t, NEW a, RowOf(c, t, a) # 0
    PROVE  /\ RowOf(c, t, a) \in RowsOf(c, t)
           /\ c.rows[RowOf(c, t, a)].attrName = a
<1> DEFINE found == {i \in RowsOf(c, t) : c.rows[i].attrName = a}
<1>1. found # {}  BY DEF RowOf
<1>2. found \in SUBSET Nat  BY RowsFinite
<1>3. \E i \in found : \A j \in found : i <= j
  <2> HIDE DEF found
  <2> QED BY <1>1, <1>2, LeastNat
<1>4. RowOf(c, t, a) = CHOOSE i \in found : \A j \in found : i <= j
  BY <1>1 DEF RowOf
<1>5. RowOf(c, t, a) \in found
  <2> HIDE DEF found
  <2> QED BY <1>3, <1>4
<1> QED BY <1>5

(* The attributes stay what they are, whatever their index numbers.        *)
LEMMA WholeStays ==
    ASSUME NEW c, NEW d, NEW t, Whole(c, t), RowsOf(d, t) = RowsOf(c, t),
           d.rel[t].attrCount = c.rel[t].attrCount,
           \A i \in RowsOf(c, t) : d.rows[i].attrName = c.rows[i].attrName
    PROVE  Whole(d, t)
  BY DEF Whole

LEMMA CreateIndexKeeps ==
    ASSUME NEW c, CatalogInv(c), NEW t, NEW a, NEW full,
           NEW result \in CreateIndex(c, t, a, full)
    PROVE  CatalogInv(result.cat)
<1> DEFINE row == RowOf(c, t, a)
           n == c.rel[t].indexCount
           file == <<t, n>>
           F == With(c.files, file, a)
           built == [c EXCEPT !.files = F]
           counted == [built EXCEPT !.rel[t].indexCount = built.rel[t].indexCount + 1]
           made == [counted EXCEPT !.rows[row].indexNo = file[2]]
<1>1. \/ result.cat = c
      \/ /\ result.cat \in {built, Torn(counted, t), made}
         /\ t \in DOMAIN c.rel /\ row # 0
         /\ file \notin DOMAIN c.files /\ c.rows[row].indexNo = -1
  <2> DEFINE x == Torn(counted, t)
  <2>1. CreateIndex(c, t, a, full) =
          Failed({c}) \cup
          IF Missing(c, t, a) # "OK" THEN {Done(c, Missing(c, t, a))}
          ELSE IF c.rows[row].indexNo # -1 THEN {Done(c, "SM_INDEX_EXISTS")}
          ELSE IF file \in DOMAIN c.files THEN {}
          ELSE IF <<t>> \notin DOMAIN c.files THEN Failed({built})
          ELSE IF full THEN Failed({built}) \cup {Done(built, "IX_BUCKET_FULL")}
          ELSE Failed({built, x, made}) \cup {Done(made, "OK")}
    BY Zenon DEF CreateIndex
  <2>2. Missing(c, t, a) = "OK" => t \in DOMAIN c.rel /\ row # 0
    BY DEF Missing
  <2> HIDE DEF built, x, made, row, file
  <2>3. \/ \E rc : result = Done(c, rc)
        \/ result \in Failed({c})
        \/ /\ \/ result \in Failed({built, x, made}) \/ result \in Failed({built})
              \/ result = Done(made, "OK") \/ result = Done(built, "IX_BUCKET_FULL")
           /\ t \in DOMAIN c.rel /\ row # 0
           /\ file \notin DOMAIN c.files /\ c.rows[row].indexNo = -1
    BY <2>1, <2>2
  <2>4. /\ result \in Failed({c}) => result.cat = c
        /\ result \in Failed({built}) => result.cat = built
        /\ result \in Failed({built, x, made}) => result.cat \in {built, x, made}
    BY FailedIs
  <2>5. /\ \A rc : result = Done(c, rc) => result.cat = c
        /\ result = Done(made, "OK") => result.cat = made
        /\ result = Done(built, "IX_BUCKET_FULL") => result.cat = built
    BY DoneIs
  <2> QED BY <2>3, <2>4, <2>5 DEF x
<1> SUFFICES ASSUME t \in DOMAIN c.rel, row # 0, file \notin DOMAIN c.files,
                    c.rows[row].indexNo = -1
             PROVE  CatalogInv(built) /\ CatalogInv(Torn(counted, t)) /\ CatalogInv(made)
  <2> DEFINE x == Torn(counted, t)
  <2> HIDE DEF built, x, made, row, file
  <2> QED BY <1>1 DEF x
<1>2. /\ WellFormed(c) /\ t \in Tables /\ TableInv(c, t)
      /\ c.rel[t] \in RelRows /\ n \in Int
  BY DEF CatalogInv, WellFormed, RelRows
<1>3. row \in RowsOf(c, t) /\ c.rows[row].attrName = a
  BY <1>2, RowFound
<1> HIDE DEF row
<1>4. /\ Close(c, built, t) /\ built.rel = c.rel /\ built.rows = c.rows
      /\ built.files = F /\ SameHistory(c, built)
      /\ \A u : RowsOf(built, u) = RowsOf(c, u)
  <2>1. OthersFiles(c.files, F, t)  BY OwnFile
  <2> HIDE DEF F
  <2> QED BY <2>1, <1>2, FilesChanged
<1>5. /\ <<t, n>> \in DOMAIN F /\ F[<<t, n>>] = a
      /\ \A k \in Int : <<t, k>> # <<t, n>> =>
            /\ <<t, k>> \in DOMAIN F <=> <<t, k>> \in DOMAIN c.files
            /\ <<t, k>> \in DOMAIN c.files => F[<<t, k>>] = c.files[<<t, k>>]
  BY DEF With
<1> HIDE DEF built, F
<1>6. /\ Close(c, counted, t) /\ counted.rows = c.rows /\ counted.files = F
      /\ SameHistory(c, counted)
      /\ \A u : RowsOf(counted, u) = RowsOf(c, u)
      /\ DOMAIN counted.rel = DOMAIN c.rel
      /\ counted.rel[t].indexCount = n + 1 /\ counted.rel[t].attrCount = c.rel[t].attrCount
  <2> DEFINE k == built.rel[t].indexCount + 1
  <2>1. k = n + 1 /\ k \in Int  BY <1>2, <1>4
  <2>2. WellFormed(built) /\ t \in DOMAIN built.rel  BY <1>4 DEF Close
  <2>3. counted = [built EXCEPT !.rel[t].indexCount = k]  OBVIOUS
  <2> DEFINE x == [built EXCEPT !.rel[t].indexCount = k]
  <2> HIDE DEF k
  <2>4. /\ Close(built, x, t) /\ x.rows = built.rows /\ x.files = built.files
        /\ SameHistory(built, x)
        /\ \A u : RowsOf(x, u) = RowsOf(built, u)
        /\ DOMAIN x.rel = DOMAIN built.rel
        /\ x.rel[t].indexCount = k /\ x.rel[t].attrCount = built.rel[t].attrCount
    BY <2>1, <2>2, CountChanged
  <2> HIDE DEF x, counted
  <2>5. counted = x  BY <2>3 DEF x
  <2>6. Close(c, counted, t)  BY <2>4, <2>5, <1>4, CloseAgain
  <2> QED BY <2>1, <2>4, <2>5, <2>6, <1>4 DEF SameHistory
<1> HIDE DEF counted
<1>7. \A i \in RowsOf(c, t) : /\ c.rows[i].indexNo \in Int /\ i \in DOMAIN c.rows
                              /\ i \in Nat
  BY <1>2, RowsFinite DEF Rows
<1>8. CatalogInv(built)
  <2>1. TableInv(built, t)
    <3>1. Indexed(built, t) = Indexed(c, t) /\ IndexNosOf(built, t) = IndexNosOf(c, t)
      BY <1>4 DEF Indexed, IndexNosOf
    <3>2. Whole(c, t) => Whole(built, t)  BY <1>4 DEF Whole
    <3>3. Numbered(c, t) => Numbered(built, t)  BY <1>4, <3>1 DEF Numbered
    <3>4. OwnIndexFiles(c, t) => OwnIndexFiles(built, t)
      <4> SUFFICES ASSUME OwnIndexFiles(c, t), NEW i \in Indexed(c, t)
                   PROVE  /\ <<t, c.rows[i].indexNo>> \in DOMAIN F
                          /\ F[<<t, c.rows[i].indexNo>>] = c.rows[i].attrName
        BY <3>1, <1>4 DEF OwnIndexFiles
      <4> DEFINE k == c.rows[i].indexNo
      <4>1. <<t, k>> \in DOMAIN c.files /\ c.files[<<t, k>>] = c.rows[i].attrName /\ k \in Int
        BY <1>7 DEF OwnIndexFiles, Indexed
      <4> HIDE DEF k
      <4>2. <<t, k>> # <<t, n>>  BY <4>1
      <4> QED BY <4>1, <4>2, <1>5 DEF k
    <3> QED BY <3>2, <3>3, <3>4, <1>2, <1>4 DEF TableInv, SameHistory
  <2> QED BY <2>1, <1>4, OtherTables
<1>9. CatalogInv(Torn(counted, t))
  <2>1. SameAttributes(c, counted, t)  BY <1>6 DEF SameAttributes, SameHistory
  <2> QED BY <2>1, <1>6, TornInv
<1>10. /\ Close(c, made, t) /\ made.rel = counted.rel /\ made.files = F
       /\ SameHistory(c, made)
       /\ \A u : RowsOf(made, u) = RowsOf(c, u)
       /\ made.rows[row].indexNo = n /\ made.rows[row].attrName = c.rows[row].attrName
       /\ \A j \in DOMAIN c.rows : j # row => made.rows[j] = c.rows[j]
  <2> DEFINE x == [counted EXCEPT !.rows[row].indexNo = n]
  <2>1. made = x  OBVIOUS
  <2>2. WellFormed(counted) /\ row \in RowsOf(counted, t)  BY <1>3, <1>6 DEF Close
  <2> HIDE DEF n
  <2>3. /\ Close(counted, x, t) /\ x.rel = counted.rel /\ x.files = counted.files
        /\ SameHistory(counted, x)
        /\ \A u : RowsOf(x, u) = RowsOf(counted, u)
        /\ x.rows[row].indexNo = n /\ x.rows[row].attrName = counted.rows[row].attrName
        /\ \A j \in DOMAIN counted.rows : j # row => x.rows[j] = counted.rows[j]
    BY <2>2, <1>2, RowEdited
  <2> HIDE DEF x, made
  <2>4. Close(c, made, t)  BY <2>1, <2>3, <1>6, CloseAgain
  <2> QED BY <2>1, <2>3, <2>4, <1>6 DEF SameHistory
<1> HIDE DEF made
<1>11. TableInv(made, t)
  <2>1. Whole(c, t) => Whole(made, t)
    <3>1. \A i \in RowsOf(c, t) : made.rows[i].attrName = c.rows[i].attrName
      BY <1>10, <1>7
    <3>2. made.rel[t].attrCount = c.rel[t].attrCount  BY <1>6, <1>10
    <3> QED BY <3>1, <3>2, <1>10, WholeStays
  <2>2. /\ n # -1 => Indexed(made, t) = Indexed(c, t) \cup {row}
        /\ row \notin Indexed(c, t)
        /\ \A i \in Indexed(c, t) : made.rows[i] = c.rows[i] /\ c.rows[i].indexNo \in Int
    BY <1>10, <1>3, <1>7 DEF Indexed
  <2>3. Numbered(c, t) => Numbered(made, t)
    <3> SUFFICES ASSUME Numbered(c, t) PROVE Numbered(made, t)  OBVIOUS
    <3>1. /\ n \in Nat /\ IndexNosOf(c, t) = 0 .. n - 1
          /\ \A i, j \in Indexed(c, t) : c.rows[i].indexNo = c.rows[j].indexNo => i = j
      BY DEF Numbered
    <3>2. \A i \in Indexed(c, t) : c.rows[i].indexNo \in IndexNosOf(c, t)
      BY DEF Indexed, IndexNosOf
    <3> HIDE DEF n
    <3>3. \A i \in Indexed(c, t) : made.rows[i].indexNo # n
      BY <3>1, <3>2, <2>2
    <3>4. \A i, j \in Indexed(made, t) : made.rows[i].indexNo = made.rows[j].indexNo => i = j
      BY <3>1, <3>3, <2>2, <1>10
    <3>5. IndexNosOf(made, t) = IndexNosOf(c, t) \cup {n}
      <4>1. \A d : IndexNosOf(d, t) = {d.rows[i].indexNo : i \in Indexed(d, t)}
        BY DEF IndexNosOf, Indexed
      <4>2. Indexed(made, t) = Indexed(c, t) \cup {row}  BY <2>2, <3>1
      <4> QED BY <4>1, <4>2, <2>2, <1>10
    <3>6. IndexNosOf(made, t) = 0 .. (n + 1) - 1
      BY <3>1, <3>5
    <3>7. made.rel[t].indexCount = n + 1  BY <1>6, <1>10
    <3> QED BY <3>1, <3>4, <3>6, <3>7 DEF Numbered
  <2>4. n # -1 /\ OwnIndexFiles(c, t) => OwnIndexFiles(made, t)
    <3> SUFFICES ASSUME n # -1, OwnIndexFiles(c, t), NEW i \in Indexed(made, t)
                 PROVE  /\ <<t, made.rows[i].indexNo>> \in DOMAIN F
                        /\ F[<<t, made.rows[i].indexNo>>] = made.rows[i].attrName
      BY <1>10 DEF OwnIndexFiles
    <3>1. CASE i = row
      BY <3>1, <1>3, <1>5, <1>10
    <3>2. CASE i # row
      <4> DEFINE k == c.rows[i].indexNo
      <4>1. i \in Indexed(c, t) /\ made.rows[i] = c.rows[i] /\ k \in Int
        BY <3>2, <2>2
      <4>2. <<t, k>> \in DOMAIN c.files /\ c.files[<<t, k>>] = c.rows[i].attrName
        BY <4>1 DEF OwnIndexFiles
      <4> HIDE DEF k
      <4>3. <<t, k>> # <<t, n>>  BY <4>2
      <4> QED BY <4>1, <4>2, <4>3, <1>5 DEF k
    <3> QED BY <3>1, <3>2
  <2>5. Numbered(c, t) => n # -1
    BY DEF Numbered
  <2> QED BY <2>1, <2>3, <2>4, <2>5, <1>2, <1>6, <1>10 DEF TableInv, SameHistory
<1>12. CatalogInv(made)
  BY <1>10, <1>11, OtherTables
<1> QED BY <1>8, <1>9, <1>12


(* What DropIndex has done when it begins to renumber the other indexes.   *)
Uncounted(c, t, row) ==
    LET destroyed == WithoutIndex(c, t, row)
    IN  [destroyed EXCEPT !.rel[t].indexCount = destroyed.rel[t].indexCount - 1]
Unnumbered(c, t, row, S) ==
    [Uncounted(c, t, row) EXCEPT !.rows[row].indexNo = -1, !.scrambled = S]

AfterRemoval(c, t, row, S, destroyed, counted, x) ==
    /\ Close(c, destroyed, t) /\ SameAttributes(c, destroyed, t)
    /\ Close(c, counted, t) /\ SameAttributes(c, counted, t)
    /\ Close(c, x, t) /\ SameAttributes(c, x, t)
    /\ x.files = Without(c.files, {<<t, c.rows[row].indexNo>>})
    /\ x.torn = c.torn /\ x.scrambled = S
    /\ x.rel[t].indexCount = c.rel[t].indexCount - 1
    /\ DOMAIN x.rows = DOMAIN c.rows /\ x.rows[row].indexNo = -1
    /\ \A j \in DOMAIN c.rows : j # row => x.rows[j] = c.rows[j]

LEMMA Unindexed ==
    ASSUME NEW c, CatalogInv(c), NEW t \in DOMAIN c.rel, NEW row \in RowsOf(c, t), NEW S,
           \A u : u # t => (u \in S <=> u \in c.scrambled)
    PROVE  AfterRemoval(c, t, row, S, WithoutIndex(c, t, row), Uncounted(c, t, row),
                        Unnumbered(c, t, row, S))
<1> DEFINE F == Without(c.files, {<<t, c.rows[row].indexNo>>})
           destroyed == WithoutIndex(c, t, row)
           n == c.rel[t].indexCount - 1
           counted == [destroyed EXCEPT !.rel[t].indexCount = destroyed.rel[t].indexCount - 1]
           x == [counted EXCEPT !.rows[row].indexNo = -1, !.scrambled = S]
<1>1. WellFormed(c) /\ n \in Int
  BY DEF CatalogInv, WellFormed, RelRows
<1>2. /\ Close(c, destroyed, t) /\ destroyed.rel = c.rel /\ destroyed.rows = c.rows
      /\ destroyed.files = F /\ SameHistory(c, destroyed)
      /\ RowsOf(destroyed, t) = RowsOf(c, t)
  <2> DEFINE y == [c EXCEPT !.files = F]
  <2>1. destroyed = y  BY DEF WithoutIndex
  <2>2. OthersFiles(c.files, F, t)  BY OwnFile
  <2> HIDE DEF F
  <2>3. /\ Close(c, y, t) /\ y.rel = c.rel /\ y.rows = c.rows /\ y.files = F
        /\ SameHistory(c, y) /\ RowsOf(y, t) = RowsOf(c, t)
    BY <2>2, <1>1, FilesChanged
  <2> HIDE DEF y, destroyed
  <2> QED BY <2>1, <2>3
<1> HIDE DEF destroyed, F
<1>3. /\ Close(c, counted, t) /\ counted.rows = c.rows /\ counted.files = F
      /\ SameHistory(c, counted) /\ RowsOf(counted, t) = RowsOf(c, t)
      /\ DOMAIN counted.rel = DOMAIN c.rel
      /\ counted.rel[t].indexCount = n /\ counted.rel[t].attrCount = c.rel[t].attrCount
  <2> DEFINE k == destroyed.rel[t].indexCount - 1
             y == [destroyed EXCEPT !.rel[t].indexCount = k]
  <2>1. k = n /\ k \in Int  BY <1>1, <1>2
  <2>2. WellFormed(destroyed) /\ t \in DOMAIN destroyed.rel  BY <1>2 DEF Close
  <2>3. counted = y  OBVIOUS
  <2> HIDE DEF k
  <2>4. /\ Close(destroyed, y, t) /\ y.rows = destroyed.rows /\ y.files = destroyed.files
        /\ SameHistory(destroyed, y) /\ RowsOf(y, t) = RowsOf(destroyed, t)
        /\ DOMAIN y.rel = DOMAIN destroyed.rel
        /\ y.rel[t].indexCount = k /\ y.rel[t].attrCount = destroyed.rel[t].attrCount
    BY <2>1, <2>2, CountChanged
  <2> HIDE DEF y, counted
  <2>5. Close(c, counted, t)  BY <2>3, <2>4, <1>2, CloseAgain
  <2> QED BY <2>1, <2>3, <2>4, <2>5, <1>2 DEF SameHistory
<1> HIDE DEF n
<1> DEFINE e == [counted EXCEPT !.rows[row].indexNo = -1]
<1>4. x = [e EXCEPT !.scrambled = S]
  OBVIOUS
<1> HIDE DEF counted, x
<1>5. /\ Close(c, e, t) /\ e.rel = counted.rel /\ e.files = F /\ SameHistory(c, e)
      /\ RowsOf(e, t) = RowsOf(c, t) /\ DOMAIN e.rows = DOMAIN c.rows
      /\ e.rows[row].indexNo = -1 /\ e.rows[row].attrName = c.rows[row].attrName
      /\ \A j \in DOMAIN c.rows : j # row => e.rows[j] = c.rows[j]
  <2>1. WellFormed(counted) /\ row \in RowsOf(counted, t) /\ -1 \in Int
    BY <1>3 DEF Close
  <2>2. /\ Close(counted, e, t) /\ e.rel = counted.rel /\ e.files = counted.files
        /\ SameHistory(counted, e)
        /\ RowsOf(e, t) = RowsOf(counted, t) /\ DOMAIN e.rows = DOMAIN counted.rows
        /\ e.rows[row].indexNo = -1 /\ e.rows[row].attrName = counted.rows[row].attrName
        /\ \A j \in DOMAIN counted.rows : j # row => e.rows[j] = counted.rows[j]
    BY <2>1, RowEdited
  <2> HIDE DEF e
  <2>3. Close(c, e, t)  BY <2>2, <1>3, CloseAgain
  <2> QED BY <2>2, <2>3, <1>3 DEF SameHistory
<1> HIDE DEF e
<1>6. x = [rel |-> e.rel, rows |-> e.rows, free |-> e.free, files |-> e.files,
           botched |-> e.botched, scrambled |-> S, torn |-> e.torn]
  BY <1>4, <1>5 DEF Close, WellFormed
<1>7. \A u : u # t => (u \in S <=> u \in e.scrambled)
  BY <1>5 DEF SameHistory
<1>8. /\ Close(e, x, t) /\ x.rel = e.rel /\ x.rows = e.rows /\ x.files = e.files
      /\ x.botched = e.botched /\ x.scrambled = S /\ x.torn = e.torn
      /\ RowsOf(x, t) = RowsOf(e, t)
  <2>1. WellFormed(e)  BY <1>5 DEF Close
  <2> QED BY <2>1, <1>6, <1>7, HistoryChanged
<1>9. Close(c, x, t)
  BY <1>5, <1>8, CloseAgain
<1>10. \A j \in RowsOf(c, t) : j \in DOMAIN c.rows
  BY DEF RowsOf
<1>11. /\ SameAttributes(c, destroyed, t) /\ SameAttributes(c, counted, t)
       /\ SameAttributes(c, x, t)
  BY <1>2, <1>3, <1>5, <1>8, <1>10 DEF SameAttributes, SameHistory
<1>12. /\ x.files = F /\ x.torn = c.torn /\ x.scrambled = S
       /\ x.rel[t].indexCount = n
       /\ DOMAIN x.rows = DOMAIN c.rows /\ x.rows[row].indexNo = -1
       /\ \A j \in DOMAIN c.rows : j # row => x.rows[j] = c.rows[j]
  BY <1>3, <1>5, <1>8 DEF SameHistory
<1>13. /\ WithoutIndex(c, t, row) = destroyed /\ Uncounted(c, t, row) = counted
       /\ Unnumbered(c, t, row, S) = x
  BY DEF Uncounted, Unnumbered, destroyed, counted, x
<1>14. AfterRemoval(c, t, row, S, destroyed, counted, x)
  BY <1>2, <1>3, <1>9, <1>11, <1>12 DEF AfterRemoval, n, F
<1> HIDE DEF destroyed, counted, x
<1> QED BY <1>13, <1>14

LEMMA DropIndexKeeps ==
    ASSUME NEW c, CatalogInv(c), NEW t, NEW a, NEW result \in DropIndex(c, t, a)
    PROVE  CatalogInv(result.cat)
<1> DEFINE row == RowOf(c, t, a)
           m == c.rows[row].indexNo
           file == <<t, m>>
           F == Without(c.files, {file})
           above == {i \in RowsOf(c, t) : c.rows[i].indexNo > m}
           ascend == \A i, j \in above : i < j => c.rows[i].indexNo < c.rows[j].indexNo
           destroyed == WithoutIndex(c, t, row)
           counted == [destroyed EXCEPT !.rel[t].indexCount = destroyed.rel[t].indexCount - 1]
           x == [counted EXCEPT !.rows[row].indexNo = -1,
                                !.scrambled = IF ascend THEN counted.scrambled
                                              ELSE counted.scrambled \cup {t}]
           renumbered == RenumberRows(x, t, above)
           M == Len(c.rows)
           d == renumbered[M]
<1>1. \/ result.cat = c
      \/ /\ t \in DOMAIN c.rel /\ row # 0 /\ m # -1
         /\ \/ result.cat = d
            \/ result.cat = Torn(destroyed, t) \/ result.cat = Torn(counted, t)
            \/ \E i \in above : \/ result.cat = Torn(renumbered[i - 1], t)
                                \/ result.cat = Torn(RenameFile(renumbered[i - 1], t, i), t)
  <2> DEFINE halves == {destroyed, counted} \cup {renumbered[i - 1] : i \in above}
                         \cup {RenameFile(renumbered[i - 1], t, i) : i \in above}
             failed == Failed({Torn(half, t) : half \in halves} \cup {d})
  <2>1. DropIndex(c, t, a) =
          Failed({c}) \cup
          IF Missing(c, t, a) # "OK" THEN {Done(c, Missing(c, t, a))}
          ELSE IF m = -1 THEN {Done(c, "SM_INDEX_NOTEXIST")}
          ELSE IF file \notin DOMAIN c.files THEN {}
          ELSE failed \cup {Done(d, "OK")}
    BY Zenon DEF DropIndex
  <2>2. Missing(c, t, a) = "OK" => t \in DOMAIN c.rel /\ row # 0
    BY DEF Missing
  <2>3. ASSUME result \in failed
        PROVE  result.cat = d \/ \E half \in halves : result.cat = Torn(half, t)
    BY <2>3, FailedIs
  <2>4. \A half \in halves : \/ half = destroyed \/ half = counted
                             \/ \E i \in above : \/ half = renumbered[i - 1]
                                                 \/ half = RenameFile(renumbered[i - 1], t, i)
    <3> HIDE DEF renumbered, destroyed, counted, above
    <3> QED OBVIOUS
  <2>5. /\ result \in Failed({c}) => result.cat = c
        /\ \A rc : result = Done(c, rc) => result.cat = c
    BY FailedIs, DoneIs
  <2> HIDE DEF d
  <2>6. result = Done(d, "OK") => result.cat = d
    BY DoneIs
  <2> HIDE DEF failed, halves, row, file, m, destroyed, counted, renumbered, above
  <2>7. \/ result \in Failed({c}) \/ \E rc : result = Done(c, rc)
        \/ /\ t \in DOMAIN c.rel /\ row # 0 /\ m # -1
           /\ result \in failed \/ result = Done(d, "OK")
    BY <2>1, <2>2
  <2> QED BY <2>3, <2>4, <2>5, <2>6, <2>7
<1>2. CASE result.cat = c
  BY <1>2
<1>3. SUFFICES ASSUME t \in DOMAIN c.rel, row # 0, m # -1
      PROVE  /\ CatalogInv(d)
             /\ CatalogInv(Torn(destroyed, t)) /\ CatalogInv(Torn(counted, t))
             /\ \A i \in above : /\ CatalogInv(Torn(renumbered[i - 1], t))
                                 /\ CatalogInv(Torn(RenameFile(renumbered[i - 1], t, i), t))
  <2> HIDE DEF d, row, m, destroyed, counted, renumbered, above
  <2> QED BY <1>1, <1>2, <1>3
<1>4. WellFormed(c) /\ t \in Tables /\ TableInv(c, t)
  <2> HIDE DEF d, row, m, destroyed, counted, renumbered, above
  <2> QED BY <1>3 DEF CatalogInv, WellFormed
<1>5. row \in RowsOf(c, t)
  <2> HIDE DEF d, m, destroyed, counted, renumbered, above
  <2> QED BY <1>3, <1>4, RowFound
<1> HIDE DEF row
<1> DEFINE S == IF ascend THEN counted.scrambled ELSE counted.scrambled \cup {t}
<1>6. /\ counted.scrambled = c.scrambled
      /\ \A u : u # t => (u \in S <=> u \in c.scrambled)
  <2>1. counted.scrambled = c.scrambled
    BY <1>4 DEF WithoutIndex, WellFormed
  <2> HIDE DEF counted, ascend
  <2> QED BY <2>1
<1>7. /\ Close(c, destroyed, t) /\ SameAttributes(c, destroyed, t)
      /\ Close(c, counted, t) /\ SameAttributes(c, counted, t)
      /\ Close(c, x, t) /\ SameAttributes(c, x, t)
      /\ x.files = F /\ x.torn = c.torn /\ x.scrambled = S
      /\ x.rel[t].indexCount = c.rel[t].indexCount - 1
      /\ DOMAIN x.rows = DOMAIN c.rows /\ x.rows[row].indexNo = -1
      /\ \A j \in DOMAIN c.rows : j # row => x.rows[j] = c.rows[j]
  <2>1. /\ destroyed = WithoutIndex(c, t, row) /\ counted = Uncounted(c, t, row)
        /\ x = Unnumbered(c, t, row, S)
    BY DEF Uncounted, Unnumbered
  <2>2. F = Without(c.files, {<<t, c.rows[row].indexNo>>})
    OBVIOUS
  <2> HIDE DEF S, F, x, destroyed, counted
  <2>3. \A u : u # t => (u \in S <=> u \in c.scrambled)  BY <1>6
  <2>4. AfterRemoval(c, t, row, S, WithoutIndex(c, t, row), Uncounted(c, t, row),
                     Unnumbered(c, t, row, S))
    BY <1>3, <1>5, <2>3, Unindexed
  <2>5. AfterRemoval(c, t, row, S, destroyed, counted, x)
    BY <2>1, <2>4
  <2> QED BY <2>2, <2>5 DEF AfterRemoval
<1> HIDE DEF x, destroyed
<1>8. S = IF ascend THEN c.scrambled ELSE c.scrambled \cup {t}
  <2> HIDE DEF counted, ascend
  <2> QED BY <1>6
<1> HIDE DEF counted, S
<1>9. CatalogInv(Torn(destroyed, t)) /\ CatalogInv(Torn(counted, t))
  BY <1>3, <1>7, TornInv
<1>10. /\ \A i \in RowsOf(c, t) : /\ c.rows[i].indexNo \in Int /\ i \in DOMAIN c.rows
                                  /\ i \in 1 .. M /\ i \in Nat
       /\ m \in Int /\ M \in Nat
  BY <1>4, <1>5, RowsFinite DEF Rows, WellFormed
<1>11. /\ above \in SUBSET RowsOf(x, t) /\ above \in SUBSET RowsOf(c, t) /\ row \notin above
       /\ \A j \in RowsOf(c, t) : j \in above <=> c.rows[j].indexNo > m
       /\ RowsOf(x, t) = RowsOf(c, t)
  BY <1>7, <1>10 DEF SameAttributes
<1> HIDE DEF above, file, m
<1>12. WellFormed(x) /\ Len(x.rows) = M
  <2>1. WellFormed(x)  BY <1>7 DEF Close
  <2>2. /\ Len(x.rows) \in Nat /\ DOMAIN x.rows = 1 .. Len(x.rows)
        /\ M \in Nat /\ DOMAIN c.rows = 1 .. M
    BY <2>1, <1>4 DEF WellFormed
  <2> HIDE DEF M
  <2>3. 1 .. Len(x.rows) = 1 .. M  BY <2>2, <1>7
  <2>4. \A p, q \in Nat : 1 .. p = 1 .. q => p = q
    <3> SUFFICES ASSUME NEW p \in Nat, NEW q \in Nat, 1 .. p = 1 .. q PROVE p = q  OBVIOUS
    <3>1. (p \in 1 .. p <=> p \in 1 .. q) /\ (q \in 1 .. p <=> q \in 1 .. q)  OBVIOUS
    <3> QED BY <3>1
  <2> QED BY <2>1, <2>2, <2>3, <2>4
<1>13. \A i \in 0 .. M :
         /\ Renumbered(x, t, above, renumbered[i], i)
         /\ Ascending(x, t, above, m) /\ OwnIndexFiles(x, t) => OwnIndexFiles(renumbered[i], t)
  BY <1>11, <1>12, RowsRenumbered
<1> HIDE DEF renumbered
<1>14. \A i \in 0 .. M : /\ Close(c, renumbered[i], t)
                         /\ SameAttributes(c, renumbered[i], t)
  <2> TAKE i \in 0 .. M
  <2> DEFINE e == renumbered[i]
  <2>1. Renumbered(x, t, above, e, i)  BY <1>13
  <2> HIDE DEF e
  <2>2. Close(c, e, t)  BY <2>1, <1>7, CloseAgain DEF Renumbered
  <2>3. SameAttributes(c, e, t)
    BY <2>1, <1>7, <1>11 DEF Renumbered, SameAttributes, SameHistory
  <2> QED BY <2>2, <2>3 DEF e
<1>15. ASSUME NEW i \in above
       PROVE  /\ CatalogInv(Torn(renumbered[i - 1], t))
              /\ CatalogInv(Torn(RenameFile(renumbered[i - 1], t, i), t))
  <2> DEFINE e == renumbered[i - 1]
             f == RenameFile(e, t, i)
  <2>1. i - 1 \in 0 .. M  BY <1>10, <1>11
  <2>2. Close(c, e, t) /\ SameAttributes(c, e, t)  BY <2>1, <1>14
  <2> HIDE DEF e
  <2>3. Close(e, f, t) /\ f.rel = e.rel /\ f.rows = e.rows /\ SameHistory(e, f)
        /\ RowsOf(f, t) = RowsOf(e, t)
    BY <2>2, FileRenamed DEF Close
  <2> HIDE DEF f
  <2>4. Close(c, f, t)  BY <2>2, <2>3, CloseAgain
  <2>5. SameAttributes(c, f, t)  BY <2>2, <2>3 DEF SameAttributes, SameHistory
  <2>6. CatalogInv(Torn(e, t)) /\ CatalogInv(Torn(f, t))
    BY <2>2, <2>4, <2>5, <1>3, TornInv
  <2> QED BY <2>6 DEF e, f
<1>16. /\ Close(c, d, t) /\ d.rel = x.rel /\ d.botched = c.botched /\ d.scrambled = S
       /\ d.torn = c.torn /\ RowsOf(d, t) = RowsOf(c, t)
       /\ d.rel[t].attrCount = c.rel[t].attrCount /\ DOMAIN d.rel = DOMAIN c.rel
       /\ Ascending(x, t, above, m) /\ OwnIndexFiles(x, t) => OwnIndexFiles(d, t)
       /\ \A j \in RowsOf(c, t) :
            /\ d.rows[j].attrName = c.rows[j].attrName
            /\ d.rows[j].indexNo = NumberAfter(x, above, M, j)
  <2>1. M \in 0 .. M  BY <1>10
  <2>2. /\ Renumbered(x, t, above, d, M) /\ Close(c, d, t) /\ SameAttributes(c, d, t)
        /\ Ascending(x, t, above, m) /\ OwnIndexFiles(x, t) => OwnIndexFiles(d, t)
    BY <2>1, <1>13, <1>14
  <2> HIDE DEF d, M
  <2> QED BY <2>2, <1>7, <1>11 DEF Renumbered, SameAttributes, SameHistory
<1> HIDE DEF d
<1>17. \A j \in RowsOf(c, t) :
          /\ j # row => d.rows[j].indexNo = IF c.rows[j].indexNo > m THEN c.rows[j].indexNo - 1
                                            ELSE c.rows[j].indexNo
          /\ j = row => d.rows[j].indexNo = -1
  <2> TAKE j \in RowsOf(c, t)
  <2>1. j \in DOMAIN c.rows /\ j <= M  BY <1>10
  <2>2. d.rows[j].indexNo = IF j \in above THEN x.rows[j].indexNo - 1 ELSE x.rows[j].indexNo
    BY <2>1, <1>16 DEF NumberAfter
  <2>3. CASE j = row
    BY <2>2, <2>3, <1>7, <1>11
  <2>4. CASE j # row
    <3>1. x.rows[j] = c.rows[j]  BY <2>1, <2>4, <1>7
    <3> QED BY <3>1, <2>2, <2>4, <1>11
  <2> QED BY <2>3, <2>4
<1>18. TableInv(d, t)
  <2> SUFFICES ASSUME t \notin c.botched
               PROVE  /\ Whole(d, t)
                      /\ t \notin c.torn => Numbered(d, t)
                      /\ t \notin c.torn /\ t \notin S => OwnIndexFiles(d, t)
    BY <1>3, <1>16 DEF TableInv
  <2>1. /\ Whole(c, t)
        /\ t \notin c.torn => Numbered(c, t)
        /\ t \notin c.torn /\ t \notin c.scrambled => OwnIndexFiles(c, t)
    BY <1>3, <1>4 DEF TableInv
  <2>2. Whole(d, t)
    BY <2>1, <1>16, WholeStays
  <2> SUFFICES ASSUME t \notin c.torn
               PROVE  Numbered(d, t) /\ (t \notin S => OwnIndexFiles(d, t))
    BY <2>2
  <2> DEFINE n == c.rel[t].indexCount
  <2>3. /\ n \in Nat /\ IndexNosOf(c, t) = 0 .. n - 1
        /\ \A i, j \in Indexed(c, t) : c.rows[i].indexNo = c.rows[j].indexNo => i = j
    BY <2>1 DEF Numbered
  <2>4. /\ row \in Indexed(c, t)
        /\ \A i \in Indexed(c, t) : /\ i \in RowsOf(c, t)
                                    /\ c.rows[i].indexNo \in IndexNosOf(c, t)
    BY <1>3, <1>5 DEF Indexed, IndexNosOf, m
  <2> HIDE DEF n
  <2>5. /\ m \in 0 .. n - 1 /\ m \in Nat
        /\ \A i \in Indexed(c, t) : c.rows[i].indexNo \in 0 .. n - 1
        /\ \A i \in Indexed(c, t) : i # row => c.rows[i].indexNo # m
    BY <2>3, <2>4 DEF m
  <2>6. Indexed(d, t) = Indexed(c, t) \ {row}
    <3>1. ASSUME NEW j \in RowsOf(c, t), j # row
          PROVE  d.rows[j].indexNo # -1 <=> c.rows[j].indexNo # -1
      <4>1. CASE j \in Indexed(c, t)
        BY <4>1, <3>1, <2>3, <2>5, <1>17 DEF Indexed
      <4>2. CASE j \notin Indexed(c, t)
        BY <4>2, <3>1, <2>5, <1>17 DEF Indexed
      <4> QED BY <4>1, <4>2
    <3>2. d.rows[row].indexNo = -1  BY <1>5, <1>17
    <3> QED BY <3>1, <3>2, <1>16 DEF Indexed
  <2>7. \A j \in Indexed(d, t) :
          /\ j \in Indexed(c, t) /\ j # row /\ c.rows[j].indexNo \in 0 .. n - 1
          /\ c.rows[j].indexNo # m
          /\ d.rows[j].indexNo = IF c.rows[j].indexNo > m THEN c.rows[j].indexNo - 1
                                 ELSE c.rows[j].indexNo
          /\ d.rows[j].attrName = c.rows[j].attrName
    BY <2>4, <2>5, <2>6, <1>16, <1>17
  <2>8. Numbered(d, t)
    <3>1. \A i, j \in Indexed(d, t) : d.rows[i].indexNo = d.rows[j].indexNo => i = j
      <4> TAKE i, j \in Indexed(d, t)
      <4>1. /\ c.rows[i].indexNo \in Int /\ c.rows[j].indexNo \in Int
            /\ c.rows[i].indexNo # m /\ c.rows[j].indexNo # m
        BY <2>7, <2>3
      <4>2. d.rows[i].indexNo = d.rows[j].indexNo => c.rows[i].indexNo = c.rows[j].indexNo
        BY <4>1, <2>5, <2>7
      <4> QED BY <4>2, <2>3, <2>7
    <3>2. \A e : IndexNosOf(e, t) = {e.rows[i].indexNo : i \in Indexed(e, t)}
      BY DEF IndexNosOf, Indexed
    <3>3. ASSUME NEW p \in IndexNosOf(d, t) PROVE p \in 0 .. (n - 1) - 1
      <4>1. PICK j \in Indexed(d, t) : p = d.rows[j].indexNo  BY <3>2
      <4> QED BY <4>1, <2>3, <2>5, <2>7
    <3>4. ASSUME NEW p \in 0 .. (n - 1) - 1 PROVE p \in IndexNosOf(d, t)
      <4> DEFINE q == IF p < m THEN p ELSE p + 1
      <4>1. q \in 0 .. n - 1 /\ q # m /\ (q > m => p = q - 1) /\ (~(q > m) => p = q)
        BY <2>3, <2>5
      <4> HIDE DEF q
      <4>2. PICK j \in Indexed(c, t) : c.rows[j].indexNo = q
        <5>1. IndexNosOf(c, t) = {c.rows[i].indexNo : i \in Indexed(c, t)}  BY <3>2
        <5>2. q \in IndexNosOf(c, t)  BY <4>1, <2>3
        <5> QED BY <5>1, <5>2
      <4>3. j \in Indexed(d, t)
        BY <4>1, <4>2, <2>6 DEF m
      <4>4. d.rows[j].indexNo = p
        BY <4>1, <4>2, <4>3, <2>7
      <4> QED BY <4>3, <4>4, <3>2
    <3>5. IndexNosOf(d, t) = 0 .. (n - 1) - 1
      BY <3>3, <3>4
    <3>6. d.rel[t].indexCount = n - 1 /\ n - 1 \in Nat
      BY <2>3, <2>5, <1>7, <1>16 DEF n
    <3> QED BY <3>1, <3>5, <3>6 DEF Numbered
  <2>9. t \notin S => OwnIndexFiles(d, t)
    <3> SUFFICES ASSUME t \notin S PROVE Ascending(x, t, above, m) /\ OwnIndexFiles(x, t)
      BY <1>16
    <3>1. ascend /\ t \notin c.scrambled
      BY <1>8
    <3>2. \A j \in RowsOf(c, t) : j # row => x.rows[j] = c.rows[j]
      BY <1>7, <1>10
    <3>3. Indexed(x, t) = Indexed(c, t) \ {row}
      BY <3>2, <1>7, <1>11 DEF Indexed
    <3>4. \A j \in Indexed(x, t) :
            /\ j \in Indexed(c, t) /\ j \in RowsOf(c, t) /\ x.rows[j] = c.rows[j]
            /\ c.rows[j].indexNo \in 0 .. n - 1 /\ c.rows[j].indexNo # m
      BY <3>2, <3>3, <2>4, <2>5
    <3>5. \A j \in above : j \in RowsOf(c, t) /\ c.rows[j].indexNo > m /\ x.rows[j] = c.rows[j]
      BY <3>2, <1>11
    <3>6. Ascending(x, t, above, m)
      <4>1. \A j \in above : x.rows[j].indexNo > m  BY <3>5
      <4>2. \A j \in Indexed(x, t) \ above : x.rows[j].indexNo < m
        BY <3>4, <2>3, <2>5, <1>11
      <4>3. \A j, k \in Indexed(x, t) : x.rows[j].indexNo = x.rows[k].indexNo => j = k
        BY <3>4, <2>3
      <4>4. \A j, k \in above : j < k => x.rows[j].indexNo < x.rows[k].indexNo
        BY <3>1, <3>5
      <4>5. \A j \in Indexed(x, t) : x.rows[j].indexNo >= 0
        BY <3>4, <2>3
      <4> QED BY <4>1, <4>2, <4>3, <4>4, <4>5, <2>5 DEF Ascending
    <3>7. OwnIndexFiles(x, t)
      <4> SUFFICES ASSUME NEW j \in Indexed(x, t)
                   PROVE  /\ <<t, c.rows[j].indexNo>> \in DOMAIN F
                          /\ F[<<t, c.rows[j].indexNo>>] = c.rows[j].attrName
        BY <3>4, <1>7 DEF OwnIndexFiles
      <4> DEFINE k == c.rows[j].indexNo
      <4>1. /\ <<t, k>> \in DOMAIN c.files /\ c.files[<<t, k>>] = c.rows[j].attrName /\ k # m
        BY <3>1, <3>4, <2>1 DEF OwnIndexFiles
      <4> HIDE DEF k
      <4>2. <<t, k>> # file  BY <4>1 DEF file
      <4>3. <<t, k>> \in DOMAIN F /\ F[<<t, k>>] = c.files[<<t, k>>]
        BY <4>1, <4>2 DEF Without
      <4> QED BY <4>1, <4>3 DEF k
    <3> QED BY <3>6, <3>7
  <2> QED BY <2>8, <2>9
<1> QED BY <1>9, <1>15, <1>16, <1>18, OtherTables

----------------------------------------------------------------------------
LEMMA AcceptedInfos ==
    ASSUME NEW list \in Seq(Infos), mk_attr_infos(list).rc = "OK"
    PROVE  Acceptable(mk_attr_infos(list).cat)
<1> DEFINE attrs == Kept(list, {e \in Range(list) : ~e.pk})
           keys == Kept(list, {e \in Range(list) : e.pk})
           IsKey(a) == keys # <<>> /\ a = keys[1].attrName
           twice == \E i, j \in DOMAIN attrs : i < j /\ attrs[i].attrName = attrs[j].attrName
           none == keys # <<>> /\ \A i \in DOMAIN attrs : ~IsKey(attrs[i].attrName)
           marked == [i \in DOMAIN attrs |-> [attrs[i] EXCEPT !.pk = IsKey(attrs[i].attrName)]]
           result == mk_attr_infos(list)
<1>1. result = CASE Len(keys) > 1 -> Done(<<>>, "E_MULTIPLEPRIMARYKEY")
                 [] twice -> Done(<<>>, "E_DUPLICATEATTR")
                 [] none -> Done(<<>>, "E_PRIMARYKEYNOTFOUND")
                 [] OTHER -> Done(marked, "OK")
  BY Zenon DEF mk_attr_infos
<1>2. result.cat = marked /\ ~twice
  <2> DEFINE many == Len(keys) > 1
  <2>1. result.rc = "OK"  OBVIOUS
  <2> HIDE DEF result, twice, none, marked, many
  <2>2. \/ many /\ result = Done(<<>>, "E_MULTIPLEPRIMARYKEY")
        \/ twice /\ result = Done(<<>>, "E_DUPLICATEATTR")
        \/ none /\ result = Done(<<>>, "E_PRIMARYKEYNOTFOUND")
        \/ ~twice /\ result = Done(marked, "OK")
    BY <1>1 DEF many
  <2> QED BY <2>1, <2>2, DoneIs
<1>3. attrs \in Seq(Infos) /\ DOMAIN attrs = 1 .. Len(attrs) /\ Len(attrs) \in Nat
  BY KeptAt
<1> HIDE DEF result, attrs, keys
<1>4. \A i \in DOMAIN attrs : /\ attrs[i] \in Infos
                              /\ marked[i] = [attrs[i] EXCEPT !.pk = IsKey(attrs[i].attrName)]
  BY <1>3
<1>5. \A i \in DOMAIN attrs : /\ marked[i] \in Infos
                              /\ marked[i].attrName = attrs[i].attrName
                              /\ marked[i].pk = IsKey(attrs[i].attrName)
  <2> TAKE i \in DOMAIN attrs
  <2> DEFINE k == IsKey(attrs[i].attrName)
             e == attrs[i]
  <2>1. k \in BOOLEAN  OBVIOUS
  <2>2. e \in Infos /\ marked[i] = [e EXCEPT !.pk = k]  BY <1>4
  <2> HIDE DEF k, e, marked
  <2>3. marked[i] \in Infos /\ marked[i].attrName = e.attrName /\ marked[i].pk = k
    BY <2>1, <2>2 DEF Infos
  <2> QED BY <2>3 DEF k, e
<1>6. DOMAIN marked = DOMAIN attrs /\ marked = [i \in 1 .. Len(attrs) |-> marked[i]]
  BY <1>3
<1>7. marked \in Seq(Infos)
  <2> HIDE DEF marked
  <2>1. marked \in [1 .. Len(attrs) -> Infos]  BY <1>3, <1>5, <1>6
  <2> QED BY <2>1, <1>3
<1>8. \A i, j \in DOMAIN attrs : attrs[i].attrName = attrs[j].attrName => i = j
  <2> SUFFICES ASSUME NEW i \in DOMAIN attrs, NEW j \in DOMAIN attrs,
                      attrs[i].attrName = attrs[j].attrName, i # j
               PROVE  FALSE
    OBVIOUS
  <2>1. i < j \/ j < i  BY <1>3
  <2> QED BY <2>1, <1>2
<1>9. \A i, j \in DOMAIN marked : marked[i].pk /\ marked[j].pk => i = j
  <2> SUFFICES ASSUME NEW i \in DOMAIN attrs, NEW j \in DOMAIN attrs,
                      marked[i].pk, marked[j].pk
               PROVE  i = j
    BY <1>6
  <2> HIDE DEF marked
  <2>1. attrs[i].attrName = attrs[j].attrName  BY <1>5
  <2> QED BY <2>1, <1>8
<1>10. Acceptable(marked)
  <2> HIDE DEF marked
  <2>1. DOMAIN marked = DOMAIN attrs  BY <1>6
  <2>2. \A i, j \in DOMAIN marked : marked[i].attrName = marked[j].attrName => i = j
    BY <2>1, <1>5, <1>8, Zenon
  <2> QED BY <2>2, <1>7, <1>9 DEF Acceptable
<1> HIDE DEF marked
<1> QED BY <1>2, <1>10 DEF result

LEMMA FreshInv == CatalogInv(Fresh) /\ Len(Fresh.rows) = 0
<1>1. /\ Fresh.rel = <<>> /\ Fresh.rows = <<>> /\ Fresh.free = <<>> /\ Fresh.files = <<>>
      /\ Fresh.botched = {} /\ Fresh.scrambled = {} /\ Fresh.torn = {}
  BY DEF Fresh
<1>2. DOMAIN Fresh.rel = {} /\ Fresh.rel = [t \in DOMAIN Fresh.rel |-> Fresh.rel[t]]
  BY <1>1
<1>3. /\ FreeSlots(Fresh) = {} /\ Range(Fresh.free) = {} /\ IsInjective(Fresh.free)
      /\ \A t : RowsOf(Fresh, t) = {}
  BY <1>1 DEF FreeSlots, Range, IsInjective, RowsOf
<1>4. Fresh = [rel |-> Fresh.rel, rows |-> Fresh.rows, free |-> Fresh.free,
               files |-> Fresh.files, botched |-> Fresh.botched,
               scrambled |-> Fresh.scrambled, torn |-> Fresh.torn]
  BY DEF Fresh
<1>5. WellFormed(Fresh)
  BY <1>1, <1>2, <1>3, <1>4 DEF WellFormed
<1> QED BY <1>1, <1>2, <1>3, <1>5 DEF CatalogInv, TableInv

----------------------------------------------------------------------------
(* The directories, one of them made, changed or removed.                  *)
LEMMA DirectoryIs ==
    ASSUME NEW state, NEW cat, NEW nested
    PROVE  /\ Directory(state, cat, nested).state = state
           /\ Directory(state, cat, nested).cat = cat
           /\ Directory(state, cat, nested).nested = nested
  BY DEF Directory

LEMMA DirectoryOk ==
    ASSUME NEW state \in {"sound", "doubled", "bare"}, NEW cat, NEW nested \in SUBSET Names,
           CatalogInv(cat), Len(cat.rows) <= MaxRows
    PROVE  DirectoryInv(Directory(state, cat, nested))
<1> DEFINE d == Directory(state, cat, nested)
<1>1. d.state = state /\ d.cat = cat /\ d.nested = nested
  BY DirectoryIs
<1>2. d = Directory(d.state, d.cat, d.nested)
  BY <1>1
<1> HIDE DEF d
<1>3. DirectoryInv(d)
  BY <1>1, <1>2 DEF DirectoryInv
<1> QED BY <1>3 DEF d

LEMMA FreshDirectory ==
    ASSUME NEW state \in {"sound", "doubled", "bare"}, NEW nested \in SUBSET Names
    PROVE  DirectoryInv(Directory(state, Fresh, nested))
<1>1. CatalogInv(Fresh) /\ Len(Fresh.rows) <= MaxRows
  BY FreshInv, RowsAssumption
<1> QED BY <1>1, DirectoryOk

LEMMA DirectoryMade ==
    ASSUME NEW D, DirectoriesInv(D), NEW name \in Names, NEW x, DirectoryInv(x)
    PROVE  DirectoriesInv(With(D, name, x))
  BY DEF DirectoriesInv, With

LEMMA DirectoryChanged ==
    ASSUME NEW D, DirectoriesInv(D), NEW name \in DOMAIN D, NEW x, DirectoryInv(x)
    PROVE  DirectoriesInv([D EXCEPT ![name] = x]) /\ DOMAIN [D EXCEPT ![name] = x] = DOMAIN D
  BY DEF DirectoriesInv

LEMMA DirectoryRemoved ==
    ASSUME NEW D, DirectoriesInv(D), NEW name
    PROVE  DirectoriesInv(Without(D, {name}))
  BY DEF DirectoriesInv, Without

(* A statement leaves another catalog in the directory it is made in.      *)
LEMMA CatalogReplaced ==
    ASSUME NEW D, DirectoriesInv(D), NEW name \in DOMAIN D, NEW x, CatalogInv(x),
           Len(x.rows) <= MaxRows
    PROVE  /\ DirectoriesInv([D EXCEPT ![name].cat = x])
           /\ DOMAIN [D EXCEPT ![name].cat = x] = DOMAIN D
<1> DEFINE d == D[name]
           e == Directory(d.state, x, d.nested)
<1>1. DirectoryInv(d)
  BY DEF DirectoriesInv
<1>2. DirectoryInv(e)
  BY <1>1, DirectoryOk DEF DirectoryInv
<1>3. [d EXCEPT !.cat = x] = e
  <2>1. d = [state |-> d.state, cat |-> d.cat, nested |-> d.nested]
    BY <1>1 DEF DirectoryInv, Directory
  <2> HIDE DEF d
  <2> QED BY <2>1 DEF Directory
<1>4. [D EXCEPT ![name].cat = x] = [D EXCEPT ![name] = [d EXCEPT !.cat = x]]
  OBVIOUS
<1>5. [D EXCEPT ![name].cat = x] = [D EXCEPT ![name] = e]
  <2> HIDE DEF d, e
  <2> QED BY <1>3, <1>4
<1> HIDE DEF d, e
<1> QED BY <1>2, <1>5, DirectoryChanged

LEMMA NestedCreated ==
    ASSUME NEW D, DirectoriesInv(D), NEW name \in DOMAIN D, NEW other \in Names
    PROVE  /\ DirectoriesInv([D EXCEPT ![name].nested = @ \cup {other}])
           /\ DOMAIN [D EXCEPT ![name].nested = @ \cup {other}] = DOMAIN D
<1> DEFINE d == D[name]
           N == d.nested \cup {other}
           e == Directory(d.state, d.cat, N)
<1>1. DirectoryInv(d)
  BY DEF DirectoriesInv
<1>2. DirectoryInv(e)
  BY <1>1, DirectoryOk DEF DirectoryInv
<1>3. [d EXCEPT !.nested = N] = e
  <2>1. d = [state |-> d.state, cat |-> d.cat, nested |-> d.nested]
    BY <1>1 DEF DirectoryInv, Directory
  <2> HIDE DEF d, N
  <2> QED BY <2>1 DEF Directory
<1>4. [D EXCEPT ![name].nested = @ \cup {other}] = [D EXCEPT ![name] = [d EXCEPT !.nested = N]]
  OBVIOUS
<1>5. [D EXCEPT ![name].nested = @ \cup {other}] = [D EXCEPT ![name] = e]
  <2> HIDE DEF e
  <2> QED BY <1>3, <1>4
<1> HIDE DEF d, e, N
<1> QED BY <1>2, <1>5, DirectoryChanged

----------------------------------------------------------------------------
(* The statements.                                                         *)
LEMMA Returned ==
    ASSUME IInv, NEW rc, NEW inUse, NEW name, Return(rc, inUse, name), DirectoriesInv(dirs'),
           ~Ends(rc) => /\ inUse \in Names \cup {NoName}
                        /\ name # NoName => name = inUse /\ name \in DOMAIN dirs'
    PROVE  IInv'
<1>1. CASE Ends(rc)
  BY <1>1 DEF IInv, InUseInv, OpenedIsCurrent, Return, Finish
<1>2. CASE ~Ends(rc)
  <2>1. /\ running' = TRUE /\ db_opened' = (inUse # NoName)
        /\ current_db' = inUse /\ opened' = name
    BY <1>2 DEF Return
  <2>2. db_opened' \in BOOLEAN
    BY <2>1
  <2>3. {current_db', opened'} \subseteq Names \cup {NoName}
    BY <2>1, <1>2
  <2>4. opened' # NoName => db_opened' /\ opened' = current_db' /\ opened' \in DOMAIN dirs'
    BY <2>1, <1>2
  <2> QED BY <2>1, <2>2, <2>3, <2>4 DEF IInv, InUseInv, OpenedIsCurrent
<1> QED BY <1>1, <1>2

LEMMA StatementKeeps ==
    ASSUME IInv, NEW x, CatalogInv(x), NEW rc, Len(x.rows) <= MaxRows,
           opened # NoName, dirs' = [dirs EXCEPT ![opened].cat = x],
           Return(rc, current_db, opened)
    PROVE  IInv'
<1>1. /\ DirectoriesInv(dirs) /\ opened = current_db /\ opened \in DOMAIN dirs
      /\ current_db \in Names \cup {NoName}
  BY DEF IInv, InUseInv, OpenedIsCurrent
<1>2. DirectoriesInv(dirs') /\ DOMAIN dirs' = DOMAIN dirs
  BY <1>1, CatalogReplaced
<1> QED BY <1>1, <1>2, Returned

LEMMA ClosedKeeps ==
    ASSUME IInv, NEW closed, Return(closed, current_db, NoName), UNCHANGED dirs
    PROVE  IInv'
  BY Returned DEF IInv, InUseInv

LEMMA StillKeeps ==
    ASSUME IInv, UNCHANGED vars
    PROVE  IInv'
  BY DEF IInv, InUseInv, OpenedIsCurrent, vars, session

LEMMA OpenCatalog ==
    ASSUME IInv, opened # NoName
    PROVE  CatalogInv(dirs[opened].cat)
  BY DEF IInv, InUseInv, OpenedIsCurrent, DirectoriesInv, DirectoryInv

LEMMA CreateTableStep ==
    ASSUME IInv, NEW new \in Creations, CREATETABLE(new)
    PROVE  IInv'
<1> DEFINE infos == mk_attr_infos(new.columns)
           c == dirs[opened].cat
           results == IF infos.rc # "OK" THEN {Done(c, "OK")}
                      ELSE CreateTable(c, new.relName, infos.cat, new.tooLarge)
<1>1. \/ UNCHANGED vars
      \/ Return("PF_CLOSEDFILE", current_db, NoName) /\ UNCHANGED dirs
      \/ opened # NoName /\ \E result \in results :
            /\ Len(result.cat.rows) <= MaxRows
            /\ dirs' = [dirs EXCEPT ![opened].cat = result.cat]
            /\ Return(result.rc, current_db, opened)
  BY Zenon DEF CREATETABLE, Statement
<1>2. new.relName \in Tables /\ new.columns \in Seq(Infos)
  BY CreationsAssumption DEF Infos
<1>3. ASSUME opened # NoName, NEW result \in results PROVE CatalogInv(result.cat)
  <2>1. CatalogInv(c)  BY <1>3, OpenCatalog
  <2>2. CASE infos.rc # "OK"
    <3>1. result = Done(c, "OK")  BY <2>2, <1>3
    <3> HIDE DEF results, c
    <3> QED BY <2>1, <3>1, DoneIs
  <2>3. CASE infos.rc = "OK"
    <3>1. Acceptable(infos.cat)  BY <1>2, <2>3, AcceptedInfos
    <3>2. result \in CreateTable(c, new.relName, infos.cat, new.tooLarge)  BY <2>3, <1>3
    <3> HIDE DEF results, c, infos
    <3> QED BY <2>1, <3>1, <3>2, <1>2, CreateTableKeeps
  <2> QED BY <2>2, <2>3
<1> HIDE DEF results
<1> QED BY <1>1, <1>3, StillKeeps, ClosedKeeps, StatementKeeps

LEMMA DropTableStep ==
    ASSUME IInv, NEW t \in Tables, DROPTABLE(t)
    PROVE  IInv'
<1> DEFINE c == dirs[opened].cat
           results == DropTable(c, t)
<1>1. \/ UNCHANGED vars
      \/ Return("PF_UNIX", current_db, NoName) /\ UNCHANGED dirs
      \/ opened # NoName /\ \E result \in results :
            /\ Len(result.cat.rows) <= MaxRows
            /\ dirs' = [dirs EXCEPT ![opened].cat = result.cat]
            /\ Return(result.rc, current_db, opened)
  BY Zenon DEF DROPTABLE, Statement
<1>2. ASSUME opened # NoName, NEW result \in results PROVE CatalogInv(result.cat)
  BY <1>2, OpenCatalog, DropTableKeeps
<1> HIDE DEF results
<1> QED BY <1>1, <1>2, StillKeeps, ClosedKeeps, StatementKeeps

LEMMA CreateIndexStep ==
    ASSUME IInv, NEW t \in Tables, NEW a \in Attrs, NEW full \in BOOLEAN,
           CREATEINDEX(t, a, full)
    PROVE  IInv'
<1> DEFINE c == dirs[opened].cat
           results == CreateIndex(c, t, a, full)
<1>1. \/ UNCHANGED vars
      \/ Return("PF_CLOSEDFILE", current_db, NoName) /\ UNCHANGED dirs
      \/ opened # NoName /\ \E result \in results :
            /\ Len(result.cat.rows) <= MaxRows
            /\ dirs' = [dirs EXCEPT ![opened].cat = result.cat]
            /\ Return(result.rc, current_db, opened)
  BY Zenon DEF CREATEINDEX, Statement
<1>2. ASSUME opened # NoName, NEW result \in results PROVE CatalogInv(result.cat)
  BY <1>2, OpenCatalog, CreateIndexKeeps
<1> HIDE DEF results
<1> QED BY <1>1, <1>2, StillKeeps, ClosedKeeps, StatementKeeps

LEMMA DropIndexStep ==
    ASSUME IInv, NEW t \in Tables, NEW a \in Attrs, DROPINDEX(t, a)
    PROVE  IInv'
<1> DEFINE c == dirs[opened].cat
           results == DropIndex(c, t, a)
<1>1. \/ UNCHANGED vars
      \/ Return("PF_CLOSEDFILE", current_db, NoName) /\ UNCHANGED dirs
      \/ opened # NoName /\ \E result \in results :
            /\ Len(result.cat.rows) <= MaxRows
            /\ dirs' = [dirs EXCEPT ![opened].cat = result.cat]
            /\ Return(result.rc, current_db, opened)
  BY Zenon DEF DROPINDEX, Statement
<1>2. ASSUME opened # NoName, NEW result \in results PROVE CatalogInv(result.cat)
  BY <1>2, OpenCatalog, DropIndexKeeps
<1> HIDE DEF results
<1> QED BY <1>1, <1>2, StillKeeps, ClosedKeeps, StatementKeeps

LEMMA QueryStep ==
    ASSUME IInv, NEW t \in Tables, QUERY(t)
    PROVE  IInv'
<1> DEFINE c == dirs[opened].cat
           results == {Done(c, "PF_UNIX"), Done(c, GetDataAttrInfo(c, t))}
<1>1. \/ UNCHANGED vars
      \/ Return("PF_CLOSEDFILE", current_db, NoName) /\ UNCHANGED dirs
      \/ opened # NoName /\ \E result \in results :
            /\ Len(result.cat.rows) <= MaxRows
            /\ dirs' = [dirs EXCEPT ![opened].cat = result.cat]
            /\ Return(result.rc, current_db, opened)
  BY Zenon DEF QUERY, Statement
<1>2. ASSUME opened # NoName, NEW result \in results PROVE CatalogInv(result.cat)
  <2>1. result.cat = c  BY <1>2, DoneIs
  <2> QED BY <2>1, <1>2, OpenCatalog
<1> HIDE DEF results
<1> QED BY <1>1, <1>2, StillKeeps, ClosedKeeps, StatementKeeps

----------------------------------------------------------------------------
LEMMA CreateDbStep ==
    ASSUME IInv, NEW name \in Names, CREATEDB(name)
    PROVE  IInv'
<1> DEFINE again == IF dirs[name].state = "bare" THEN "sound" ELSE "doubled"
           cat == IF dirs[name].state = "bare" THEN Fresh ELSE dirs[name].cat
           made == IF opened # NoName THEN [dirs EXCEPT ![opened].nested = @ \cup {name}]
                   ELSE IF name \notin DOMAIN dirs
                   THEN With(dirs, name, Directory("sound", Fresh, {}))
                   ELSE [dirs EXCEPT ![name] = Directory(again, cat, dirs[name].nested)]
<1>1. (dirs' = dirs \/ dirs' = made) /\ UNCHANGED session
  BY Zenon DEF CREATEDB
<1>2. DirectoriesInv(dirs) /\ (opened # NoName => opened \in DOMAIN dirs)
  BY DEF IInv, InUseInv, OpenedIsCurrent
<1>3. DirectoriesInv(dirs') /\ (opened # NoName => DOMAIN dirs' = DOMAIN dirs)
  <2> SUFFICES ASSUME dirs' = made
               PROVE  /\ DirectoriesInv(dirs')
                      /\ opened # NoName => DOMAIN dirs' = DOMAIN dirs
    <3> HIDE DEF made
    <3> QED BY <1>1, <1>2
  <2>1. CASE opened # NoName
    <3> DEFINE y == [dirs EXCEPT ![opened].nested = @ \cup {name}]
    <3>1. dirs' = y  BY <2>1
    <3> HIDE DEF made
    <3>2. DirectoriesInv(y) /\ DOMAIN y = DOMAIN dirs
      BY <2>1, <1>2, NestedCreated
    <3> HIDE DEF y
    <3> QED BY <3>1, <3>2
  <2>2. CASE opened = NoName /\ name \notin DOMAIN dirs
    <3>1. dirs' = With(dirs, name, Directory("sound", Fresh, {}))  BY <2>2
    <3>2. DirectoryInv(Directory("sound", Fresh, {}))  BY FreshDirectory
    <3> QED BY <3>1, <3>2, <2>2, <1>2, DirectoryMade
  <2>3. CASE opened = NoName /\ name \in DOMAIN dirs
    <3> DEFINE d == Directory(again, cat, dirs[name].nested)
    <3>1. dirs' = [dirs EXCEPT ![name] = d]  BY <2>3
    <3>2. DirectoryInv(dirs[name])  BY <2>3, <1>2 DEF DirectoriesInv
    <3>3. DirectoryInv(d)
      <4>1. dirs[name].nested \in SUBSET Names  BY <3>2 DEF DirectoryInv
      <4>2. CASE dirs[name].state = "bare"
        <5>1. d = Directory("sound", Fresh, dirs[name].nested)  BY <4>2
        <5> HIDE DEF d
        <5> QED BY <4>1, <5>1, FreshDirectory
      <4>3. CASE dirs[name].state # "bare"
        <5>1. d = Directory("doubled", dirs[name].cat, dirs[name].nested)  BY <4>3
        <5>2. CatalogInv(dirs[name].cat) /\ Len(dirs[name].cat.rows) <= MaxRows
          BY <3>2 DEF DirectoryInv
        <5> HIDE DEF d
        <5> QED BY <4>1, <5>1, <5>2, DirectoryOk
      <4> QED BY <4>2, <4>3
    <3> DEFINE y == [dirs EXCEPT ![name] = d]
    <3> HIDE DEF d, made
    <3>4. DirectoriesInv(y) /\ DOMAIN y = DOMAIN dirs
      BY <3>3, <2>3, <1>2, DirectoryChanged
    <3>5. dirs' = y  BY <3>1
    <3> HIDE DEF y
    <3> QED BY <3>4, <3>5
  <2> QED BY <2>1, <2>2, <2>3
<1> QED BY <1>1, <1>3 DEF IInv, InUseInv, OpenedIsCurrent, session

LEMMA DropDbStep ==
    ASSUME IInv, NEW name \in Names, DROPDB(name)
    PROVE  IInv'
<1>1. /\ DirectoriesInv(dirs) /\ current_db \in Names \cup {NoName}
      /\ opened # NoName => opened = current_db /\ opened \in DOMAIN dirs
  BY DEF IInv, InUseInv, OpenedIsCurrent
<1>2. DirectoriesInv(Dropped(name))
  <2>1. CASE name \notin DOMAIN dirs
    BY <2>1, <1>1 DEF Dropped
  <2>2. CASE name \in DOMAIN dirs /\ dirs[name].nested = {}
    BY <2>2, <1>1, DirectoryRemoved DEF Dropped
  <2>3. CASE name \in DOMAIN dirs /\ dirs[name].nested # {}
    <3> DEFINE d == Directory("bare", Fresh, dirs[name].nested)
    <3>1. Dropped(name) = [dirs EXCEPT ![name] = d]  BY <2>3 DEF Dropped
    <3>2. dirs[name].nested \in SUBSET Names
      BY <2>3, <1>1 DEF DirectoriesInv, DirectoryInv
    <3>3. DirectoryInv(d)  BY <3>2, FreshDirectory
    <3> HIDE DEF d
    <3>4. DirectoriesInv([dirs EXCEPT ![name] = d])
      BY <3>3, <2>3, <1>1, DirectoryChanged
    <3> QED BY <3>1, <3>4
  <2> QED BY <2>1, <2>2, <2>3
<1>3. CASE current_db = name /\ CloseDb # "OK"
  <2>1. Return(CloseDb, current_db, opened) /\ UNCHANGED dirs
    BY <1>3 DEF DROPDB
  <2> QED BY <2>1, <1>1, Returned
<1>4. CASE ~(current_db = name /\ CloseDb # "OK")
  <2> DEFINE inUse == IF current_db = name THEN NoName ELSE current_db
  <2>1. Return("OK", inUse, NoName) /\ dirs' = Dropped(name)
    BY <1>4 DEF DROPDB
  <2>2. inUse \in Names \cup {NoName}  BY <1>1
  <2> HIDE DEF inUse
  <2> QED BY <2>1, <2>2, <1>2, Returned
<1> QED BY <1>3, <1>4

LEMMA UseDbStep ==
    ASSUME IInv, NEW name \in Names, USEDB(name)
    PROVE  IInv'
<1>1. /\ DirectoriesInv(dirs) /\ current_db \in Names \cup {NoName}
      /\ opened # NoName => opened = current_db /\ opened \in DOMAIN dirs
  BY DEF IInv, InUseInv, OpenedIsCurrent
<1>2. DirectoriesInv(dirs') /\ DOMAIN dirs' = DOMAIN dirs
  BY <1>1 DEF USEDB
<1>3. \/ \E rc : Return(rc, current_db, opened)
      \/ Return("OK", current_db, NoName)
      \/ OpenDb(name) # "SM_CHDIR_FAILED" /\ Return(OpenDb(name), name, name)
  BY DEF USEDB
<1>4. ASSUME NEW rc, Return(rc, current_db, opened) PROVE IInv'
  BY <1>1, <1>2, <1>4, Returned
<1>5. CASE Return("OK", current_db, NoName)
  BY <1>1, <1>2, <1>5, Returned
<1>6. CASE OpenDb(name) # "SM_CHDIR_FAILED" /\ Return(OpenDb(name), name, name)
  <2>1. name \in DOMAIN dirs  BY <1>6 DEF OpenDb
  <2> QED BY <2>1, <1>2, <1>6, Returned
<1> QED BY <1>3, <1>4, <1>5, <1>6

LEMMA InitInv == Init => IInv
<1> SUFFICES ASSUME Init PROVE IInv
  OBVIOUS
<1>1. \A D : D = <<>> => DOMAIN D = {} /\ D = [d \in {} |-> D[d]]
  OBVIOUS
<1>2. DirectoriesInv(dirs)
  <2>1. dirs = <<>>  BY DEF Init
  <2>2. DOMAIN dirs = {} /\ dirs = [d \in DOMAIN dirs |-> dirs[d]]
    BY <2>1, <1>1
  <2> QED BY <2>2 DEF DirectoriesInv
<1> QED BY <1>2 DEF Init, IInv, InUseInv, OpenedIsCurrent

LEMMA NextInv == IInv /\ [Next]_vars => IInv'
<1> SUFFICES ASSUME IInv, [Next]_vars PROVE IInv'
  OBVIOUS
<1>1. CASE Start \/ Exit
  BY <1>1 DEF IInv, InUseInv, OpenedIsCurrent, Start, Exit, Finish
<1>2. CASE SHOWDBS
  <2>1. (\E rc : Return(rc, current_db, opened)) /\ UNCHANGED dirs
    BY <1>2 DEF SHOWDBS
  <2>2. /\ DirectoriesInv(dirs') /\ current_db \in Names \cup {NoName}
        /\ opened # NoName => opened = current_db /\ opened \in DOMAIN dirs'
    BY <2>1 DEF IInv, InUseInv, OpenedIsCurrent
  <2> QED BY <2>1, <2>2, Returned
<1>3. CASE \E name \in Names : CREATEDB(name) \/ DROPDB(name) \/ USEDB(name)
  BY <1>3, CreateDbStep, DropDbStep, UseDbStep
<1>4. CASE \E new \in Creations : CREATETABLE(new)
  BY <1>4, CreateTableStep
<1>5. CASE \E t \in Tables : DROPTABLE(t) \/ QUERY(t)
  BY <1>5, DropTableStep, QueryStep
<1>6. CASE \E t \in Tables : \E a \in Attrs : \E full \in BOOLEAN : CREATEINDEX(t, a, full)
  BY <1>6, CreateIndexStep
<1>7. CASE \E t \in Tables : \E a \in Attrs : DROPINDEX(t, a)
  BY <1>7, DropIndexStep
<1>8. CASE UNCHANGED vars
  BY <1>8, StillKeeps
<1> QED BY <1>1, <1>2, <1>3, <1>4, <1>5, <1>6, <1>7, <1>8 DEF Next

(* Every state of a session is one where each catalog and each of its      *)
(* tables is as IInv says.                                                 *)
THEOREM IInvHolds == Spec => []IInv
<1> QED BY InitInv, NextInv, PTL DEF Spec

(* The invariant a run checks, and with it which database is in use.       *)
THEOREM SessionInvHolds == Spec => []SessionInv
<1>1. ASSUME IInv PROVE SessionInv
  <2>1. ASSUME NEW d \in DOMAIN dirs
        PROVE  /\ dirs[d].state \in {"sound", "doubled", "bare"} /\ dirs[d].nested \subseteq Names
               /\ DOMAIN dirs[d].cat.rel \subseteq Tables
               /\ Len(dirs[d].cat.rows) <= MaxRows
               /\ Range(dirs[d].cat.free)
                    = {i \in DOMAIN dirs[d].cat.rows : dirs[d].cat.rows[i] = NoRow}
               /\ IsInjective(dirs[d].cat.free)
    <3>1. DirectoryInv(dirs[d])  BY <1>1 DEF IInv, DirectoriesInv
    <3> QED BY <3>1 DEF DirectoryInv, CatalogInv, WellFormed, FreeSlots
  <2>2. TypeOK
    BY <1>1, <2>1 DEF TypeOK, IInv, DirectoriesInv, InUseInv
  <2> QED BY <1>1, <2>2 DEF SessionInv, IInv, InUseInv
<1> QED BY <1>1, IInvHolds, PTL

LEMMA CatalogsOk ==
    ASSUME IInv, NEW c \in Catalogs
    PROVE  CatalogInv(c)
  BY DEF Catalogs, IInv, DirectoriesInv, DirectoryInv

(* Things that are told apart by what they are called are as many as their *)
(* names.                                                                  *)
LEMMA OneToOne ==
    ASSUME NEW S, IsFiniteSet(S), NEW f, f = [i \in S |-> f[i]],
           \A i, j \in S : f[i] = f[j] => i = j
    PROVE  Cardinality({f[i] : i \in S}) = Cardinality(S)
<1> DEFINE T == {f[i] : i \in S}
<1>1. f \in Bijection(S, T)
  <2>1. f \in [S -> T]  OBVIOUS
  <2>2. \A y \in T : \E i \in S : f[i] = y  OBVIOUS
  <2> HIDE DEF T
  <2> QED BY <2>1, <2>2 DEF Bijection, Injection, Surjection, IsInjective
<1>2. ExistsBijection(S, T)
  BY <1>1 DEF ExistsBijection
<1> HIDE DEF T
<1>3. Cardinality(T) = Cardinality(S)
  BY <1>2, FS_Bijection
<1> QED BY <1>3 DEF T

(* A relation is described by as many attributes as relcat says, under     *)
(* different names, whatever was created, dropped and indexed before,      *)
(* unless its creation or removal failed half way.                         *)
THEOREM DescriptionWholeHolds == Spec => []DescriptionWhole
<1>1. ASSUME IInv PROVE DescriptionWhole
  <2> SUFFICES ASSUME NEW c \in Catalogs, NEW t \in DOMAIN c.rel \ c.botched
               PROVE  /\ GetDataAttrInfo(c, t) = "OK"
                      /\ Cardinality({c.rows[i].attrName : i \in RowsOf(c, t)})
                           = c.rel[t].attrCount
    BY DEF DescriptionWhole
  <2>1. CatalogInv(c)  BY <1>1, CatalogsOk
  <2>2. WellFormed(c) /\ Whole(c, t)
    BY <2>1 DEF CatalogInv, WellFormed, TableInv
  <2>3. GetDataAttrInfo(c, t) = "OK"
    BY <2>2 DEF GetDataAttrInfo, Whole
  <2> DEFINE f == [i \in RowsOf(c, t) |-> c.rows[i].attrName]
  <2>4. /\ f = [i \in RowsOf(c, t) |-> f[i]]
        /\ \A i, j \in RowsOf(c, t) : f[i] = f[j] => i = j
        /\ {f[i] : i \in RowsOf(c, t)} = {c.rows[i].attrName : i \in RowsOf(c, t)}
    BY <2>2 DEF Whole
  <2>5. IsFiniteSet(RowsOf(c, t))  BY <2>2, RowsFinite
  <2> HIDE DEF f
  <2>6. Cardinality({f[i] : i \in RowsOf(c, t)}) = Cardinality(RowsOf(c, t))
    BY <2>4, <2>5, OneToOne
  <2> QED BY <2>2, <2>3, <2>4, <2>6 DEF Whole
<1> QED BY <1>1, IInvHolds, PTL

(* The indexes of a relation are numbered without gaps, as many as relcat  *)
(* counts, unless a CREATE INDEX or DROP INDEX of it ended half way.       *)
THEOREM IndexesNumberedHolds == Spec => []IndexesNumbered
<1>1. ASSUME IInv PROVE IndexesNumbered
  <2> SUFFICES ASSUME NEW c \in Catalogs, 
                      NEW t \in DOMAIN c.rel \ (c.botched \cup c.torn)
               PROVE  /\ IndexNosOf(c, t) = 0 .. c.rel[t].indexCount - 1
                      /\ Cardinality(Indexed(c, t)) = c.rel[t].indexCount
    BY DEF IndexesNumbered
  <2>1. CatalogInv(c)  BY <1>1, CatalogsOk
  <2>2. WellFormed(c) /\ Numbered(c, t)
    BY <2>1 DEF CatalogInv, WellFormed, TableInv
  <2> DEFINE f == [i \in Indexed(c, t) |-> c.rows[i].indexNo]
             n == c.rel[t].indexCount
  <2>3. /\ f = [i \in Indexed(c, t) |-> f[i]]
        /\ \A i, j \in Indexed(c, t) : f[i] = f[j] => i = j
        /\ {f[i] : i \in Indexed(c, t)} = IndexNosOf(c, t)
    BY <2>2, ZenonT(60) DEF Numbered, IndexNosOf, Indexed
  <2>4. IsFiniteSet(Indexed(c, t))
    <3>1. IsFiniteSet(RowsOf(c, t)) /\ Indexed(c, t) \subseteq RowsOf(c, t)
      BY <2>2, RowsFinite DEF Indexed
    <3> QED BY <3>1, FS_Subset
  <2>5. n \in Nat /\ IndexNosOf(c, t) = 0 .. n - 1
    BY <2>2 DEF Numbered
  <2> HIDE DEF f, n
  <2>6. Cardinality(IndexNosOf(c, t)) = Cardinality(Indexed(c, t))
    BY <2>3, <2>4, OneToOne
  <2>7. Cardinality(0 .. n - 1) = n
    <3>1. 0 \in Int /\ n - 1 \in Int  BY <2>5
    <3>2. Cardinality(0 .. n - 1) = IF 0 > n - 1 THEN 0 ELSE (n - 1) - 0 + 1
      BY <3>1, FS_Interval
    <3> QED BY <3>2, <2>5
  <2> QED BY <2>5, <2>6, <2>7 DEF n
<1> QED BY <1>1, IInvHolds, PTL

(* The file an attribute's index is looked for in is there and is its own, *)
(* unless the files were renamed in another order than that of their       *)
(* numbers, or a CREATE INDEX or DROP INDEX of the table ended half way.   *)
THEOREM IndexFilesOwnHolds == Spec => []IndexFilesOwn
<1>1. ASSUME IInv PROVE IndexFilesOwn
  <2> SUFFICES ASSUME NEW c \in Catalogs, 
                      NEW t \in DOMAIN c.rel \ (c.botched \cup c.torn \cup c.scrambled)
               PROVE  OwnIndexFiles(c, t)
    BY DEF IndexFilesOwn
  <2>1. CatalogInv(c)  BY <1>1, CatalogsOk
  <2> QED BY <2>1 DEF CatalogInv, WellFormed, TableInv
<1> QED BY <1>1, IInvHolds, PTL

----------------------------------------------------------------------------
(* Once the catalogs are closed while a database is in use, no statement   *)
(* gets the session out of it: what the interpreter does first is to close *)
(* them, and that fails.                                                   *)
LEMMA StaysClosed ==
    ASSUME NEW rc, Return(rc, current_db, NoName), IInv, db_opened
    PROVE  ~running' \/ (db_opened' /\ opened' = NoName)
  BY DEF Return, Finish, IInv, InUseInv

(* A USE or DROP DATABASE that fails half way leaves the session without   *)
(* open catalogs, and no statement opens any before the session ends.      *)
THEOREM StuckTillEndHolds == Spec => StuckTillEnd
<1> DEFINE Stuck == running /\ db_opened /\ opened = NoName
                       => ~running' \/ (db_opened' /\ opened' = NoName)
<1>1. ASSUME IInv, [Next]_vars PROVE [Stuck]_vars
  <2> SUFFICES ASSUME Next, running, db_opened, opened = NoName
               PROVE  ~running' \/ (db_opened' /\ opened' = NoName)
    BY <1>1
  <2>1. CloseDb = "PF_CLOSEDFILE" /\ ~Ends("PF_CLOSEDFILE")  BY DEF CloseDb, Ends
  <2>2. CASE Start \/ Exit
    BY <2>2 DEF Start, Exit, Finish
  <2>3. CASE SHOWDBS
    BY <2>3, <1>1, StaysClosed DEF SHOWDBS
  <2>4. CASE \E name \in Names : CREATEDB(name)
    BY <2>4 DEF CREATEDB, session
  <2>5. ASSUME NEW name \in Names, DROPDB(name)
        PROVE  ~running' \/ (db_opened' /\ opened' = NoName)
    <3>1. Return(CloseDb, current_db, opened) \/ Return("OK", current_db, NoName)
      BY <2>1, <2>5 DEF DROPDB
    <3> QED BY <3>1, <1>1, StaysClosed
  <2>6. ASSUME NEW name \in Names, USEDB(name)
        PROVE  ~running' \/ (db_opened' /\ opened' = NoName)
    <3>1. \E rc : Return(rc, current_db, opened)
      BY <2>1, <2>6 DEF USEDB
    <3> QED BY <3>1, <1>1, StaysClosed
  <2>7. CASE \E new \in Creations : CREATETABLE(new)
    <3>1. Return("PF_CLOSEDFILE", current_db, NoName)
      BY <2>7, Zenon DEF CREATETABLE, Statement
    <3> QED BY <3>1, <1>1, StaysClosed
  <2>8. CASE \E t \in Tables : DROPTABLE(t)
    <3>1. Return("PF_UNIX", current_db, NoName)
      BY <2>8, Zenon DEF DROPTABLE, Statement
    <3> QED BY <3>1, <1>1, StaysClosed
  <2>9. CASE \E t \in Tables : \E a \in Attrs : \E full \in BOOLEAN : CREATEINDEX(t, a, full)
    <3>1. Return("PF_CLOSEDFILE", current_db, NoName)
      BY <2>9, Zenon DEF CREATEINDEX, Statement
    <3> QED BY <3>1, <1>1, StaysClosed
  <2>10. CASE \E t \in Tables : \E a \in Attrs : DROPINDEX(t, a)
    <3>1. Return("PF_CLOSEDFILE", current_db, NoName)
      BY <2>10, Zenon DEF DROPINDEX, Statement
    <3> QED BY <3>1, <1>1, StaysClosed
  <2>11. CASE \E t \in Tables : QUERY(t)
    <3>1. Return("PF_CLOSEDFILE", current_db, NoName)
      BY <2>11, Zenon DEF QUERY, Statement
    <3> QED BY <3>1, <1>1, StaysClosed
  <2> QED BY <2>2, <2>3, <2>4, <2>5, <2>6, <2>7, <2>8, <2>9, <2>10, <2>11 DEF Next
<1>2. Spec => [][Stuck]_vars
  BY <1>1, IInvHolds, PTL DEF Spec
<1> QED BY <1>2 DEF StuckTillEnd
=============================================================================
