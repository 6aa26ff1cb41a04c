------------------------- MODULE BufferLinks_proofs -------------------------
(***************************************************************************)
(* The pointers of PF_BufferMgr implement its two lists, for a table of    *)
(* any size.  The invariant says that the pointers hold two sequences of   *)
(* slots which share the table between them, one of them in both           *)
(* directions; each function of the code is shown to change the sequences  *)
(* as SlotLists has it, whatever the pointers off the lists hold.          *)
(***************************************************************************)
EXTENDS BufferLinks, Lists_proofs

Ends == AllSlots \cup {INVALID_SLOT}
LinksType == [next : [AllSlots -> Ends], prev : [AllSlots -> Ends],
              first : Ends, last : Ends, free : Ends]

(* The list q is met from h along p, in its order and in the reverse one.  *)
Linked(p, h, q) ==
    /\ h = IF q = <<>> THEN INVALID_SLOT ELSE q[1]
    /\ \A i \in DOMAIN q : p[q[i]] = IF i = Len(q) THEN INVALID_SLOT ELSE q[i + 1]
Backed(p, h, q) ==
    /\ h = IF q = <<>> THEN INVALID_SLOT ELSE q[Len(q)]
    /\ \A i \in DOMAIN q : p[q[i]] = IF i = 1 THEN INVALID_SLOT ELSE q[i - 1]

(* L holds the used list u and the free list f.                            *)
Holds(L, u, f) ==
    /\ L \in LinksType
    /\ u \in Seq(AllSlots) /\ f \in Seq(AllSlots)
    /\ IsInjective(u) /\ IsInjective(f) /\ Range(u) \cap Range(f) = {}
    /\ Linked(L.next, L.first, u) /\ Linked(L.next, L.free, f) /\ Backed(L.prev, L.last, u)

(* The two share a table of n slots.                                       *)
Share(n, u, f) == Range(u) \cup Range(f) = 0 .. n - 1

IInv == TypeOK /\ Holds(links, UsedChain, FreeChain) /\ Share(numPages, UsedChain, FreeChain)

----------------------------------------------------------------------------
(* Walking along pointers that hold a list gives the list, once the walk   *)
(* is longer than it.                                                      *)
Walk(N, p, h) ==
    LET walk[n \in 0 .. N + 1] ==
            IF n = 0 THEN <<>>
            ELSE LET q == walk[n - 1]
                     t == IF q = <<>> THEN h ELSE p[q[Len(q)]]
                 IN  IF t = INVALID_SLOT THEN q ELSE Append(q, t)
    IN  walk[N + 1]

LEMMA WalkIs ==
    ASSUME NEW N \in Nat, NEW p, NEW h, NEW X, INVALID_SLOT \notin X,
           NEW q \in Seq(X), Len(q) <= N, Linked(p, h, q)
    PROVE  Walk(N, p, h) = q
<1> DEFINE Least(n) == IF n <= Len(q) THEN n ELSE Len(q)
           W == [n \in 0 .. N + 1 |-> SubSeq(q, 1, Least(n))]
           On(w) == LET t == IF w = <<>> THEN h ELSE p[w[Len(w)]]
                    IN  IF t = INVALID_SLOT THEN w ELSE Append(w, t)
           Is(f) == f = [n \in 0 .. N + 1 |-> IF n = 0 THEN <<>> ELSE On(f[n - 1])]
           walk == CHOOSE f : Is(f)
<1>1. /\ Len(q) \in Nat /\ \A i \in 1 .. Len(q) : q[i] \in X
      /\ h = IF Len(q) = 0 THEN INVALID_SLOT ELSE q[1]
      /\ \A i \in 1 .. Len(q) : p[q[i]] = IF i = Len(q) THEN INVALID_SLOT ELSE q[i + 1]
  BY DEF Linked
<1>2. ASSUME NEW n \in 0 .. Len(q)
      PROVE  /\ SubSeq(q, 1, n) \in Seq(X) /\ Len(SubSeq(q, 1, n)) = n
             /\ \A i \in 1 .. n : SubSeq(q, 1, n)[i] = q[i]
  BY <1>1
<1>3. ASSUME NEW n \in 0 .. Len(q) - 1
      PROVE  On(SubSeq(q, 1, n)) = SubSeq(q, 1, n + 1)
  <2> DEFINE w == SubSeq(q, 1, n)
  <2>1. w \in Seq(X) /\ Len(w) = n /\ \A i \in 1 .. n : w[i] = q[i]
    BY <1>1, <1>2
  <2>2. (IF w = <<>> THEN h ELSE p[w[Len(w)]]) = q[n + 1] /\ q[n + 1] # INVALID_SLOT
    <3>0. n + 1 \in 1 .. Len(q) /\ q[n + 1] # INVALID_SLOT  BY <1>1
    <3>1. CASE n = 0
      <4>1. w = <<>> /\ Len(q) # 0  BY <3>1, <2>1, <1>1
      <4>2. h = q[1] /\ n + 1 = 1  BY <4>1, <3>1, <1>1
      <4>3. q[n + 1] = h  BY <4>2
      <4> HIDE DEF w
      <4> QED BY <4>1, <4>3, <3>0
    <3>2. CASE n # 0
      <4>0. n \in 1 .. Len(q) /\ n # Len(q) /\ n \in 1 .. n
        BY <3>2, <1>1
      <4> HIDE DEF w
      <4>1. w # <<>> /\ w[Len(w)] = q[n]
        BY <3>2, <2>1, <4>0
      <4>2. p[q[n]] = q[n + 1]  BY <4>0, <1>1
      <4> QED BY <4>1, <4>2, <3>0
    <3> QED BY <3>1, <3>2
  <2>3. Append(w, q[n + 1]) = SubSeq(q, 1, n + 1)
    BY <2>1, <1>1
  <2> HIDE DEF w
  <2> QED BY <2>2, <2>3 DEF w
<1>4. On(SubSeq(q, 1, Len(q))) = SubSeq(q, 1, Len(q))
  <2>1. SubSeq(q, 1, Len(q)) = q
    BY <1>1
  <2>2. (IF q = <<>> THEN h ELSE p[q[Len(q)]]) = INVALID_SLOT
    BY <1>1
  <2> QED BY <2>1, <2>2
<1> HIDE DEF On
<1>a. SubSeq(q, 1, 0) = <<>> /\ SubSeq(q, 1, Len(q)) = q
  BY <1>1
<1>b. \A n \in 0 .. N + 1 : W[n] = SubSeq(q, 1, Least(n))
  OBVIOUS
<1> HIDE DEF W
<1>5. \A n \in 1 .. N + 1 : W[n] = On(W[n - 1])
  <2> TAKE n \in 1 .. N + 1
  <2>1. CASE n <= Len(q)
    <3>1. n - 1 \in 0 .. Len(q) - 1 /\ Least(n) = n /\ Least(n - 1) = n - 1
      BY <2>1, <1>1
    <3>2. W[n] = SubSeq(q, 1, n) /\ W[n - 1] = SubSeq(q, 1, n - 1)
      BY <3>1, <1>b
    <3> QED BY <3>1, <3>2, <1>3
  <2>2. CASE ~(n <= Len(q))
    <3>1. Least(n) = Len(q) /\ Least(n - 1) = Len(q) /\ n - 1 \in 0 .. N + 1
      BY <2>2, <1>1
    <3>2. W[n] = SubSeq(q, 1, Least(n)) /\ W[n - 1] = SubSeq(q, 1, Least(n - 1))
      BY <3>1, <1>b
    <3> HIDE DEF Least
    <3> QED BY <3>1, <3>2, <1>4
  <2> QED BY <2>1, <2>2
<1>6. W[0] = <<>> /\ W[N + 1] = q
  <2>1. Least(0) = 0 /\ Least(N + 1) = Len(q) /\ 0 \in 0 .. N + 1 /\ N + 1 \in 0 .. N + 1
    BY <1>1
  <2>2. W[0] = SubSeq(q, 1, Least(0)) /\ W[N + 1] = SubSeq(q, 1, Least(N + 1))
    BY <2>1, <1>b
  <2> HIDE DEF Least
  <2> QED BY <2>1, <2>2, <1>a
<1>7. Is(W)
  <2>1. \A n \in 0 .. N + 1 : W[n] = IF n = 0 THEN <<>> ELSE On(W[n - 1])
    BY <1>5, <1>6
  <2> QED BY <2>1 DEF W
<1>8. Is(walk)
  BY <1>7
<1> HIDE DEF walk
<1>9. walk[0] = <<>> /\ \A n \in 1 .. N + 1 : walk[n] = On(walk[n - 1])
  BY <1>8
<1> DEFINE T == {n \in Nat : n <= N + 1 /\ walk[n] # W[n]}
<1>10. T = {}
  <2> SUFFICES ASSUME T # {} PROVE FALSE  OBVIOUS
  <2>1. PICK m \in T : \A k \in T : m <= k
    BY LeastNat
  <2>2. m # 0  BY <1>6, <1>9
  <2>3. m - 1 \in Nat /\ m - 1 \notin T /\ m \in 1 .. N + 1 /\ m - 1 <= N + 1
    BY <2>1, <2>2
  <2>4. walk[m - 1] = W[m - 1]
    BY <2>3
  <2> QED BY <2>1, <2>3, <2>4, <1>5, <1>9
<1>11. walk[N + 1] = q
  <2>1. N + 1 \in Nat /\ N + 1 \notin T  BY <1>10
  <2> QED BY <2>1, <1>6
<1> QED BY <1>11 DEF Walk, walk, On

----------------------------------------------------------------------------
(* Taking the slot at one position off a list.                             *)
Cut(q, i) == [j \in 1 .. Len(q) - 1 |-> IF j < i THEN q[j] ELSE q[j + 1]]

LEMMA CutProperties ==
    ASSUME NEW X, NEW q \in Seq(X), IsInjective(q), NEW i \in DOMAIN q
    PROVE  /\ Cut(q, i) \in Seq(X) /\ Len(Cut(q, i)) = Len(q) - 1
           /\ IsInjective(Cut(q, i))
           /\ Range(Cut(q, i)) = Range(q) \ {q[i]}
<1> DEFINE n == Len(q)
           r == Cut(q, i)
<1>1. n \in Nat /\ DOMAIN q = 1 .. n /\ i \in 1 .. n /\ \A j \in 1 .. n : q[j] \in X
  OBVIOUS
<1>2. \A j, k \in 1 .. n : q[j] = q[k] => j = k
  BY <1>1 DEF IsInjective
<1>3. r = [j \in 1 .. n - 1 |-> IF j < i THEN q[j] ELSE q[j + 1]]
  BY DEF Cut
<1> HIDE DEF n, r
<1>4. n - 1 \in Nat /\ DOMAIN r = 1 .. n - 1 /\ \A j \in 1 .. n - 1 : r[j] \in X
  BY <1>1, <1>3
<1>5. r \in Seq(X) /\ Len(r) = n - 1
  BY <1>1, <1>3, <1>4
<1>6. ASSUME NEW j \in 1 .. n - 1, NEW k \in 1 .. n - 1, r[j] = r[k] PROVE j = k
  BY <1>6, <1>1, <1>2, <1>3
<1>7. ASSUME NEW j \in 1 .. n - 1
      PROVE  r[j] # q[i] /\ \E k \in 1 .. n : r[j] = q[k]
  BY <1>1, <1>2, <1>3
<1>8. ASSUME NEW k \in 1 .. n, q[k] # q[i]
      PROVE  \E j \in 1 .. n - 1 : r[j] = q[k]
  <2>1. CASE k < i
    BY <2>1, <1>1, <1>3
  <2>2. CASE i < k
    <3>1. k - 1 \in 1 .. n - 1 /\ ~(k - 1 < i) /\ k - 1 + 1 = k
      BY <2>2, <1>1
    <3> QED BY <3>1, <1>3
  <2> QED BY <2>1, <2>2, <1>8, <1>1
<1>9. Range(r) = Range(q) \ {q[i]}
  <2>1. Range(r) = {r[j] : j \in 1 .. n - 1} /\ Range(q) = {q[k] : k \in 1 .. n}
    BY <1>1, <1>4 DEF Range
  <2>2. ASSUME NEW y \in Range(r) PROVE y \in Range(q) \ {q[i]}
    BY <2>1, <1>7
  <2>3. ASSUME NEW y \in Range(q) \ {q[i]} PROVE y \in Range(r)
    <3>1. PICK k \in 1 .. n : y = q[k]  BY <2>1
    <3> QED BY <3>1, <2>1, <1>8
  <2> QED BY <2>2, <2>3
<1>10. IsInjective(r)
  BY <1>4, <1>6 DEF IsInjective
<1> QED BY <1>5, <1>9, <1>10 DEF n, r

LEMMA UnlinkIsCut ==
    ASSUME NEW X, NEW q \in Seq(X), IsInjective(q), NEW i \in DOMAIN q
    PROVE  Unlink(q, q[i]) = Cut(q, i)
<1> DEFINE n == Len(q)
           S == Range(q) \ {q[i]}
           c(j) == CountKept(q, S, j)
<1>1. n \in Nat /\ DOMAIN q = 1 .. n /\ i \in 1 .. n
  OBVIOUS
<1>2. \A j \in 1 .. n : q[j] \in S <=> j # i
  BY <1>1 DEF IsInjective, Range
<1>3. /\ CountKept(q, S, 0) = 0
      /\ \A j \in Nat : CountKept(q, S, j) \in Nat
      /\ \A j \in Nat \ {0} :
           /\ q[j] \in S => CountKept(q, S, j) = CountKept(q, S, j - 1) + 1
           /\ q[j] \notin S => CountKept(q, S, j) = CountKept(q, S, j - 1)
  BY CountKeptStep
<1>4. /\ CountKept(q, S, Len(q)) \in Nat
      /\ Kept(q, S) \in Seq(X) /\ Len(Kept(q, S)) = CountKept(q, S, Len(q))
      /\ DOMAIN Kept(q, S) = 1 .. CountKept(q, S, Len(q))
      /\ \A j \in DOMAIN q : q[j] \in S => Kept(q, S)[CountKept(q, S, j)] = q[j]
  <2> HIDE DEF S
  <2> QED BY KeptAt
<1> HIDE DEF S
<1> DEFINE T == {j \in Nat : j <= n /\ c(j) # IF j < i THEN j ELSE j - 1}
<1>5. T = {}
  <2> SUFFICES ASSUME T # {} PROVE FALSE  OBVIOUS
  <2>1. PICK m \in T : \A k \in T : m <= k
    BY LeastNat
  <2>2. m # 0  BY <1>3, <1>1
  <2>3. m - 1 \in Nat /\ m - 1 \notin T /\ m \in 1 .. n /\ m - 1 <= n
    BY <2>1, <2>2, <1>1
  <2>4. c(m - 1) = IF m - 1 < i THEN m - 1 ELSE m - 1 - 1
    <3> HIDE DEF c
    <3> QED BY <2>3
  <2>5. c(m) = IF m # i THEN c(m - 1) + 1 ELSE c(m - 1)
    <3>1. m \in Nat \ {0} /\ (q[m] \in S <=> m # i)
      BY <2>3, <1>1, <1>2
    <3>2. /\ q[m] \in S => c(m) = c(m - 1) + 1
          /\ q[m] \notin S => c(m) = c(m - 1)
      BY <3>1, <1>3
    <3> HIDE DEF c
    <3> QED BY <3>1, <3>2
  <2> HIDE DEF c
  <2>6. c(m) = IF m < i THEN m ELSE m - 1
    BY <2>3, <2>4, <2>5, <1>1
  <2> QED BY <2>6, <2>3
<1>6. \A j \in 0 .. n : c(j) = IF j < i THEN j ELSE j - 1
  BY <1>5, <1>1
<1> HIDE DEF c, T
<1>7. c(n) = n - 1  BY <1>6, <1>1
<1>8. \A j \in 1 .. n : j # i => Kept(q, S)[c(j)] = q[j]
  BY <1>1, <1>2, <1>4 DEF c
<1> DEFINE r == Kept(q, S)
<1>9. r \in Seq(X) /\ Len(r) = n - 1 /\ DOMAIN r = 1 .. n - 1
  BY <1>4, <1>7 DEF c, n
<1>10. ASSUME NEW j \in 1 .. n - 1 PROVE r[j] = IF j < i THEN q[j] ELSE q[j + 1]
  <2>1. CASE j < i
    <3>1. j \in 1 .. n /\ j # i /\ c(j) = j  BY <2>1, <1>1, <1>6
    <3> QED BY <3>1, <2>1, <1>8
  <2>2. CASE ~(j < i)
    <3>1. j + 1 \in 1 .. n /\ j + 1 # i /\ c(j + 1) = j  BY <2>2, <1>1, <1>6
    <3> QED BY <3>1, <2>2, <1>8
  <2> QED BY <2>1, <2>2
<1> HIDE DEF r
<1>11. r = [j \in 1 .. n - 1 |-> IF j < i THEN q[j] ELSE q[j + 1]]
  <2>1. r = [j \in 1 .. n - 1 |-> r[j]]  BY <1>9
  <2> QED BY <2>1, <1>10
<1> QED BY <1>11 DEF r, S, n, Cut, Unlink

LEMMA UnlinkAbsent ==
    ASSUME NEW X, NEW q \in Seq(X), NEW s, s \notin Range(q)
    PROVE  Unlink(q, s) = q
<1> DEFINE n == Len(q)
           S == Range(q) \ {s}
           c(j) == CountKept(q, S, j)
           r == Kept(q, S)
<1>1. n \in Nat /\ DOMAIN q = 1 .. n
  OBVIOUS
<1>2. \A j \in 1 .. n : q[j] \in S
  BY <1>1 DEF Range
<1>3. /\ CountKept(q, S, 0) = 0
      /\ \A j \in Nat \ {0} :
           q[j] \in S => CountKept(q, S, j) = CountKept(q, S, j - 1) + 1
  BY CountKeptStep
<1>4. /\ Kept(q, S) \in Seq(X) /\ Len(Kept(q, S)) = CountKept(q, S, Len(q))
      /\ \A j \in DOMAIN q : q[j] \in S => Kept(q, S)[CountKept(q, S, j)] = q[j]
  <2> HIDE DEF S
  <2> QED BY KeptAt
<1> HIDE DEF S
<1> DEFINE T == {j \in Nat : j <= n /\ c(j) # j}
<1>5. T = {}
  <2> SUFFICES ASSUME T # {} PROVE FALSE  OBVIOUS
  <2>1. PICK m \in T : \A k \in T : m <= k
    BY LeastNat
  <2>2. m # 0  BY <1>3
  <2>3. m - 1 \in Nat /\ m - 1 \notin T /\ m \in 1 .. n /\ m - 1 <= n
    BY <2>1, <2>2, <1>1
  <2>4. c(m) = c(m - 1) + 1  BY <2>3, <1>2, <1>3
  <2> HIDE DEF c
  <2> QED BY <2>3, <2>4
<1>6. \A j \in 0 .. n : c(j) = j
  BY <1>5, <1>1
<1>7. r \in Seq(X) /\ Len(r) = n /\ \A j \in 1 .. n : r[j] = q[j]
  BY <1>1, <1>2, <1>4, <1>6
<1> HIDE DEF r
<1>8. r = q
  BY <1>7
<1> QED BY <1>8 DEF r, S, Unlink

LEMMA LinkHeadProperties ==
    ASSUME NEW X, NEW q \in Seq(X), IsInjective(q), NEW s \in X, s \notin Range(q)
    PROVE  /\ LinkHead(q, s) \in Seq(X) /\ Len(LinkHead(q, s)) = Len(q) + 1
           /\ IsInjective(LinkHead(q, s))
           /\ Range(LinkHead(q, s)) = Range(q) \cup {s}
           /\ LinkHead(q, s)[1] = s
           /\ \A j \in 2 .. Len(q) + 1 : LinkHead(q, s)[j] = q[j - 1]
<1> DEFINE r == LinkHead(q, s)
           n == Len(q)
<1>1. n \in Nat /\ DOMAIN q = 1 .. n /\ \A j \in 1 .. n : q[j] \in X /\ q[j] # s
  BY DEF Range
<1>2. /\ r \in Seq(X) /\ Len(r) = n + 1 /\ DOMAIN r = 1 .. n + 1 /\ r[1] = s
      /\ \A j \in 2 .. n + 1 : r[j] = q[j - 1]
  BY DEF LinkHead
<1>3. \A j, k \in 1 .. n : q[j] = q[k] => j = k
  BY <1>1 DEF IsInjective
<1> HIDE DEF r, n
<1>4. ASSUME NEW j \in 1 .. n + 1, NEW k \in 1 .. n + 1, r[j] = r[k] PROVE j = k
  <2>1. \A l \in 2 .. n + 1 : l - 1 \in 1 .. n /\ r[l] # s
    BY <1>1, <1>2
  <2>2. CASE j = 1 \/ k = 1
    BY <2>1, <2>2, <1>1, <1>2, <1>4
  <2>3. CASE j # 1 /\ k # 1
    <3>1. /\ j \in 2 .. n + 1 /\ k \in 2 .. n + 1
          /\ j - 1 \in 1 .. n /\ k - 1 \in 1 .. n
      BY <2>3, <1>1
    <3>2. q[j - 1] = q[k - 1]  BY <3>1, <1>2, <1>4
    <3>3. j - 1 = k - 1  BY <3>1, <3>2, <1>3
    <3> QED BY <3>1, <3>3
  <2> QED BY <2>2, <2>3
<1>5. IsInjective(r)
  BY <1>2, <1>4 DEF IsInjective
<1>6. ASSUME NEW j \in 1 .. n PROVE j + 1 \in 1 .. n + 1 /\ r[j + 1] = q[j]
  <2>1. j + 1 \in 2 .. n + 1 /\ j + 1 - 1 = j  BY <1>1
  <2> QED BY <2>1, <1>1, <1>2
<1>7. Range(r) = Range(q) \cup {s}
  <2>1. Range(r) = {r[j] : j \in 1 .. n + 1} /\ Range(q) = {q[k] : k \in 1 .. n}
    BY <1>1, <1>2 DEF Range
  <2>2. 1 \in 1 .. n + 1  BY <1>1
  <2>3. ASSUME NEW j \in 1 .. n + 1 PROVE r[j] = s \/ \E k \in 1 .. n : r[j] = q[k]
    <3>1. CASE j = 1  BY <3>1, <1>2
    <3>2. CASE j # 1
      <4>1. j \in 2 .. n + 1 /\ j - 1 \in 1 .. n  BY <3>2, <1>1
      <4> QED BY <4>1, <1>2
    <3> QED BY <3>1, <3>2
  <2>4. ASSUME NEW y \in Range(r) PROVE y \in Range(q) \cup {s}
    BY <2>1, <2>3
  <2>5. ASSUME NEW y \in Range(q) \cup {s} PROVE y \in Range(r)
    BY <2>1, <2>2, <1>2, <1>6
  <2> QED BY <2>4, <2>5
<1> QED BY <1>2, <1>5, <1>7 DEF r, n

----------------------------------------------------------------------------
(* What each function of the code does to two lists held by pointers.      *)
LEMMA NoSlot == INVALID_SLOT \notin AllSlots /\ INVALID_SLOT \in Ends
  BY SizesAssumption DEF INVALID_SLOT, AllSlots, Ends

(* Holds, position by position.                                            *)
LEMMA HoldsAt ==
    ASSUME NEW L, NEW u, NEW f, Holds(L, u, f)
    PROVE  /\ L \in LinksType
           /\ u \in Seq(AllSlots) /\ Len(u) \in Nat /\ DOMAIN u = 1 .. Len(u)
           /\ f \in Seq(AllSlots) /\ Len(f) \in Nat /\ DOMAIN f = 1 .. Len(f)
           /\ \A i \in 1 .. Len(u) : u[i] \in AllSlots
           /\ \A i \in 1 .. Len(f) : f[i] \in AllSlots
           /\ \A i, j \in 1 .. Len(u) : u[i] = u[j] => i = j
           /\ \A i, j \in 1 .. Len(f) : f[i] = f[j] => i = j
           /\ \A i \in 1 .. Len(u), j \in 1 .. Len(f) : u[i] # f[j]
           /\ L.first = IF Len(u) = 0 THEN INVALID_SLOT ELSE u[1]
           /\ L.last = IF Len(u) = 0 THEN INVALID_SLOT ELSE u[Len(u)]
           /\ L.free = IF Len(f) = 0 THEN INVALID_SLOT ELSE f[1]
           /\ \A i \in 1 .. Len(u) :
                /\ L.next[u[i]] = IF i = Len(u) THEN INVALID_SLOT ELSE u[i + 1]
                /\ L.prev[u[i]] = IF i = 1 THEN INVALID_SLOT ELSE u[i - 1]
           /\ \A i \in 1 .. Len(f) :
                L.next[f[i]] = IF i = Len(f) THEN INVALID_SLOT ELSE f[i + 1]
<1>1. /\ L \in LinksType /\ u \in Seq(AllSlots) /\ f \in Seq(AllSlots)
      /\ IsInjective(u) /\ IsInjective(f) /\ Range(u) \cap Range(f) = {}
  BY DEF Holds
<1>2. /\ Len(u) \in Nat /\ DOMAIN u = 1 .. Len(u) /\ \A i \in 1 .. Len(u) : u[i] \in AllSlots
      /\ Len(f) \in Nat /\ DOMAIN f = 1 .. Len(f) /\ \A i \in 1 .. Len(f) : f[i] \in AllSlots
      /\ (u = <<>> <=> Len(u) = 0) /\ (f = <<>> <=> Len(f) = 0)
  BY <1>1
<1>3. /\ \A i, j \in 1 .. Len(u) : u[i] = u[j] => i = j
      /\ \A i, j \in 1 .. Len(f) : f[i] = f[j] => i = j
  BY <1>1, <1>2 DEF IsInjective
<1>4. \A i \in 1 .. Len(u), j \in 1 .. Len(f) : u[i] # f[j]
  BY <1>1, <1>2 DEF Range
<1>5. /\ L.first = IF Len(u) = 0 THEN INVALID_SLOT ELSE u[1]
      /\ L.free = IF Len(f) = 0 THEN INVALID_SLOT ELSE f[1]
      /\ \A i \in 1 .. Len(u) :
           L.next[u[i]] = IF i = Len(u) THEN INVALID_SLOT ELSE u[i + 1]
      /\ \A i \in 1 .. Len(f) :
           L.next[f[i]] = IF i = Len(f) THEN INVALID_SLOT ELSE f[i + 1]
  BY <1>2 DEF Holds, Linked
<1>6. /\ L.last = IF Len(u) = 0 THEN INVALID_SLOT ELSE u[Len(u)]
      /\ \A i \in 1 .. Len(u) :
           L.prev[u[i]] = IF i = 1 THEN INVALID_SLOT ELSE u[i - 1]
  BY <1>2 DEF Holds, Backed
<1> QED BY <1>1, <1>2, <1>3, <1>4, <1>5, <1>6

(* The converse, for lists that are known to hold no slot twice.           *)
LEMMA HoldsBy ==
    ASSUME NEW L \in LinksType,
           NEW u \in Seq(AllSlots), NEW f \in Seq(AllSlots),
           IsInjective(u), IsInjective(f), Range(u) \cap Range(f) = {},
           L.first = IF Len(u) = 0 THEN INVALID_SLOT ELSE u[1],
           L.last = IF Len(u) = 0 THEN INVALID_SLOT ELSE u[Len(u)],
           L.free = IF Len(f) = 0 THEN INVALID_SLOT ELSE f[1],
           \A i \in 1 .. Len(u) :
                /\ L.next[u[i]] = IF i = Len(u) THEN INVALID_SLOT ELSE u[i + 1]
                /\ L.prev[u[i]] = IF i = 1 THEN INVALID_SLOT ELSE u[i - 1],
           \A i \in 1 .. Len(f) :
                L.next[f[i]] = IF i = Len(f) THEN INVALID_SLOT ELSE f[i + 1]
    PROVE  Holds(L, u, f)
<1>1. /\ DOMAIN u = 1 .. Len(u) /\ DOMAIN f = 1 .. Len(f)
      /\ (u = <<>> <=> Len(u) = 0) /\ (f = <<>> <=> Len(f) = 0)
  OBVIOUS
<1>2. Linked(L.next, L.first, u)  BY <1>1 DEF Linked
<1>3. Linked(L.next, L.free, f)  BY <1>1 DEF Linked
<1>4. Backed(L.prev, L.last, u)  BY <1>1 DEF Backed
<1> QED BY <1>2, <1>3, <1>4 DEF Holds

LEMMA PopFreeHolds ==
    ASSUME NEW L, NEW u, NEW f, Holds(L, u, f), L.free # INVALID_SLOT
    PROVE  /\ 1 \in DOMAIN f /\ f[1] = L.free
           /\ Holds(PopFree(L), u, Cut(f, 1))
<1> DEFINE n == Len(f)
           r == Cut(f, 1)
           M == PopFree(L)
<1>1. n \in Nat /\ n # 0 /\ 1 \in 1 .. n /\ DOMAIN f = 1 .. n /\ f[1] = L.free
  BY HoldsAt
<1>2. /\ r \in Seq(AllSlots) /\ Len(r) = n - 1 /\ IsInjective(r)
      /\ Range(r) = Range(f) \ {f[1]}
  BY <1>1, CutProperties DEF Holds
<1>3. \A j \in 1 .. n - 1 : r[j] = f[j + 1]
  BY <1>1 DEF Cut
<1>4. L \in LinksType /\ L.next[f[1]] = IF 1 = n THEN INVALID_SLOT ELSE f[2]
  <2>1. L \in LinksType  BY DEF Holds
  <2> QED BY <2>1, <1>1, HoldsAt
<1>5. L.next[f[1]] \in Ends
  BY <1>1, <1>4, HoldsAt DEF LinksType
<1>6. /\ M \in LinksType
      /\ M.next = L.next /\ M.prev = L.prev /\ M.first = L.first /\ M.last = L.last
      /\ M.free = L.next[f[1]]
  BY <1>1, <1>4, <1>5 DEF PopFree, LinksType
<1> HIDE DEF n, r, M
<1>7. M.free = IF Len(r) = 0 THEN INVALID_SLOT ELSE r[1]
  BY <1>1, <1>2, <1>3, <1>4, <1>6
<1>8. ASSUME NEW j \in 1 .. Len(r)
      PROVE  M.next[r[j]] = IF j = Len(r) THEN INVALID_SLOT ELSE r[j + 1]
  <2>1. j \in 1 .. n - 1 /\ j + 1 \in 1 .. n /\ r[j] = f[j + 1]
    BY <1>1, <1>2, <1>3
  <2>2. L.next[f[j + 1]] = IF j + 1 = n THEN INVALID_SLOT ELSE f[j + 1 + 1]
    BY <2>1, HoldsAt DEF n
  <2>3. j # n - 1 => j + 1 \in 1 .. n - 1
    BY <2>1, <1>1
  <2> QED BY <2>1, <2>2, <2>3, <1>1, <1>2, <1>3, <1>6
<1>9. Holds(M, u, r)
  <2>1. /\ u \in Seq(AllSlots) /\ IsInjective(u) /\ Range(u) \cap Range(r) = {}
    BY <1>2 DEF Holds
  <2>2. /\ M.first = IF Len(u) = 0 THEN INVALID_SLOT ELSE u[1]
        /\ M.last = IF Len(u) = 0 THEN INVALID_SLOT ELSE u[Len(u)]
        /\ \A i \in 1 .. Len(u) :
             /\ M.next[u[i]] = IF i = Len(u) THEN INVALID_SLOT ELSE u[i + 1]
             /\ M.prev[u[i]] = IF i = 1 THEN INVALID_SLOT ELSE u[i - 1]
    BY <1>6, HoldsAt
  <2> QED BY <2>1, <2>2, <1>2, <1>6, <1>7, <1>8, HoldsBy
<1> QED BY <1>1, <1>9 DEF M, r

LEMMA InsertFreeHolds ==
    ASSUME NEW L, NEW u, NEW f, Holds(L, u, f),
           NEW s \in AllSlots, s \notin Range(u), s \notin Range(f)
    PROVE  Holds(InsertFree(L, s), u, LinkHead(f, s))
<1> DEFINE n == Len(f)
           r == LinkHead(f, s)
           M == InsertFree(L, s)
<1>1. L \in LinksType /\ n \in Nat /\ DOMAIN f = 1 .. n /\ DOMAIN u = 1 .. Len(u)
  BY HoldsAt
<1>2. /\ r \in Seq(AllSlots) /\ Len(r) = n + 1 /\ IsInjective(r)
      /\ Range(r) = Range(f) \cup {s} /\ r[1] = s
      /\ \A j \in 2 .. n + 1 : r[j] = f[j - 1]
  BY LinkHeadProperties DEF Holds
<1>3. /\ M \in LinksType
      /\ M.next = [L.next EXCEPT ![s] = L.free]
      /\ M.prev = L.prev /\ M.first = L.first /\ M.last = L.last /\ M.free = s
  BY <1>1, NoSlot DEF InsertFree, LinksType, Ends
<1>4. /\ \A t \in AllSlots : M.next[t] = IF t = s THEN L.free ELSE L.next[t]
  BY <1>1, <1>3 DEF LinksType
<1>5. /\ \A i \in 1 .. Len(u) : u[i] # s
      /\ \A j \in 1 .. n : f[j] # s
  BY <1>1 DEF Range
<1> HIDE DEF n, r, M
<1>6. ASSUME NEW j \in 1 .. Len(r)
      PROVE  M.next[r[j]] = IF j = Len(r) THEN INVALID_SLOT ELSE r[j + 1]
  <2>1. CASE j = 1
    <3>1. M.next[r[j]] = L.free  BY <2>1, <1>2, <1>4
    <3>2. L.free = IF n = 0 THEN INVALID_SLOT ELSE f[1]  BY HoldsAt DEF n
    <3>3. n # 0 => 2 \in 2 .. n + 1 /\ r[2] = f[1]  BY <1>1, <1>2
    <3> QED BY <2>1, <3>1, <3>2, <3>3, <1>1, <1>2
  <2>2. CASE j # 1
    <3>1. /\ j \in 2 .. n + 1 /\ j - 1 \in 1 .. n /\ r[j] = f[j - 1]
          /\ j # n + 1 => j + 1 \in 2 .. n + 1
      BY <2>2, <1>1, <1>2
    <3>2. f[j - 1] \in AllSlots /\ f[j - 1] # s
          /\ L.next[f[j - 1]] = IF j - 1 = n THEN INVALID_SLOT ELSE f[j - 1 + 1]
      BY <3>1, <1>5, HoldsAt DEF n
    <3>3. M.next[r[j]] = L.next[f[j - 1]]  BY <3>1, <3>2, <1>4
    <3> QED BY <3>1, <3>2, <3>3, <1>1, <1>2
  <2> QED BY <2>1, <2>2
<1>7. Holds(M, u, r)
  <2>1. /\ u \in Seq(AllSlots) /\ IsInjective(u) /\ Range(u) \cap Range(r) = {}
    BY <1>2 DEF Holds
  <2>2. /\ M.first = IF Len(u) = 0 THEN INVALID_SLOT ELSE u[1]
        /\ M.last = IF Len(u) = 0 THEN INVALID_SLOT ELSE u[Len(u)]
        /\ \A i \in 1 .. Len(u) :
             /\ M.next[u[i]] = IF i = Len(u) THEN INVALID_SLOT ELSE u[i + 1]
             /\ M.prev[u[i]] = IF i = 1 THEN INVALID_SLOT ELSE u[i - 1]
    BY <1>3, <1>4, <1>5, HoldsAt
  <2>3. M.free = IF Len(r) = 0 THEN INVALID_SLOT ELSE r[1]
    BY <1>1, <1>2, <1>3
  <2> QED BY <2>1, <2>2, <2>3, <1>2, <1>3, <1>6, HoldsBy
<1> QED BY <1>7 DEF M, r

LEMMA LinkHolds ==
    ASSUME NEW L, NEW u, NEW f, Holds(L, u, f),
           NEW s \in AllSlots, s \notin Range(u), s \notin Range(f)
    PROVE  Holds(LinkSlot(L, s), LinkHead(u, s), f)
<1> DEFINE m == Len(u)
           r == LinkHead(u, s)
           M == LinkSlot(L, s)
<1>0. L \in LinksType  BY DEF Holds
<1>1. m \in Nat /\ DOMAIN u = 1 .. m /\ DOMAIN f = 1 .. Len(f)
  BY HoldsAt
<1>2. /\ r \in Seq(AllSlots) /\ Len(r) = m + 1 /\ IsInjective(r)
      /\ Range(r) = Range(u) \cup {s} /\ r[1] = s
      /\ \A j \in 2 .. m + 1 : r[j] = u[j - 1]
  BY LinkHeadProperties DEF Holds
<1>3. /\ M \in LinksType
      /\ M.next = [L.next EXCEPT ![s] = L.first]
      /\ M.prev = [t \in AllSlots |-> IF t = s THEN INVALID_SLOT
                                      ELSE IF t = L.first THEN s ELSE L.prev[t]]
      /\ M.first = s /\ M.last = (IF L.last = INVALID_SLOT THEN s ELSE L.last)
      /\ M.free = L.free
  <2>1. [t \in AllSlots |-> IF t = s THEN INVALID_SLOT
                            ELSE IF t = L.first THEN s ELSE L.prev[t]] \in [AllSlots -> Ends]
    BY <1>0, NoSlot DEF LinksType, Ends
  <2>2. [L.next EXCEPT ![s] = L.first] \in [AllSlots -> Ends]
    BY <1>0 DEF LinksType
  <2> QED BY <1>0, <2>1, <2>2 DEF LinkSlot, LinksType, Ends
<1>4. \A t \in AllSlots :
        /\ M.next[t] = IF t = s THEN L.first ELSE L.next[t]
        /\ M.prev[t] = IF t = s THEN INVALID_SLOT ELSE IF t = L.first THEN s ELSE L.prev[t]
  BY <1>0, <1>3 DEF LinksType
<1>5. /\ \A i \in 1 .. m : u[i] # s
      /\ \A j \in 1 .. Len(f) : f[j] # s
  BY <1>1 DEF Range
<1>6. /\ L.first = IF m = 0 THEN INVALID_SLOT ELSE u[1]
      /\ L.last = IF m = 0 THEN INVALID_SLOT ELSE u[m]
      /\ L.free = IF Len(f) = 0 THEN INVALID_SLOT ELSE f[1]
      /\ \A i \in 1 .. Len(f) :
           /\ f[i] \in AllSlots
           /\ L.next[f[i]] = IF i = Len(f) THEN INVALID_SLOT ELSE f[i + 1]
  BY HoldsAt
<1>7. /\ \A i \in 1 .. m :
           /\ u[i] \in AllSlots
           /\ L.next[u[i]] = IF i = m THEN INVALID_SLOT ELSE u[i + 1]
           /\ L.prev[u[i]] = IF i = 1 THEN INVALID_SLOT ELSE u[i - 1]
      /\ \A i, j \in 1 .. m : u[i] = u[j] => i = j
  BY HoldsAt
<1> HIDE DEF m, r, M
<1>8. ASSUME NEW j \in 1 .. Len(r)
      PROVE  /\ M.next[r[j]] = IF j = Len(r) THEN INVALID_SLOT ELSE r[j + 1]
             /\ M.prev[r[j]] = IF j = 1 THEN INVALID_SLOT ELSE r[j - 1]
  <2>1. CASE j = 1
    <3>1. M.next[r[j]] = L.first /\ M.prev[r[j]] = INVALID_SLOT
      BY <2>1, <1>2, <1>4
    <3>2. m # 0 => 2 \in 2 .. m + 1 /\ r[2] = u[1]  BY <1>1, <1>2
    <3>3. (j = Len(r) <=> m = 0) /\ j + 1 = 2  BY <2>1, <1>1, <1>2
    <3> QED BY <2>1, <3>1, <3>2, <3>3, <1>6
  <2>2. CASE j # 1
    <3>1. /\ j \in 2 .. m + 1 /\ j - 1 \in 1 .. m /\ r[j] = u[j - 1] /\ 1 \in 1 .. m /\ m # 0
          /\ j # m + 1 => j + 1 \in 2 .. m + 1 /\ r[j + 1] = u[j]
          /\ j # 2 => j - 1 \in 2 .. m + 1 /\ r[j - 1] = u[j - 1 - 1]
      BY <2>2, <1>1, <1>2
    <3>2. /\ u[j - 1] \in AllSlots /\ u[j - 1] # s
          /\ L.next[u[j - 1]] = IF j - 1 = m THEN INVALID_SLOT ELSE u[j - 1 + 1]
          /\ L.prev[u[j - 1]] = IF j - 1 = 1 THEN INVALID_SLOT ELSE u[j - 1 - 1]
          /\ L.first = u[1] /\ (u[j - 1] = u[1] => j - 1 = 1)
      BY <3>1, <1>1, <1>5, <1>6, <1>7
    <3>3. M.next[r[j]] = L.next[u[j - 1]]
      BY <3>1, <3>2, <1>4
    <3>4. M.next[r[j]] = IF j = Len(r) THEN INVALID_SLOT ELSE r[j + 1]
      BY <3>1, <3>2, <3>3, <1>1, <1>2
    <3>5. M.prev[r[j]] = IF u[j - 1] = u[1] THEN s ELSE L.prev[u[j - 1]]
      BY <3>1, <3>2, <1>4
    <3>6. M.prev[r[j]] = r[j - 1]
      <4>1. CASE j = 2
        BY <4>1, <3>5, <1>2
      <4>2. CASE j # 2
        BY <4>2, <3>1, <3>2, <3>5
      <4> QED BY <4>1, <4>2
    <3> QED BY <2>2, <3>4, <3>6
  <2> QED BY <2>1, <2>2
<1>9. M.last = IF Len(r) = 0 THEN INVALID_SLOT ELSE r[Len(r)]
  <2>1. CASE m = 0
    BY <2>1, <1>2, <1>3, <1>6
  <2>2. CASE m # 0
    <3>1. /\ m \in 1 .. m /\ m + 1 \in 2 .. m + 1 /\ r[m + 1] = u[m + 1 - 1]
          /\ m + 1 - 1 = m /\ m + 1 # 0
      BY <2>2, <1>1, <1>2
    <3>2. L.last = u[m] /\ u[m] # INVALID_SLOT  BY <2>2, <3>1, <1>6, <1>7, NoSlot
    <3> QED BY <3>1, <3>2, <1>2, <1>3
  <2> QED BY <2>1, <2>2
<1>10. ASSUME NEW i \in 1 .. Len(f)
       PROVE  M.next[f[i]] = IF i = Len(f) THEN INVALID_SLOT ELSE f[i + 1]
  BY <1>4, <1>5, <1>6
<1>11. Holds(M, r, f)
  <2>1. /\ f \in Seq(AllSlots) /\ IsInjective(f) /\ Range(r) \cap Range(f) = {}
    BY <1>2 DEF Holds
  <2>2. M.first = IF Len(r) = 0 THEN INVALID_SLOT ELSE r[1]
    BY <1>1, <1>2, <1>3
  <2>3. M.free = IF Len(f) = 0 THEN INVALID_SLOT ELSE f[1]
    BY <1>3, <1>6
  <2> QED BY <2>1, <2>2, <2>3, <1>2, <1>3, <1>8, <1>9, <1>10, HoldsBy
<1> QED BY <1>11 DEF M, r

LEMMA UnlinkHolds ==
    ASSUME NEW L, NEW u, NEW f, Holds(L, u, f), NEW i \in DOMAIN u
    PROVE  Holds(UnlinkSlot(L, u[i]), Cut(u, i), f)
<1> DEFINE m == Len(u)
           s == u[i]
           r == Cut(u, i)
           M == UnlinkSlot(L, s)
<1>0. L \in LinksType  BY DEF Holds
<1>1. m \in Nat /\ DOMAIN u = 1 .. m /\ DOMAIN f = 1 .. Len(f) /\ i \in 1 .. m
  BY HoldsAt
<1>2. /\ r \in Seq(AllSlots) /\ Len(r) = m - 1 /\ IsInjective(r)
      /\ Range(r) = Range(u) \ {s}
  BY CutProperties DEF Holds
<1>3. \A j \in 1 .. m - 1 : r[j] = IF j < i THEN u[j] ELSE u[j + 1]
  BY DEF Cut
<1>6. /\ L.first = IF m = 0 THEN INVALID_SLOT ELSE u[1]
      /\ L.last = IF m = 0 THEN INVALID_SLOT ELSE u[m]
      /\ L.free = IF Len(f) = 0 THEN INVALID_SLOT ELSE f[1]
      /\ \A j \in 1 .. Len(f) :
           /\ f[j] \in AllSlots
           /\ L.next[f[j]] = IF j = Len(f) THEN INVALID_SLOT ELSE f[j + 1]
  BY HoldsAt
<1>7. /\ \A j \in 1 .. m :
           /\ u[j] \in AllSlots
           /\ L.next[u[j]] = IF j = m THEN INVALID_SLOT ELSE u[j + 1]
           /\ L.prev[u[j]] = IF j = 1 THEN INVALID_SLOT ELSE u[j - 1]
      /\ \A j, k \in 1 .. m : u[j] = u[k] => j = k
      /\ \A j \in 1 .. m, k \in 1 .. Len(f) : u[j] # f[k]
  BY HoldsAt
<1>8. /\ s \in AllSlots
      /\ L.next[s] = IF i = m THEN INVALID_SLOT ELSE u[i + 1]
      /\ L.prev[s] = IF i = 1 THEN INVALID_SLOT ELSE u[i - 1]
      /\ L.next[s] \in Ends /\ L.prev[s] \in Ends
  BY <1>0, <1>1, <1>7 DEF LinksType
<1> HIDE DEF s
<1>4. /\ M \in LinksType
      /\ M.next = [t \in AllSlots |-> IF t = s THEN INVALID_SLOT
                                      ELSE IF t = L.prev[s] THEN L.next[s] ELSE L.next[t]]
      /\ M.prev = [t \in AllSlots |-> IF t = s THEN INVALID_SLOT
                                      ELSE IF t = L.next[s] THEN L.prev[s] ELSE L.prev[t]]
      /\ M.first = (IF L.first = s THEN L.next[s] ELSE L.first)
      /\ M.last = (IF L.last = s THEN L.prev[s] ELSE L.last)
      /\ M.free = L.free
  <2>1. /\ [t \in AllSlots |-> IF t = s THEN INVALID_SLOT
                 ELSE IF t = L.prev[s] THEN L.next[s] ELSE L.next[t]] \in [AllSlots -> Ends]
        /\ [t \in AllSlots |-> IF t = s THEN INVALID_SLOT
                 ELSE IF t = L.next[s] THEN L.prev[s] ELSE L.prev[t]] \in [AllSlots -> Ends]
    BY <1>0, <1>8, NoSlot DEF LinksType
  <2> QED BY <1>0, <1>8, <2>1 DEF UnlinkSlot, LinksType
<1> HIDE DEF M, r, m
<1>5. \A j \in 1 .. m : (u[j] = s <=> j = i) /\ u[j] # INVALID_SLOT
  BY <1>1, <1>7, NoSlot DEF s
<1>9. ASSUME NEW j \in 1 .. m, j # i
      PROVE  /\ M.next[u[j]] = IF j = i - 1 THEN L.next[s] ELSE L.next[u[j]]
             /\ M.prev[u[j]] = IF j = i + 1 THEN L.prev[s] ELSE L.prev[u[j]]
  <2>1. u[j] \in AllSlots /\ u[j] # s /\ u[j] # INVALID_SLOT
    BY <1>5, <1>7, <1>9
  <2>2. u[j] = L.prev[s] <=> j = i - 1
    <3>1. CASE i = 1
      BY <3>1, <2>1, <1>8, <1>1
    <3>2. CASE i # 1
      <4>1. L.prev[s] = u[i - 1] /\ i - 1 \in 1 .. m  BY <3>2, <1>1, <1>8
      <4> QED BY <4>1, <1>7
    <3> QED BY <3>1, <3>2
  <2>3. u[j] = L.next[s] <=> j = i + 1
    <3>1. CASE i = m
      BY <3>1, <2>1, <1>8, <1>1
    <3>2. CASE i # m
      <4>1. L.next[s] = u[i + 1] /\ i + 1 \in 1 .. m  BY <3>2, <1>1, <1>8
      <4> QED BY <4>1, <1>7
    <3> QED BY <3>1, <3>2
  <2>4. /\ M.next[u[j]] = IF u[j] = L.prev[s] THEN L.next[s] ELSE L.next[u[j]]
        /\ M.prev[u[j]] = IF u[j] = L.next[s] THEN L.prev[s] ELSE L.prev[u[j]]
    BY <2>1, <1>4
  <2> QED BY <2>2, <2>3, <2>4
(* The neighbours of position j of the shorter list.                       *)
<1>10. ASSUME NEW j \in 1 .. Len(r)
       PROVE  M.next[r[j]] = IF j = Len(r) THEN INVALID_SLOT ELSE r[j + 1]
  <2>0. j \in 1 .. m - 1 /\ j \in 1 .. m /\ j + 1 \in 1 .. m /\ Len(r) = m - 1
        /\ (j # m - 1 => j + 1 \in 1 .. m - 1 /\ j + 2 \in 1 .. m /\ j + 1 + 1 = j + 2)
    BY <1>1, <1>2
  <2>1. CASE j < i - 1
    <3>1. /\ r[j] = u[j] /\ j # i /\ j # i - 1 /\ j # m /\ j # m - 1
          /\ r[j + 1] = u[j + 1]
      BY <2>0, <2>1, <1>1, <1>3
    <3> QED BY <3>1, <2>0, <1>7, <1>9
  <2>2. CASE j = i - 1
    <3>1. r[j] = u[j] /\ M.next[u[j]] = L.next[s]
      BY <2>0, <2>2, <1>1, <1>3, <1>9
    <3>2. j # m - 1 => r[j + 1] = u[i + 1]
      BY <2>0, <2>2, <1>1, <1>3
    <3> QED BY <3>1, <3>2, <2>0, <2>2, <1>1, <1>8
  <2>3. CASE j >= i
    <3>1. /\ r[j] = u[j + 1] /\ j + 1 # i /\ j + 1 # i - 1
          /\ j # m - 1 => r[j + 1] = u[j + 2]
      BY <2>0, <2>3, <1>1, <1>3
    <3>2. M.next[u[j + 1]] = L.next[u[j + 1]]
      BY <3>1, <2>0, <1>9
    <3>3. L.next[u[j + 1]] = IF j + 1 = m THEN INVALID_SLOT ELSE u[j + 1 + 1]
      BY <2>0, <1>7
    <3> QED BY <3>1, <3>2, <3>3, <2>0, <1>1
  <2> QED BY <2>0, <2>1, <2>2, <2>3, <1>1
<1>11. ASSUME NEW j \in 1 .. Len(r)
       PROVE  M.prev[r[j]] = IF j = 1 THEN INVALID_SLOT ELSE r[j - 1]
  <2>0. j \in 1 .. m - 1 /\ j \in 1 .. m /\ j + 1 \in 1 .. m /\ Len(r) = m - 1
        /\ (j # 1 => j - 1 \in 1 .. m - 1 /\ j - 1 \in 1 .. m /\ j - 1 + 1 = j)
    BY <1>1, <1>2
  <2>1. CASE j < i
    <3>1. /\ r[j] = u[j] /\ j # i /\ j # i + 1
          /\ j # 1 => r[j - 1] = u[j - 1]
      BY <2>0, <2>1, <1>1, <1>3
    <3> QED BY <3>1, <2>0, <1>7, <1>9
  <2>2. CASE j = i
    <3>0. r[j] = u[j + 1] /\ j + 1 # i /\ j + 1 = i + 1
      BY <2>0, <2>2, <1>1, <1>3
    <3>1. r[j] = u[j + 1] /\ M.prev[u[j + 1]] = L.prev[s]
      BY <3>0, <2>0, <1>9
    <3>2. j # 1 => r[j - 1] = u[i - 1]
      BY <2>0, <2>2, <1>1, <1>3
    <3> QED BY <3>1, <3>2, <2>0, <2>2, <1>1, <1>8
  <2>3. CASE j > i
    <3>1. /\ r[j] = u[j + 1] /\ j + 1 # i /\ j + 1 # i + 1 /\ j # 1
          /\ r[j - 1] = u[j]
      BY <2>0, <2>3, <1>1, <1>3
    <3>2. M.prev[u[j + 1]] = L.prev[u[j + 1]]
      BY <3>1, <2>0, <1>9
    <3>3. L.prev[u[j + 1]] = u[j]
      <4>1. L.prev[u[j + 1]] = IF j + 1 = 1 THEN INVALID_SLOT ELSE u[j + 1 - 1]
        BY <2>0, <1>7
      <4>2. j + 1 # 1 /\ j + 1 - 1 = j  BY <2>0
      <4> QED BY <4>1, <4>2
    <3> QED BY <3>1, <3>2, <3>3
  <2> QED BY <2>0, <2>1, <2>2, <2>3, <1>1
<1>12. M.first = IF Len(r) = 0 THEN INVALID_SLOT ELSE r[1]
  <2>a. 1 \in 1 .. m /\ m # 0  BY <1>1
  <2>0. L.first = u[1]  BY <2>a, <1>6
  <2>1. CASE i = 1
    <3>1. M.first = L.next[s]  BY <2>a, <2>0, <2>1, <1>4, <1>5
    <3>2. m # 1 => 1 \in 1 .. m - 1 /\ r[1] = u[2]  BY <2>1, <1>1, <1>3
    <3> QED BY <2>1, <3>1, <3>2, <1>1, <1>2, <1>8
  <2>2. CASE i # 1
    <3>1. M.first = u[1]  BY <2>a, <2>0, <2>2, <1>4, <1>5
    <3>2. m - 1 # 0 /\ 1 \in 1 .. m - 1 /\ r[1] = u[1]  BY <2>2, <1>1, <1>3
    <3> QED BY <3>1, <3>2, <1>2
  <2> QED BY <2>1, <2>2
<1>13. M.last = IF Len(r) = 0 THEN INVALID_SLOT ELSE r[Len(r)]
  <2>a. m \in 1 .. m /\ m # 0  BY <1>1
  <2>0. L.last = u[m]  BY <2>a, <1>6
  <2>1. CASE i = m
    <3>1. M.last = L.prev[s]  BY <2>a, <2>0, <2>1, <1>4, <1>5
    <3>2. m # 1 => m - 1 \in 1 .. m - 1 /\ r[m - 1] = u[m - 1]  BY <2>1, <1>1, <1>3
    <3> QED BY <2>1, <3>1, <3>2, <1>1, <1>2, <1>8
  <2>2. CASE i # m
    <3>1. M.last = u[m]  BY <2>a, <2>0, <2>2, <1>4, <1>5
    <3>2. m - 1 # 0 /\ m - 1 \in 1 .. m - 1 /\ r[m - 1] = u[m - 1 + 1] /\ m - 1 + 1 = m
      BY <2>2, <1>1, <1>3
    <3> QED BY <3>1, <3>2, <1>2
  <2> QED BY <2>1, <2>2
<1>14. ASSUME NEW j \in 1 .. Len(f)
       PROVE  M.next[f[j]] = IF j = Len(f) THEN INVALID_SLOT ELSE f[j + 1]
  <2>1. f[j] # s /\ f[j] # L.prev[s]
    <3>1. f[j] # s  BY <1>1, <1>7 DEF s
    <3>2. i # 1 => i - 1 \in 1 .. m  BY <1>1
    <3>3. f[j] # INVALID_SLOT  BY <1>6, NoSlot
    <3> QED BY <3>1, <3>2, <3>3, <1>7, <1>8
  <2>2. M.next[f[j]] = L.next[f[j]]
    BY <2>1, <1>4, <1>6
  <2> QED BY <2>2, <1>6
<1>15. Holds(M, r, f)
  <2>1. /\ f \in Seq(AllSlots) /\ IsInjective(f) /\ Range(r) \cap Range(f) = {}
    BY <1>2 DEF Holds
  <2>3. M.free = IF Len(f) = 0 THEN INVALID_SLOT ELSE f[1]
    BY <1>4, <1>6
  <2> QED BY <2>1, <2>3, <1>2, <1>4, <1>10, <1>11, <1>12, <1>13, <1>14, HoldsBy
<1> QED BY <1>15 DEF M, r, s

(* An empty used list, and a free list of all the slots of a table of n.   *)
AllFree(n) == [i \in 1 .. n |-> i - 1]

LEMMA FreshHolds ==
    ASSUME NEW n \in 1 .. MaxSlots
    PROVE  Holds(FreshLinks(n), <<>>, AllFree(n)) /\ Share(n, <<>>, AllFree(n))
<1> DEFINE f == AllFree(n)
           M == FreshLinks(n)
<1>1. n \in Nat /\ n # 0 /\ n <= MaxSlots /\ MaxSlots \in Nat
  BY SizesAssumption
<1>2. f \in [1 .. n -> AllSlots]
  BY <1>1 DEF AllFree, AllSlots
<1>3. f \in Seq(AllSlots) /\ Len(f) = n /\ DOMAIN f = 1 .. n
  <2>1. f \in Seq(AllSlots)  BY <1>1, <1>2, IsASeq
  <2>2. DOMAIN f = 1 .. n  BY <1>2
  <2> HIDE DEF f
  <2> QED BY <2>1, <2>2, <1>1
<1>4. \A i \in 1 .. n : f[i] = i - 1
  BY DEF AllFree
<1>5. /\ \A t \in AllSlots : (IF t < n - 1 THEN t + 1 ELSE INVALID_SLOT) \in Ends
      /\ \A t \in AllSlots : (IF t < n THEN t - 1 ELSE INVALID_SLOT) \in Ends
  BY <1>1 DEF AllSlots, Ends, INVALID_SLOT
<1>6. /\ M \in LinksType
      /\ M.next = [t \in AllSlots |-> IF t < n - 1 THEN t + 1 ELSE INVALID_SLOT]
      /\ M.first = INVALID_SLOT /\ M.last = INVALID_SLOT /\ M.free = 0
  <2>1. 0 \in Ends  BY <1>1 DEF AllSlots, Ends
  <2>2. /\ [t \in AllSlots |-> IF t < n - 1 THEN t + 1 ELSE INVALID_SLOT] \in [AllSlots -> Ends]
        /\ [t \in AllSlots |-> IF t < n THEN t - 1 ELSE INVALID_SLOT] \in [AllSlots -> Ends]
    BY <1>5
  <2> QED BY <2>1, <2>2, NoSlot DEF FreshLinks, LinksType
<1> HIDE DEF f, M
<1>7. ASSUME NEW i \in 1 .. Len(f)
      PROVE  M.next[f[i]] = IF i = Len(f) THEN INVALID_SLOT ELSE f[i + 1]
  <2>1. i \in 1 .. n /\ f[i] = i - 1 /\ i - 1 \in AllSlots /\ (i = n <=> ~(i - 1 < n - 1))
    BY <1>1, <1>3, <1>4 DEF AllSlots
  <2>2. i # n => i + 1 \in 1 .. n /\ f[i + 1] = i
    BY <2>1, <1>1, <1>4
  <2> QED BY <2>1, <2>2, <1>3, <1>6
<1>8. IsInjective(f) /\ Range(f) = 0 .. n - 1
  <2>1. IsInjective(f)  BY <1>3, <1>4 DEF IsInjective
  <2>2. ASSUME NEW t \in 0 .. n - 1 PROVE t \in Range(f)
    <3>1. t + 1 \in 1 .. n /\ t + 1 - 1 = t  BY <1>1
    <3>2. f[t + 1] = t  BY <3>1, <1>4
    <3> QED BY <3>1, <3>2, <1>3 DEF Range
  <2>3. ASSUME NEW t \in Range(f) PROVE t \in 0 .. n - 1
    <3>1. PICK i \in 1 .. n : t = f[i]  BY <1>3 DEF Range
    <3> QED BY <3>1, <1>1, <1>4
  <2> QED BY <2>1, <2>2, <2>3
<1>9. <<>> \in Seq(AllSlots) /\ IsInjective(<<>>) /\ Range(<<>>) = {} /\ Len(<<>>) = 0
  BY DEF IsInjective, Range
<1>10. Holds(M, <<>>, f)
  <2>1. 1 \in 1 .. n /\ f[1] = 0  BY <1>1, <1>4
  <2> QED BY <2>1, <1>1, <1>3, <1>6, <1>7, <1>8, <1>9, HoldsBy
<1> QED BY <1>8, <1>9, <1>10 DEF M, f, Share

(* A list that holds no slot twice is as long as its set of slots is big.  *)
LEMMA LengthIs ==
    ASSUME NEW X, NEW q \in Seq(X), IsInjective(q)
    PROVE  IsFiniteSet(Range(q)) /\ Cardinality(Range(q)) = Len(q)
<1>1. Len(q) \in Nat /\ DOMAIN q = 1 .. Len(q)
  OBVIOUS
<1>2. IsFiniteSet(1 .. Len(q)) /\ Cardinality(1 .. Len(q)) = Len(q)
  BY <1>1, FS_Interval
<1>3. q \in Bijection(1 .. Len(q), Range(q))
  <2>1. q \in [1 .. Len(q) -> Range(q)]
    BY <1>1 DEF Range
  <2>2. \A a, b \in 1 .. Len(q) : q[a] = q[b] => a = b
    BY <1>1 DEF IsInjective
  <2>3. \A t \in Range(q) : \E a \in 1 .. Len(q) : q[a] = t
    BY <1>1 DEF Range
  <2> QED BY <2>1, <2>2, <2>3 DEF Bijection, Injection, Surjection, IsInjective
<1>4. ExistsBijection(1 .. Len(q), Range(q))
  BY <1>3 DEF ExistsBijection
<1> QED BY <1>2, <1>4, FS_Bijection

(* The chains the code would meet are the lists the pointers hold.         *)
LEMMA ChainsAre ==
    ASSUME NEW n \in Nat, NEW L, NEW u, NEW f, Holds(L, u, f), Share(n, u, f)
    PROVE  /\ Walk(n, L.next, L.first) = u
           /\ Walk(n, L.next, L.free) = f
           /\ Walk(n, L.prev, L.last) = ReverseOf(u)
           /\ Len(u) + Len(f) = n
<1>1. /\ u \in Seq(AllSlots) /\ IsInjective(u) /\ f \in Seq(AllSlots) /\ IsInjective(f)
      /\ Range(u) \cap Range(f) = {} /\ Range(u) \cup Range(f) = 0 .. n - 1
  BY DEF Holds, Share
<1>2. Len(u) + Len(f) = n
  <2>1. /\ IsFiniteSet(Range(u)) /\ Cardinality(Range(u)) = Len(u)
        /\ IsFiniteSet(Range(f)) /\ Cardinality(Range(f)) = Len(f)
    BY <1>1, LengthIs
  <2>2. Cardinality(0 .. n - 1) = n
    BY FS_Interval
  <2>3. Cardinality(Range(u) \cup Range(f)) = Cardinality(Range(u)) + Cardinality(Range(f))
    <3>1. /\ Cardinality(Range(u) \cup Range(f))
               = Cardinality(Range(u)) + Cardinality(Range(f))
                 - Cardinality(Range(u) \cap Range(f))
      BY <2>1, FS_Union
    <3>2. Cardinality(Range(u) \cap Range(f)) = 0
      BY <1>1, FS_EmptySet
    <3> QED BY <3>1, <3>2, <2>1, <1>1
  <2> QED BY <2>1, <2>2, <2>3, <1>1
<1>3. Len(u) \in Nat /\ Len(f) \in Nat /\ Len(u) <= n /\ Len(f) <= n
  BY <1>1, <1>2
<1>4. Linked(L.next, L.first, u) /\ Linked(L.next, L.free, f)
  BY DEF Holds
<1>5. Walk(n, L.next, L.first) = u
  BY <1>1, <1>3, <1>4, NoSlot, WalkIs
<1>6. Walk(n, L.next, L.free) = f
  BY <1>1, <1>3, <1>4, NoSlot, WalkIs
<1> DEFINE r == ReverseOf(u)
           m == Len(u)
<1>7. r \in Seq(AllSlots)
  BY <1>1, ReverseProperties
<1>8. m \in Nat /\ DOMAIN u = 1 .. m /\ DOMAIN r = 1 .. m /\ Len(r) = m
  <2>1. m \in Nat /\ DOMAIN u = 1 .. m /\ DOMAIN r = 1 .. m
    BY <1>1 DEF ReverseOf
  <2> HIDE DEF r, m
  <2> QED BY <2>1, <1>7
<1>9. \A i \in 1 .. m : r[i] = u[m + 1 - i]
  BY <1>8 DEF ReverseOf
<1>10. /\ L.last = IF m = 0 THEN INVALID_SLOT ELSE u[m]
       /\ \A i \in 1 .. m : L.prev[u[i]] = IF i = 1 THEN INVALID_SLOT ELSE u[i - 1]
  BY HoldsAt
<1> HIDE DEF r, m
<1>11. L.last = IF r = <<>> THEN INVALID_SLOT ELSE r[1]
  <2>1. r = <<>> <=> m = 0  BY <1>7, <1>8
  <2>2. m # 0 => 1 \in 1 .. m /\ r[1] = u[m + 1 - 1] /\ m + 1 - 1 = m  BY <1>8, <1>9
  <2> QED BY <2>1, <2>2, <1>10
<1>12. ASSUME NEW i \in DOMAIN r
       PROVE  L.prev[r[i]] = IF i = Len(r) THEN INVALID_SLOT ELSE r[i + 1]
  <2>1. i \in 1 .. m /\ m + 1 - i \in 1 .. m /\ r[i] = u[m + 1 - i]
    BY <1>8, <1>9
  <2>2. L.prev[u[m + 1 - i]] = IF m + 1 - i = 1 THEN INVALID_SLOT ELSE u[m + 1 - i - 1]
    <3> DEFINE k == m + 1 - i
    <3>1. k \in 1 .. m  BY <2>1
    <3> HIDE DEF k
    <3>2. L.prev[u[k]] = IF k = 1 THEN INVALID_SLOT ELSE u[k - 1]
      BY <3>1, <1>10
    <3>3. k = m + 1 - i  BY DEF k
    <3> QED BY <3>1, <3>2, <3>3, <1>8
  <2>3. i # m => i + 1 \in 1 .. m /\ r[i + 1] = u[m + 1 - (i + 1)]
                 /\ m + 1 - (i + 1) = m + 1 - i - 1
    BY <2>1, <1>8, <1>9
  <2>4. m + 1 - i = 1 <=> i = m
    BY <2>1, <1>8
  <2> QED BY <2>1, <2>2, <2>3, <2>4, <1>8
<1>13. Linked(L.prev, L.last, r)
  BY <1>11, <1>12 DEF Linked
<1>14. Walk(n, L.prev, L.last) = r
  BY <1>3, <1>7, <1>8, <1>13, NoSlot, WalkIs DEF m
<1> QED BY <1>2, <1>5, <1>6, <1>14 DEF r

(* So the invariant gives the lists in both directions, and a step need    *)
(* only say which lists its pointers hold.                                 *)
LEMMA BackIs ==
    ASSUME IInv
    PROVE  BackChain = ReverseOf(UsedChain) /\ Len(UsedChain) + Len(FreeChain) = numPages
<1>1. numPages \in Nat /\ Holds(links, UsedChain, FreeChain)
      /\ Share(numPages, UsedChain, FreeChain)
  BY DEF IInv, TypeOK
<1>2. Walk(numPages, links.prev, links.last) = ReverseOf(UsedChain)
      /\ Len(UsedChain) + Len(FreeChain) = numPages
  BY <1>1, ChainsAre
<1>3. BackChain = Walk(numPages, links.prev, links.last)
  BY DEF BackChain, Chain, Walk
<1> QED BY <1>2, <1>3

LEMMA NewChains ==
    ASSUME NEW u, NEW f, Holds(links', u, f), numPages' \in Nat, Share(numPages', u, f)
    PROVE  UsedChain' = u /\ FreeChain' = f
<1>1. /\ Walk(numPages', links'.next, links'.first) = u
      /\ Walk(numPages', links'.next, links'.free) = f
  BY ChainsAre
<1>2. UsedChain' = Walk(numPages', links'.next, links'.first)
  BY DEF UsedChain, Chain, Walk
<1>3. FreeChain' = Walk(numPages', links'.next, links'.free)
  BY DEF FreeChain, Chain, Walk
<1> QED BY <1>1, <1>2, <1>3

----------------------------------------------------------------------------
(* The operators SlotLists takes from SlotSeqs are the ones used here.     *)
LEMMA SameListOperators ==
    ASSUME NEW q
    PROVE  /\ Lists!Range(q) = Range(q)
           /\ \A S : Lists!Kept(q, S) = Kept(q, S)
           /\ \A s : Lists!Unlink(q, s) = Unlink(q, s)
           /\ \A s : Lists!MoveToHead(q, s) = MoveToHead(q, s)
           /\ Lists!ReverseOf(q) = ReverseOf(q)
<1>1. Lists!Range(q) = Range(q)
  BY DEF Lists!Range, Range
<1>2. \A S : Lists!Kept(q, S) = Kept(q, S)
  <2> TAKE S
  <2> QED
    BY DEF Lists!Kept, Lists!CountKept, Lists!Cardinality, Kept, CountKept, Cardinality
<1>3. \A s : Lists!Unlink(q, s) = Unlink(q, s)
  BY <1>1, <1>2 DEF Lists!Unlink, Unlink
<1>4. \A s : Lists!MoveToHead(q, s) = MoveToHead(q, s)
  BY <1>3 DEF Lists!MoveToHead, Lists!LinkHead, MoveToHead, LinkHead
<1>5. Lists!ReverseOf(q) = ReverseOf(q)
  BY DEF Lists!ReverseOf, ReverseOf
<1> QED BY <1>1, <1>2, <1>3, <1>4, <1>5

(* A step that keeps the slots of the table on two lists keeps IInv.       *)
LEMMA StepTo ==
    ASSUME IInv, NEW u, NEW f, Holds(links', u, f),
           Range(u) \cup Range(f) = Range(UsedChain) \cup Range(FreeChain),
           UNCHANGED numPages,
           key' \in [AllSlots -> Keys \cup {NoKey}], pinned' \in SUBSET AllSlots
    PROVE  IInv' /\ UsedChain' = u /\ FreeChain' = f
<1>1. numPages \in 1 .. MaxSlots /\ numPages' = numPages /\ numPages' \in Nat
      /\ Share(numPages, UsedChain, FreeChain)
  BY SizesAssumption DEF IInv, TypeOK
<1>2. Share(numPages', u, f)
  BY <1>1 DEF Share
<1>3. UsedChain' = u /\ FreeChain' = f
  BY <1>1, <1>2, NewChains
<1>4. links' \in LinksType
  BY DEF Holds
<1>5. TypeOK'
  BY <1>1, <1>4 DEF TypeOK, LinksType, Ends
<1>6. IInv'
  BY <1>2, <1>3, <1>5 DEF IInv
<1> QED BY <1>3, <1>6

(* The slot InternalAlloc takes is the one SlotLists takes, and it leaves  *)
(* its list.                                                               *)
LEMMA TakenIs ==
    ASSUME IInv, NEW s \in AllSlots, Taken(s)
    PROVE  /\ Lists!Chosen(s)
           /\ s \in Range(UsedChain) \cup Range(FreeChain)
           /\ Holds(Detached(s), Unlink(UsedChain, s), Unlink(FreeChain, s))
<1> DEFINE u == UsedChain
           f == FreeChain
<1>1. Holds(links, u, f)
  BY DEF IInv
<1>2. /\ u \in Seq(AllSlots) /\ IsInjective(u) /\ DOMAIN u = 1 .. Len(u) /\ Len(u) \in Nat
      /\ f \in Seq(AllSlots) /\ IsInjective(f) /\ DOMAIN f = 1 .. Len(f) /\ Len(f) \in Nat
      /\ Range(u) \cap Range(f) = {}
      /\ links.free = IF Len(f) = 0 THEN INVALID_SLOT ELSE f[1]
      /\ \A i \in 1 .. Len(f) : f[i] \in AllSlots
  BY <1>1, HoldsAt DEF Holds
<1>3. BackChain = ReverseOf(u)
  BY BackIs
<1> HIDE DEF u, f
<1>4. CASE links.free # INVALID_SLOT
  <2>1. s = links.free /\ Detached(s) = PopFree(links)
    BY <1>4 DEF Taken, Detached
  <2>2. 1 \in DOMAIN f /\ f[1] = s /\ Holds(PopFree(links), u, Cut(f, 1))
    BY <2>1, <1>1, <1>4, PopFreeHolds
  <2>3. s \in Range(f) /\ s \notin Range(u)
    BY <2>2, <1>2 DEF Range
  <2>4. Unlink(u, s) = u
    BY <2>3, <1>2, UnlinkAbsent
  <2>5. Unlink(f, s) = Cut(f, 1)
    BY <2>2, <1>2, UnlinkIsCut
  <2>6. f # <<>> /\ s = Head(f)
    BY <2>2, <1>2
  <2>7. Lists!Chosen(s)
    BY <2>6 DEF Lists!Chosen, f
  <2> QED BY <2>1, <2>2, <2>3, <2>4, <2>5, <2>7 DEF u, f
<1>5. CASE links.free = INVALID_SLOT
  <2>1. s \in Victims /\ Detached(s) = UnlinkSlot(links, s)
    BY <1>5 DEF Taken, Detached
  <2>2. f = <<>>
    <3>1. Len(f) # 0 => 1 \in 1 .. Len(f) /\ f[1] \in AllSlots  BY <1>2
    <3>2. Len(f) = 0  BY <3>1, <1>2, <1>5, NoSlot
    <3> QED BY <3>2, <1>2
  <2> DEFINE r == ReverseOf(u)
             m == Len(u)
  <2>3. PICK k \in DOMAIN r : /\ r[k] = s /\ r[k] \notin pinned
                              /\ \A l \in 1 .. k - 1 : r[l] \in pinned
    <3>1. Victims = {r[j] : j \in {j \in DOMAIN r :
                        r[j] \notin pinned /\ \A l \in 1 .. j - 1 : r[l] \in pinned}}
      BY <1>3 DEF Victims
    <3> HIDE DEF r
    <3> QED BY <3>1, <2>1
  <2>4. /\ m \in Nat /\ DOMAIN u = 1 .. m /\ DOMAIN r = 1 .. m
        /\ \A j \in 1 .. m : r[j] = u[m + 1 - j]
    BY <1>2 DEF ReverseOf
  <2> HIDE DEF r, m
  <2>5. m + 1 - k \in 1 .. m /\ u[m + 1 - k] = s /\ k \in 1 .. m
    BY <2>3, <2>4
  <2>6. PICK i \in 1 .. m : i = m + 1 - k /\ u[i] = s
    BY <2>5
  <2>7. ASSUME NEW j \in 1 .. m, i < j PROVE u[j] \in pinned
    <3>1. m + 1 - j \in 1 .. k - 1 /\ m + 1 - j \in 1 .. m /\ m + 1 - (m + 1 - j) = j
      BY <2>4, <2>5, <2>6, <2>7
    <3>2. r[m + 1 - j] = u[j]  BY <3>1, <2>4
    <3> QED BY <3>1, <3>2, <2>3
  <2>8. \A a, b \in DOMAIN u : u[a] = s /\ a < b => u[b] \in pinned
    BY <2>4, <2>6, <2>7, <1>2 DEF IsInjective
  <2>9. s \in Range(u) /\ s \notin pinned
    BY <2>3, <2>4, <2>6 DEF Range
  <2>10. Lists!Chosen(s)
    <3>1. Lists!Range(u) = Range(u)  BY SameListOperators
    <3> QED BY <3>1, <2>2, <2>8, <2>9 DEF Lists!Chosen, u, f
  <2>11. Holds(UnlinkSlot(links, s), Cut(u, i), f)
    <3>1. i \in DOMAIN u  BY <2>4
    <3>2. Holds(UnlinkSlot(links, u[i]), Cut(u, i), f)  BY <3>1, <1>1, UnlinkHolds
    <3> QED BY <3>2, <2>6
  <2>12. Unlink(u, s) = Cut(u, i)
    BY <2>4, <2>6, <1>2, UnlinkIsCut
  <2>13. Unlink(f, s) = f
    BY <2>9, <1>2, UnlinkAbsent
  <2> QED BY <2>1, <2>9, <2>10, <2>11, <2>12, <2>13 DEF u, f
<1> QED BY <1>4, <1>5

LEMMA ClaimStep ==
    ASSUME IInv, NEW s \in AllSlots, NEW k \in Keys, Claim(s, k)
    PROVE  IInv' /\ Lists!Next
<1> DEFINE u == Unlink(UsedChain, s)
           f == Unlink(FreeChain, s)
<1>1. /\ Lists!Chosen(s) /\ s \in Range(UsedChain) \cup Range(FreeChain)
      /\ Holds(Detached(s), u, f)
  BY TakenIs DEF Claim
<1>2. /\ Range(u) = Range(UsedChain) \ {s} /\ Range(f) = Range(FreeChain) \ {s}
      /\ u \in Seq(AllSlots) /\ IsInjective(u)
  BY UnlinkProperties DEF IInv, Holds
<1>3. Holds(LinkSlot(Detached(s), s), LinkHead(u, s), f)
  BY <1>1, <1>2, LinkHolds
<1>4. Range(LinkHead(u, s)) = Range(u) \cup {s}
  BY <1>2, LinkHeadProperties
<1>5. LinkHead(u, s) = MoveToHead(UsedChain, s)
  BY DEF MoveToHead
<1> HIDE DEF u, f
<1>6. /\ links' = LinkSlot(Detached(s), s) /\ UNCHANGED numPages
      /\ key' = [key EXCEPT ![s] = k] /\ pinned' = pinned \cup {s}
  BY DEF Claim
<1>7. /\ key' \in [AllSlots -> Keys \cup {NoKey}] /\ pinned' \in SUBSET AllSlots
  BY <1>6 DEF IInv, TypeOK
<1>8. Range(LinkHead(u, s)) \cup Range(f) = Range(UsedChain) \cup Range(FreeChain)
  BY <1>1, <1>2, <1>4
<1>9. IInv' /\ UsedChain' = LinkHead(u, s) /\ FreeChain' = f
  BY <1>3, <1>6, <1>7, <1>8, StepTo
<1>10. UsedChain' = Lists!MoveToHead(UsedChain, s) /\ FreeChain' = Lists!Unlink(FreeChain, s)
  BY <1>5, <1>9, SameListOperators DEF f
<1>11. Lists!Claim(s, k)
  BY <1>1, <1>6, <1>10 DEF Lists!Claim
<1> QED BY <1>9, <1>11 DEF Lists!Next, AllSlots

LEMMA GiveBackStep ==
    ASSUME IInv, NEW s \in AllSlots, GiveBack(s)
    PROVE  IInv' /\ Lists!Next
<1> DEFINE u == Unlink(UsedChain, s)
           f == Unlink(FreeChain, s)
           L == LinkSlot(Detached(s), s)
<1>1. /\ Lists!Chosen(s) /\ s \in Range(UsedChain) \cup Range(FreeChain)
      /\ Holds(Detached(s), u, f)
  BY TakenIs DEF GiveBack
<1>2. /\ Range(u) = Range(UsedChain) \ {s} /\ Range(f) = Range(FreeChain) \ {s}
      /\ u \in Seq(AllSlots) /\ IsInjective(u) /\ f \in Seq(AllSlots) /\ IsInjective(f)
  BY UnlinkProperties DEF IInv, Holds
<1>3. Holds(L, LinkHead(u, s), f)
  BY <1>1, <1>2, LinkHolds
<1>4. Range(LinkHead(f, s)) = Range(f) \cup {s}
  BY <1>2, LinkHeadProperties
<1>5. LinkHead(f, s) = MoveToHead(FreeChain, s)
  BY DEF MoveToHead
<1>6. /\ links' = InsertFree(UnlinkSlot(L, s), s)
      /\ UNCHANGED <<numPages, key, pinned>>
  BY DEF GiveBack
<1> HIDE DEF u, f, L
<1> DEFINE h == LinkHead(u, s)
<1>7. h \in Seq(AllSlots) /\ Len(h) = Len(u) + 1 /\ h[1] = s
      /\ \A j \in 2 .. Len(u) + 1 : h[j] = u[j - 1]
  BY <1>2, LinkHeadProperties
<1>8. Cut(h, 1) = u
  <2>1. Len(u) \in Nat /\ Len(u) + 1 - 1 = Len(u)  BY <1>2
  <2>2. Cut(h, 1) = [j \in 1 .. Len(h) - 1 |-> IF j < 1 THEN h[j] ELSE h[j + 1]]
    BY DEF Cut
  <2> HIDE DEF h
  <2>3. \A j \in 1 .. Len(u) : j + 1 \in 2 .. Len(u) + 1 /\ j + 1 - 1 = j /\ ~(j < 1)
    BY <2>1
  <2>4. \A j \in 1 .. Len(u) : (IF j < 1 THEN h[j] ELSE h[j + 1]) = u[j]
    BY <2>3, <1>7
  <2>5. Cut(h, 1) = [j \in 1 .. Len(u) |-> u[j]]
    BY <2>1, <2>2, <2>4, <1>7
  <2> QED BY <2>1, <2>5, <1>2
<1>9. Holds(UnlinkSlot(L, s), u, f)
  <2>1. 1 \in DOMAIN h  BY <1>7, <1>2
  <2> HIDE DEF h
  <2>2. Holds(UnlinkSlot(L, h[1]), Cut(h, 1), f)
    BY <2>1, <1>3, UnlinkHolds DEF h
  <2> QED BY <2>2, <1>7, <1>8
<1>10. Holds(InsertFree(UnlinkSlot(L, s), s), u, LinkHead(f, s))
  BY <1>2, <1>9, InsertFreeHolds
<1>11. /\ UNCHANGED numPages
       /\ key' \in [AllSlots -> Keys \cup {NoKey}] /\ pinned' \in SUBSET AllSlots
  BY <1>6 DEF IInv, TypeOK
<1>12. Range(u) \cup Range(LinkHead(f, s)) = Range(UsedChain) \cup Range(FreeChain)
  BY <1>1, <1>2, <1>4
<1>13. IInv' /\ UsedChain' = u /\ FreeChain' = LinkHead(f, s)
  BY <1>6, <1>10, <1>11, <1>12, StepTo
<1>14. UsedChain' = Lists!Unlink(UsedChain, s) /\ FreeChain' = Lists!MoveToHead(FreeChain, s)
  BY <1>5, <1>13, SameListOperators DEF u
<1>15. Lists!GiveBack(s)
  BY <1>1, <1>6, <1>14 DEF Lists!GiveBack
<1> QED BY <1>13, <1>15 DEF Lists!Next, AllSlots

LEMMA TouchStep ==
    ASSUME IInv, NEW s \in AllSlots, Touch(s)
    PROVE  IInv' /\ Lists!Next
<1> DEFINE u == Unlink(UsedChain, s)
           f == FreeChain
<1>0. /\ Holds(links, UsedChain, f) /\ UsedChain \in Seq(AllSlots) /\ IsInjective(UsedChain)
      /\ Range(UsedChain) \cap Range(f) = {}
  BY DEF IInv, Holds
<1>1. PICK i \in DOMAIN UsedChain : UsedChain[i] = s
  BY DEF Touch, Range
<1>2. s \in Range(UsedChain) /\ s \notin Range(f)
  BY <1>0 DEF Touch
<1>3. /\ Range(u) = Range(UsedChain) \ {s} /\ u \in Seq(AllSlots) /\ IsInjective(u)
  BY <1>0, UnlinkProperties
<1>4. u = Cut(UsedChain, i)
  BY <1>0, <1>1, UnlinkIsCut
<1> HIDE DEF u, f
<1>5. Holds(UnlinkSlot(links, s), u, f)
  <2>1. Holds(UnlinkSlot(links, UsedChain[i]), Cut(UsedChain, i), f)
    BY <1>0, UnlinkHolds
  <2> QED BY <2>1, <1>1, <1>4
<1>6. Holds(LinkSlot(UnlinkSlot(links, s), s), LinkHead(u, s), f)
  BY <1>2, <1>3, <1>5, LinkHolds
<1>7. Range(LinkHead(u, s)) \cup Range(f) = Range(UsedChain) \cup Range(FreeChain)
  <2>1. Range(LinkHead(u, s)) = Range(u) \cup {s}
    BY <1>3, LinkHeadProperties
  <2> QED BY <2>1, <1>2, <1>3 DEF f
<1>8. /\ links' = LinkSlot(UnlinkSlot(links, s), s)
      /\ pinned' \in {pinned, pinned \cup {s}, pinned \ {s}}
      /\ UNCHANGED <<numPages, key>>
  BY DEF Touch
<1>9. /\ UNCHANGED numPages
      /\ key' \in [AllSlots -> Keys \cup {NoKey}] /\ pinned' \in SUBSET AllSlots
  BY <1>8 DEF IInv, TypeOK
<1>10. IInv' /\ UsedChain' = LinkHead(u, s) /\ FreeChain' = f
  BY <1>6, <1>7, <1>8, <1>9, StepTo
<1>11. /\ UsedChain' = Lists!MoveToHead(UsedChain, s) /\ FreeChain' = FreeChain
       /\ s \in Lists!Range(UsedChain)
  BY <1>2, <1>10, SameListOperators DEF u, f, MoveToHead
<1>12. Lists!Touch(s)
  BY <1>8, <1>11 DEF Lists!Touch
<1> QED BY <1>10, <1>12 DEF Lists!Next, AllSlots

LEMMA ResizeStep ==
    ASSUME IInv, NEW n \in 1 .. MaxSlots, Resize(n)
    PROVE  IInv' /\ Lists!Next
<1>1. Holds(links', <<>>, AllFree(n)) /\ Share(numPages', <<>>, AllFree(n)) /\ numPages' = n
  BY FreshHolds DEF Resize
<1>2. numPages' \in Nat
  BY <1>1, SizesAssumption
<1>3. UsedChain' = <<>> /\ FreeChain' = AllFree(n)
  BY <1>1, <1>2, NewChains
<1>4. key' = NoKeys /\ pinned' = {} /\ Resets /\ pinned = {}
  BY DEF Resize
<1>5. TypeOK'
  <2>1. links' \in LinksType  BY <1>1 DEF Holds
  <2> QED BY <2>1, <1>1, <1>4 DEF TypeOK, LinksType, Ends, NoKeys
<1>6. IInv'
  BY <1>1, <1>3, <1>5 DEF IInv
<1>7. Lists!Resize(n)
  BY <1>1, <1>3, <1>4 DEF Lists!Resize, Lists!EmptyTable, AllFree, NoKeys, AllSlots
<1> QED BY <1>6, <1>7 DEF Lists!Next

LEMMA InitStep ==
    ASSUME Init
    PROVE  IInv /\ Lists!Init
<1>1. /\ numPages = BufSize /\ BufSize \in 1 .. MaxSlots /\ numPages \in Nat
      /\ links = FreshLinks(BufSize) /\ key = NoKeys /\ pinned = {}
  BY SizesAssumption DEF Init
<1>2. Holds(links, <<>>, AllFree(BufSize)) /\ Share(numPages, <<>>, AllFree(BufSize))
  BY <1>1, FreshHolds
<1>3. UsedChain = <<>> /\ FreeChain = AllFree(BufSize)
  <2>1. /\ Walk(numPages, links.next, links.first) = <<>>
        /\ Walk(numPages, links.next, links.free) = AllFree(BufSize)
    BY <1>1, <1>2, ChainsAre
  <2> QED BY <2>1 DEF UsedChain, FreeChain, Chain, Walk
<1>4. TypeOK
  <2>1. links \in LinksType  BY <1>2 DEF Holds
  <2> QED BY <2>1, <1>1 DEF TypeOK, LinksType, Ends, NoKeys
<1>5. IInv
  BY <1>2, <1>3, <1>4 DEF IInv
<1>6. Lists!Init
  BY <1>1, <1>3 DEF Lists!Init, Lists!EmptyTable, AllFree, NoKeys, AllSlots
<1> QED BY <1>5, <1>6

----------------------------------------------------------------------------
(* The loop of FlushPages and ClearBuffer.  What Kept returns is the only  *)
(* list of those elements in the order of q, so that a list can be shown   *)
(* to be Kept without counting.                                            *)
Ordered(r, q) ==
    \A a, b \in DOMAIN r : \A i, j \in DOMAIN q :
        r[a] = q[i] /\ r[b] = q[j] /\ a < b => i < j

LEMMA KeptOrdered ==
    ASSUME NEW X, NEW q \in Seq(X), IsInjective(q), NEW S
    PROVE  Ordered(Kept(q, S), q)
<1> DEFINE r == Kept(q, S)
           c(i) == CountKept(q, S, i)
<1>1. /\ c(Len(q)) \in Nat /\ DOMAIN r = 1 .. c(Len(q))
      /\ \A k \in 1 .. c(Len(q)) : \E i \in DOMAIN q :
           q[i] \in S /\ c(i) = k /\ r[k] = q[i]
  BY KeptAt
<1>2. \A i, j \in Nat : i <= j => c(i) <= c(j)
  BY CountKeptStep
<1>3. DOMAIN q \subseteq Nat /\ \A i, j \in DOMAIN q : q[i] = q[j] => i = j
  BY DEF IsInjective
<1> HIDE DEF r, c
<1>4. SUFFICES ASSUME NEW a \in DOMAIN r, NEW b \in DOMAIN r,
                      NEW i \in DOMAIN q, NEW j \in DOMAIN q,
                      r[a] = q[i], r[b] = q[j], a < b
               PROVE  i < j
  BY DEF Ordered, r
<1>5. c(i) = a /\ c(j) = b
  BY <1>1, <1>3, <1>4
<1>6. i \in Nat /\ j \in Nat /\ a \in Nat /\ b \in Nat
  BY <1>1, <1>3
<1>7. ~(j <= i)
  BY <1>2, <1>4, <1>5, <1>6
<1> QED BY <1>6, <1>7

LEMMA KeptUnique ==
    ASSUME NEW X, NEW q \in Seq(X), IsInjective(q), NEW S,
           NEW r \in Seq(X), IsInjective(r), Range(r) = Range(q) \cap S, Ordered(r, q)
    PROVE  r = Kept(q, S)
<1> DEFINE k == Kept(q, S)
           n == Len(r)
<1>1. /\ k \in Seq(X) /\ IsInjective(k) /\ Range(k) = Range(q) \cap S /\ Ordered(k, q)
  BY KeptProperties, KeptOrdered
<1> HIDE DEF k
<1>2. Len(k) = n
  BY <1>1, LengthIs
<1>3. n \in Nat /\ DOMAIN k = 1 .. n /\ DOMAIN r = 1 .. n
  BY <1>1, <1>2
<1>4. /\ \A i, j \in 1 .. n : r[i] = r[j] => i = j
      /\ \A i, j \in 1 .. n : k[i] = k[j] => i = j
      /\ \A i, j \in DOMAIN q : q[i] = q[j] => i = j
  BY <1>1, <1>3 DEF IsInjective
<1>5. /\ \A a \in 1 .. n : \E b \in 1 .. n : r[a] = k[b]
      /\ \A a \in 1 .. n : \E b \in 1 .. n : k[a] = r[b]
      /\ \A a \in 1 .. n : \E i \in DOMAIN q : r[a] = q[i]
      /\ \A a \in 1 .. n : \E i \in DOMAIN q : k[a] = q[i]
  <2>1. /\ Range(r) = {r[a] : a \in 1 .. n} /\ Range(k) = {k[a] : a \in 1 .. n}
        /\ Range(q) = {q[a] : a \in DOMAIN q}
    BY <1>3 DEF Range
  <2> QED BY <2>1, <1>1
<1>6. DOMAIN q \subseteq Nat
  OBVIOUS
<1> DEFINE T == {a \in Nat : a \in 1 .. n /\ r[a] # k[a]}
<1>7. T = {}
  <2> SUFFICES ASSUME T # {} PROVE FALSE  OBVIOUS
  <2>1. PICK a \in T : \A b \in T : a <= b
    BY LeastNat
  <2>2. a \in 1 .. n /\ r[a] # k[a] /\ \A b \in 1 .. n : b < a => r[b] = k[b]
    <3>1. \A b \in 1 .. n : b < a => b \notin T  BY <2>1, <1>3
    <3> QED BY <3>1, <2>1, <1>3
  <2>3. PICK i \in DOMAIN q, j \in DOMAIN q : r[a] = q[i] /\ k[a] = q[j]
    BY <2>2, <1>5
  <2>4. PICK b \in 1 .. n, d \in 1 .. n : r[a] = k[b] /\ k[a] = r[d]
    BY <2>2, <1>5
  <2>5. ~(b < a) /\ ~(d < a) /\ b # a /\ d # a
    BY <2>2, <2>4, <1>4
  <2>6. a < b /\ a < d
    BY <2>2, <2>5, <1>3
  <2>7. j < i
    BY <2>2, <2>3, <2>4, <2>6, <1>1, <1>3 DEF Ordered
  <2>8. i < j
    BY <2>2, <2>3, <2>4, <2>6, <1>3 DEF Ordered
  <2> QED BY <2>7, <2>8, <1>6
<1>8. \A a \in 1 .. n : r[a] = k[a]
  BY <1>7, <1>3
<1> HIDE DEF T, n
<1>9. r = k
  BY <1>1, <1>2, <1>3, <1>8
<1> QED BY <1>9 DEF k

(* One more element is dropped, or one more is kept at the end.            *)
LEMMA KeptDrop ==
    ASSUME NEW X, NEW q \in Seq(X), IsInjective(q), NEW S,
           NEW p \in DOMAIN Kept(q, S)
    PROVE  Cut(Kept(q, S), p) = Kept(q, S \ {Kept(q, S)[p]})
<1> DEFINE k == Kept(q, S)
           r == Cut(k, p)
           m == Len(k)
<1>1. k \in Seq(X) /\ IsInjective(k) /\ Range(k) = Range(q) \cap S /\ Ordered(k, q)
  BY KeptProperties, KeptOrdered
<1> HIDE DEF k
<1>2. p \in DOMAIN k /\ m \in Nat /\ DOMAIN k = 1 .. m
  BY <1>1 DEF k
<1>3. r \in Seq(X) /\ Len(r) = m - 1 /\ IsInjective(r) /\ Range(r) = Range(k) \ {k[p]}
  BY <1>1, <1>2, CutProperties
<1>4. \A j \in 1 .. m - 1 : r[j] = IF j < p THEN k[j] ELSE k[j + 1]
  BY DEF Cut
<1> HIDE DEF r, m
<1>5. DOMAIN r = 1 .. m - 1
  BY <1>3
<1>6. Ordered(r, q)
  <2> SUFFICES ASSUME NEW a \in 1 .. m - 1, NEW b \in 1 .. m - 1,
                      NEW i \in DOMAIN q, NEW j \in DOMAIN q,
                      r[a] = q[i], r[b] = q[j], a < b
               PROVE  i < j
    BY <1>5 DEF Ordered
  <2> DEFINE aa == IF a < p THEN a ELSE a + 1
             bb == IF b < p THEN b ELSE b + 1
  <2>1. aa \in 1 .. m /\ bb \in 1 .. m /\ aa < bb
    BY <1>2
  <2>2. k[aa] = q[i] /\ k[bb] = q[j]
    BY <1>4
  <2> HIDE DEF aa, bb
  <2> QED BY <2>1, <2>2, <1>1, <1>2 DEF Ordered
<1>7. Range(r) = Range(q) \cap (S \ {k[p]})
  BY <1>1, <1>3
<1>8. r = Kept(q, S \ {k[p]})
  BY <1>3, <1>6, <1>7, KeptUnique
<1> QED BY <1>8 DEF r, k

LEMMA KeptAdd ==
    ASSUME NEW X, NEW q \in Seq(X), IsInjective(q), NEW S, NEW i \in DOMAIN q,
           \A j \in DOMAIN q : q[j] \in S => j < i
    PROVE  Append(Kept(q, S), q[i]) = Kept(q, S \cup {q[i]})
<1> DEFINE k == Kept(q, S)
           r == Append(k, q[i])
           m == Len(k)
<1>1. k \in Seq(X) /\ IsInjective(k) /\ Range(k) = Range(q) \cap S /\ Ordered(k, q)
  BY KeptProperties, KeptOrdered
<1> HIDE DEF k
<1>2. /\ m \in Nat /\ DOMAIN k = 1 .. m /\ q[i] \in X /\ DOMAIN q \subseteq Nat
      /\ \A j, l \in DOMAIN q : q[j] = q[l] => j = l
      /\ \A j, l \in 1 .. m : k[j] = k[l] => j = l
  BY <1>1 DEF IsInjective
<1>3. /\ r \in Seq(X) /\ Len(r) = m + 1 /\ DOMAIN r = 1 .. m + 1 /\ r[m + 1] = q[i]
      /\ \A j \in 1 .. m : r[j] = k[j]
  BY <1>1, <1>2
<1>4. q[i] \notin S
  BY <1>2
<1>5. ASSUME NEW j \in 1 .. m PROVE k[j] \in S /\ k[j] # q[i] /\ k[j] \in Range(q)
  <2>1. k[j] \in Range(k)  BY <1>2 DEF Range
  <2> QED BY <2>1, <1>1, <1>4
<1> HIDE DEF r, m
<1>6. IsInjective(r)
  <2> SUFFICES ASSUME NEW a \in 1 .. m + 1, NEW b \in 1 .. m + 1, r[a] = r[b] PROVE a = b
    BY <1>3 DEF IsInjective
  <2>1. /\ a = m + 1 \/ a \in 1 .. m
        /\ b = m + 1 \/ b \in 1 .. m
    BY <1>2
  <2> QED BY <2>1, <1>2, <1>3, <1>5
<1>7. Range(r) = Range(q) \cap (S \cup {q[i]})
  <2>1. /\ Range(r) = {r[a] : a \in 1 .. m + 1} /\ Range(k) = {k[a] : a \in 1 .. m}
        /\ q[i] \in Range(q)
    BY <1>2, <1>3 DEF Range
  <2>2. 1 .. m + 1 = (1 .. m) \cup {m + 1}
    BY <1>2
  <2>3. ASSUME NEW y \in Range(r) PROVE y \in Range(q) \cap (S \cup {q[i]})
    <3>1. PICK a \in 1 .. m + 1 : y = r[a]  BY <2>1
    <3>2. CASE a = m + 1  BY <3>1, <3>2, <2>1, <1>3
    <3>3. CASE a \in 1 .. m  BY <3>1, <3>3, <1>3, <1>5
    <3> QED BY <3>2, <3>3, <2>2
  <2>4. ASSUME NEW y \in Range(q) \cap (S \cup {q[i]}) PROVE y \in Range(r)
    <3>1. CASE y = q[i]
      <4>1. m + 1 \in 1 .. m + 1  BY <1>2
      <4> QED BY <3>1, <4>1, <2>1, <1>3
    <3>2. CASE y \in S
      <4>1. y \in Range(k)  BY <3>2, <1>1
      <4>2. PICK a \in 1 .. m : y = k[a]  BY <4>1, <2>1
      <4> QED BY <4>2, <2>1, <2>2, <1>3
    <3> QED BY <3>1, <3>2
  <2> QED BY <2>3, <2>4
<1>8. Ordered(r, q)
  <2> SUFFICES ASSUME NEW a \in 1 .. m + 1, NEW b \in 1 .. m + 1,
                      NEW j \in DOMAIN q, NEW l \in DOMAIN q,
                      r[a] = q[j], r[b] = q[l], a < b
               PROVE  j < l
    BY <1>3 DEF Ordered
  <2>1. a \in 1 .. m /\ k[a] = q[j]
    BY <1>2, <1>3
  <2>2. CASE b = m + 1
    <3>1. l = i  BY <2>2, <1>2, <1>3
    <3>2. q[j] \in S  BY <2>1, <1>5
    <3> QED BY <3>1, <3>2
  <2>3. CASE b \in 1 .. m
    BY <2>1, <2>3, <1>1, <1>2, <1>3 DEF Ordered
  <2> QED BY <2>2, <2>3, <1>2
<1>9. r = Kept(q, S \cup {q[i]})
  BY <1>3, <1>6, <1>7, <1>8, KeptUnique
<1> QED BY <1>9 DEF r, k

LEMMA KeptAll ==
    ASSUME NEW X, NEW q \in Seq(X), IsInjective(q), NEW S, Range(q) \subseteq S
    PROVE  q = Kept(q, S)
<1>1. Range(q) = Range(q) \cap S
  OBVIOUS
<1>2. Ordered(q, q)
  BY DEF Ordered, IsInjective
<1> QED BY <1>1, <1>2, KeptUnique

(* The steps of F from x, n of them: there are such.                       *)
Follows(g, X, x, F, n) ==
    g \in [0 .. n -> X] /\ g[0] = x /\ \A l \in 1 .. n : g[l] = F[g[l - 1]]

LEMMA Iterate ==
    ASSUME NEW X, NEW x \in X, NEW F \in [X -> X], NEW N \in Nat
    PROVE  \E g : Follows(g, X, x, F, N)
<1> DEFINE Good(n, g) == g \in [0 .. n -> X] /\ g[0] = x
                         /\ \A l \in 1 .. n : g[l] = F[g[l - 1]]
           T == {n \in Nat : ~ \E g : Good(n, g)}
<1>1. T = {}
  <2> SUFFICES ASSUME T # {} PROVE FALSE  OBVIOUS
  <2>1. PICK n \in T : \A l \in T : n <= l
    BY LeastNat
  <2>2. n # 0
    <3>1. Good(0, [l \in 0 .. 0 |-> x])  OBVIOUS
    <3> QED BY <3>1
  <2>3. n \in Nat /\ n - 1 \in Nat /\ n - 1 \notin T
    <3>1. n \in Nat /\ n - 1 \in Nat  BY <2>1, <2>2
    <3> HIDE DEF T
    <3> QED BY <3>1, <2>1
  <2>4. PICK g : Good(n - 1, g)
    BY <2>3
  <2> DEFINE h == [l \in 0 .. n |-> IF l = n THEN F[g[n - 1]] ELSE g[l]]
  <2>5. h \in [0 .. n -> X]
    <3>1. n - 1 \in 0 .. n - 1 /\ \A l \in 0 .. n : l # n => l \in 0 .. n - 1
      BY <2>3
    <3>2. F[g[n - 1]] \in X  BY <3>1, <2>4
    <3> QED BY <3>1, <3>2, <2>4
  <2>6. \A l \in 0 .. n - 1 : h[l] = g[l]
    BY <2>3
  <2>7. h[n] = F[g[n - 1]] /\ 0 \in 0 .. n - 1 /\ n - 1 \in 0 .. n - 1
    BY <2>3
  <2> HIDE DEF h
  <2>8. ASSUME NEW l \in 1 .. n PROVE h[l] = F[h[l - 1]]
    <3>1. CASE l = n
      BY <3>1, <2>6, <2>7
    <3>2. CASE l # n
      <4>1. l \in 1 .. n - 1 /\ l \in 0 .. n - 1 /\ l - 1 \in 0 .. n - 1
        BY <3>2, <2>3
      <4> QED BY <4>1, <2>4, <2>6
    <3> QED BY <3>1, <3>2
  <2>9. Good(n, h)
    BY <2>4, <2>5, <2>6, <2>7, <2>8
  <2> QED BY <2>9
<1>2. N \notin T
  BY <1>1
<1> QED BY <1>2 DEF Follows

(* One turn of the loop, from pointers and a place to those after it.      *)
Turn(S, x) ==
    IF x.at = INVALID_SLOT THEN x
    ELSE [L  |-> IF x.at \in S THEN InsertFree(UnlinkSlot(x.L, x.at), x.at) ELSE x.L,
          at |-> x.L.next[x.at]]

Places == [L : LinksType, at : Ends]

LEMMA TurnType ==
    ASSUME NEW S, NEW x \in Places
    PROVE  Turn(S, x) \in Places
<1>1. CASE x.at = INVALID_SLOT
  BY <1>1 DEF Turn
<1>2. CASE x.at # INVALID_SLOT
  <2> DEFINE t == x.at
             L == x.L
             M == UnlinkSlot(L, t)
  <2>1. t \in AllSlots /\ L \in LinksType
    BY <1>2 DEF Places, Ends
  <2>2. L.next[t] \in Ends /\ L.prev[t] \in Ends
    BY <2>1 DEF LinksType
  <2> HIDE DEF t, L
  <2>3. M \in LinksType
    <3>1. /\ [v \in AllSlots |-> IF v = t THEN INVALID_SLOT
                 ELSE IF v = L.prev[t] THEN L.next[t] ELSE L.next[v]] \in [AllSlots -> Ends]
          /\ [v \in AllSlots |-> IF v = t THEN INVALID_SLOT
                 ELSE IF v = L.next[t] THEN L.prev[t] ELSE L.prev[v]] \in [AllSlots -> Ends]
      BY <2>1, <2>2, NoSlot DEF LinksType
    <3> QED BY <2>1, <2>2, <3>1 DEF UnlinkSlot, LinksType
  <2> HIDE DEF M
  <2>4. InsertFree(M, t) \in LinksType
    BY <2>1, <2>3 DEF InsertFree, LinksType, Ends
  <2>5. Turn(S, x) = [L |-> IF t \in S THEN InsertFree(M, t) ELSE L, at |-> L.next[t]]
    BY <1>2 DEF Turn, t, L, M
  <2> QED BY <2>1, <2>2, <2>4, <2>5 DEF Places
<1> QED BY <1>1, <1>2

(* The loop is numPages turns, each from what the one before it left.      *)
LEMMA LoopIs ==
    ASSUME IInv, NEW S
    PROVE  \E step : /\ step[0] = [L |-> links, at |-> links.first]
                     /\ \A n \in 1 .. numPages : step[n] = Turn(S, step[n - 1])
                     /\ ReleaseLoop(S) = step[numPages].L
<1> DEFINE N == numPages
           x == [L |-> links, at |-> links.first]
           F == [y \in Places |-> Turn(S, y)]
           On(y) == LET L == y.L
                        t == y.at
                    IN  IF t = INVALID_SLOT THEN y
                        ELSE [L |-> IF t \in S THEN InsertFree(UnlinkSlot(L, t), t) ELSE L,
                              at |-> L.next[t]]
           Is(f) == f = [n \in 0 .. N |-> IF n = 0 THEN x ELSE On(f[n - 1])]
           step == CHOOSE f : Is(f)
<1>1. N \in Nat /\ x \in Places
  BY SizesAssumption DEF IInv, TypeOK, Holds, Places, LinksType, Ends
<1>2. F \in [Places -> Places]
  BY TurnType
<1>3. \A y : On(y) = Turn(S, y)
  BY DEF Turn
<1> HIDE DEF On, x, N
<1>4. PICK g \in [0 .. N -> Places] : g[0] = x /\ \A n \in 1 .. N : g[n] = F[g[n - 1]]
  <2> HIDE DEF F
  <2>1. \E g : Follows(g, Places, x, F, N)
    BY <1>1, <1>2, Iterate
  <2> QED BY <2>1 DEF Follows
<1>5. Is(g)
  <2>1. ASSUME NEW n \in 0 .. N, n # 0 PROVE g[n] = On(g[n - 1])
    <3>1. n \in 1 .. N /\ n - 1 \in 0 .. N  BY <2>1, <1>1
    <3>2. g[n - 1] \in Places  BY <3>1, <1>4
    <3> QED BY <3>1, <3>2, <1>3, <1>4
  <2>2. \A n \in 0 .. N : g[n] = IF n = 0 THEN x ELSE On(g[n - 1])
    BY <2>1, <1>4
  <2>3. g = [n \in 0 .. N |-> g[n]]
    BY <1>4
  <2>4. [n \in 0 .. N |-> g[n]] = [n \in 0 .. N |-> IF n = 0 THEN x ELSE On(g[n - 1])]
    BY <2>2
  <2> QED BY <2>3, <2>4
<1>6. Is(step)
  BY <1>5
<1> HIDE DEF step
<1>7. step[0] = x /\ \A n \in 1 .. N : step[n] = Turn(S, step[n - 1])
  BY <1>1, <1>3, <1>6
<1>8. ReleaseLoop(S) = step[N].L
  BY DEF ReleaseLoop, step, On, x, N
<1> QED BY <1>7, <1>8 DEF x, N

(* What the loop has done after k turns: it has moved the slots of S among *)
(* the first k of the list, in the order it met them, and stands on the    *)
(* next slot of the list as it was.                                        *)
Met(u, S, k) == {u[j] : j \in {j \in DOMAIN u : j <= k}} \cap S
UsedThen(u, S, k) == Kept(u, Range(u) \ Met(u, S, k))
FreeThen(u, f, S, k) == ReverseOf(Kept(u, Met(u, S, k))) \o f

LEMMA ReverseAppend ==
    ASSUME NEW X, NEW q \in Seq(X), NEW x \in X, NEW f \in Seq(X)
    PROVE  ReverseOf(Append(q, x)) \o f = LinkHead(ReverseOf(q) \o f, x)
<1> DEFINE m == Len(q)
           n == Len(f)
           r == Append(q, x)
           a == ReverseOf(r)
           b == ReverseOf(q)
<1>1. m \in Nat /\ DOMAIN q = 1 .. m /\ n \in Nat /\ \A i \in 1 .. m : q[i] \in X
  OBVIOUS
<1>2. /\ r \in Seq(X) /\ Len(r) = m + 1 /\ DOMAIN r = 1 .. m + 1 /\ r[m + 1] = x
      /\ \A i \in 1 .. m : r[i] = q[i]
  BY <1>1
<1>3. a = [i \in 1 .. m + 1 |-> r[m + 1 + 1 - i]] /\ b = [i \in 1 .. m |-> q[m + 1 - i]]
  BY <1>1, <1>2 DEF ReverseOf
<1> HIDE DEF r, a, b
<1>4. a \in Seq(X) /\ Len(a) = m + 1
  <2>1. \A i \in 1 .. m + 1 : m + 1 + 1 - i \in 1 .. m + 1
    BY <1>1
  <2>2. a \in [1 .. m + 1 -> X]
    BY <2>1, <1>2, <1>3
  <2>3. DOMAIN a = 1 .. m + 1 /\ m + 1 \in Nat
    BY <2>2, <1>1
  <2> QED BY <2>2, <2>3, IsASeq
<1>5. b \in Seq(X) /\ Len(b) = m
  <2>1. \A i \in 1 .. m : m + 1 - i \in 1 .. m
    BY <1>1
  <2>2. b \in [1 .. m -> X]
    BY <2>1, <1>1, <1>3
  <2> QED BY <2>2, <1>1, IsASeq
<1>6. a[1] = x /\ \A i \in 1 .. m : a[i + 1] = b[i]
  <2>1. a[1] = r[m + 1 + 1 - 1] /\ m + 1 + 1 - 1 = m + 1
    BY <1>1, <1>3
  <2>2. ASSUME NEW i \in 1 .. m PROVE a[i + 1] = b[i]
    <3>1. /\ i + 1 \in 1 .. m + 1 /\ m + 1 + 1 - (i + 1) = m + 1 - i
          /\ m + 1 - i \in 1 .. m
      BY <1>1
    <3>2. a[i + 1] = r[m + 1 + 1 - (i + 1)]  BY <3>1, <1>3
    <3> QED BY <3>1, <3>2, <1>2, <1>3
  <2> QED BY <2>1, <2>2, <1>2
<1> HIDE DEF m, n
<1> DEFINE l == a \o f
           c == b \o f
           h == LinkHead(c, x)
<1>7. /\ l \in Seq(X) /\ Len(l) = m + 1 + n
      /\ \A i \in 1 .. m + 1 + n : l[i] = IF i <= m + 1 THEN a[i] ELSE f[i - (m + 1)]
  BY <1>1, <1>4 DEF n
<1>8. /\ c \in Seq(X) /\ Len(c) = m + n
      /\ \A i \in 1 .. m + n : c[i] = IF i <= m THEN b[i] ELSE f[i - m]
  BY <1>1, <1>5 DEF n
<1> HIDE DEF l, c
<1>9. /\ h \in Seq(X) /\ Len(h) = m + n + 1 /\ h[1] = x
      /\ \A i \in 2 .. m + n + 1 : h[i] = c[i - 1]
  BY <1>1, <1>8 DEF LinkHead
<1> HIDE DEF h
<1>10. ASSUME NEW i \in 1 .. m + 1 + n PROVE l[i] = h[i]
  <2>1. CASE i = 1
    <3>1. l[1] = a[1]  BY <2>1, <1>1, <1>7
    <3> QED BY <3>1, <2>1, <1>6, <1>9
  <2>2. CASE i # 1
    <3>1. /\ i \in 2 .. m + n + 1 /\ i - 1 \in 1 .. m + n /\ i - 1 + 1 = i
          /\ (i <= m + 1 <=> i - 1 <= m) /\ i - (m + 1) = i - 1 - m
          /\ (i - 1 <= m => i - 1 \in 1 .. m)
      BY <2>2, <1>1
    <3>2. h[i] = IF i - 1 <= m THEN b[i - 1] ELSE f[i - 1 - m]
      BY <3>1, <1>8, <1>9
    <3>3. i - 1 <= m => a[i] = b[i - 1]
      <4>1. i - 1 \in 1 .. m => a[i - 1 + 1] = b[i - 1]  BY <1>6
      <4> QED BY <4>1, <3>1
    <3>4. l[i] = IF i <= m + 1 THEN a[i] ELSE f[i - (m + 1)]  BY <1>7
    <3> QED BY <3>1, <3>2, <3>3, <3>4
  <2> QED BY <2>1, <2>2
<1>11. l = h
  <2>1. Len(l) = Len(h) /\ Len(l) = m + 1 + n  BY <1>1, <1>7, <1>9
  <2>2. l \in Seq(X) /\ h \in Seq(X) /\ \A i \in 1 .. Len(l) : l[i] = h[i]
    BY <2>1, <1>7, <1>9, <1>10
  <2> QED BY <2>1, <2>2, SeqEqual
<1> QED BY <1>11 DEF l, h, c, a, b, r

LEMMA MetStep ==
    ASSUME NEW u \in Seq(AllSlots), IsInjective(u), NEW S
    PROVE  /\ Met(u, S, 0) = {}
           /\ \A k \in Nat \ {0} : Met(u, S, k) =
                IF k <= Len(u) /\ u[k] \in S THEN Met(u, S, k - 1) \cup {u[k]}
                ELSE Met(u, S, k - 1)
           /\ \A k \in Nat : Met(u, S, k) \subseteq Range(u) \cap S
           /\ \A k \in Nat : Len(u) <= k => Met(u, S, k) = Range(u) \cap S
           /\ \A k \in Nat : \A j \in DOMAIN u : u[j] \in Met(u, S, k) => j <= k
<1> DEFINE m == Len(u)
<1>1. m \in Nat /\ DOMAIN u = 1 .. m /\ \A i, j \in 1 .. m : u[i] = u[j] => i = j
  BY DEF IsInjective
<1>2. Range(u) = {u[j] : j \in 1 .. m}
  BY <1>1 DEF Range
<1>3. \A k : Met(u, S, k) = {u[j] : j \in {j \in 1 .. m : j <= k}} \cap S
  BY <1>1 DEF Met
<1> HIDE DEF m
<1>4. Met(u, S, 0) = {}
  <2>1. {j \in 1 .. m : j <= 0} = {}  BY <1>1
  <2> QED BY <2>1, <1>3
<1>5. ASSUME NEW k \in Nat \ {0}
      PROVE  Met(u, S, k) = IF k <= m /\ u[k] \in S THEN Met(u, S, k - 1) \cup {u[k]}
                            ELSE Met(u, S, k - 1)
  <2>1. /\ \A y : y \in Met(u, S, k) <=> y \in S /\ \E j \in 1 .. m : j <= k /\ y = u[j]
        /\ \A y : y \in Met(u, S, k - 1)
                    <=> y \in S /\ \E j \in 1 .. m : j <= k - 1 /\ y = u[j]
    BY <1>3
  <2>2. \A j \in 1 .. m : j <= k <=> j <= k - 1 \/ j = k
    BY <1>1
  <2>3. k <= m => k \in 1 .. m
    BY <1>1
  <2>4. ASSUME NEW y
        PROVE  y \in Met(u, S, k) <=>
                 y \in Met(u, S, k - 1) \/ (y \in S /\ k <= m /\ y = u[k])
    BY <2>1, <2>2, <2>3, <1>1
  <2> QED BY <2>4
<1>6. \A k \in Nat : Met(u, S, k) \subseteq Range(u) \cap S
  BY <1>2, <1>3
<1>7. ASSUME NEW k \in Nat, m <= k PROVE Met(u, S, k) = Range(u) \cap S
  <2>1. {j \in 1 .. m : j <= k} = 1 .. m  BY <1>7, <1>1
  <2> QED BY <2>1, <1>2, <1>3
<1>8. ASSUME NEW k \in Nat, NEW j \in 1 .. m, u[j] \in Met(u, S, k) PROVE j <= k
  <2>1. PICK i \in 1 .. m : i <= k /\ u[i] = u[j]  BY <1>3, <1>8
  <2> QED BY <2>1, <1>1
<1> QED BY <1>1, <1>4, <1>5, <1>6, <1>7, <1>8 DEF m

(* On the list left after k turns, the slot after u[k + 1] is still the    *)
(* one that was after it at the start.                                     *)
LEMMA NextThen ==
    ASSUME NEW u \in Seq(AllSlots), IsInjective(u), NEW S, NEW k \in Nat, k < Len(u)
    PROVE  \E p \in DOMAIN UsedThen(u, S, k) :
             /\ UsedThen(u, S, k)[p] = u[k + 1]
             /\ k + 1 = Len(u) <=> p = Len(UsedThen(u, S, k))
             /\ k + 1 # Len(u) => UsedThen(u, S, k)[p + 1] = u[k + 2]
<1> DEFINE m == Len(u)
           U == UsedThen(u, S, k)
           D == Range(u) \ Met(u, S, k)
           n == Len(U)
<1>1. m \in Nat /\ DOMAIN u = 1 .. m /\ \A i, j \in 1 .. m : u[i] = u[j] => i = j
  BY DEF IsInjective
<1>2. /\ U \in Seq(AllSlots) /\ IsInjective(U) /\ Range(U) = Range(u) \cap D
      /\ Ordered(U, u)
  BY KeptProperties, KeptOrdered DEF UsedThen
<1>3. \A j \in 1 .. m : u[j] \in Range(u) /\ (k < j => u[j] \in D)
  <2>1. \A j \in 1 .. m : u[j] \in Range(u)  BY <1>1 DEF Range
  <2>2. \A j \in 1 .. m : u[j] \in Met(u, S, k) => j <= k  BY <1>1, MetStep
  <2> QED BY <2>1, <2>2, <1>1
<1> HIDE DEF U, D, m
<1>4. n \in Nat /\ DOMAIN U = 1 .. n
  BY <1>2
<1>5. /\ \A y \in Range(U) : \E p \in 1 .. n : U[p] = y
      /\ \A p \in 1 .. n : \E j \in 1 .. m : U[p] = u[j]
  <2>1. Range(U) = {U[p] : p \in 1 .. n} /\ Range(u) = {u[j] : j \in 1 .. m}
    BY <1>1, <1>4 DEF Range
  <2> QED BY <2>1, <1>2
<1>6. k + 1 \in 1 .. m /\ k < k + 1
  BY <1>1 DEF m
<1>7. PICK p \in 1 .. n : U[p] = u[k + 1]
  BY <1>2, <1>3, <1>5, <1>6
<1> HIDE DEF n
<1>8. CASE k + 1 = m
  <2>1. ASSUME p # n PROVE FALSE
    <3>1. p + 1 \in 1 .. n /\ p < p + 1  BY <2>1, <1>4
    <3>2. PICK j \in 1 .. m : U[p + 1] = u[j]  BY <3>1, <1>5
    <3>3. k + 1 < j  BY <3>1, <3>2, <1>1, <1>2, <1>4, <1>6, <1>7 DEF Ordered
    <3> QED BY <3>2, <3>3, <1>1, <1>8
  <2> QED BY <2>1, <1>4, <1>7, <1>8 DEF U, m, n
<1>9. CASE k + 1 # m
  <2>1. k + 2 \in 1 .. m /\ k < k + 2 /\ k + 1 < k + 2
    BY <1>9, <1>1, <1>6
  <2>2. PICK r \in 1 .. n : U[r] = u[k + 2]
    BY <2>1, <1>2, <1>3, <1>5
  <2>3. p < r
    <3>1. r # p  BY <2>1, <2>2, <1>1, <1>6, <1>7
    <3>2. ASSUME r < p PROVE FALSE
      <4>1. k + 2 < k + 1
        BY <3>2, <2>1, <2>2, <1>1, <1>2, <1>4, <1>6, <1>7 DEF Ordered
      <4> QED BY <4>1
    <3> QED BY <3>1, <3>2, <1>4
  <2>4. ASSUME r # p + 1 PROVE FALSE
    <3>1. p + 1 \in 1 .. n /\ p < p + 1 /\ p + 1 < r  BY <2>3, <2>4, <1>4
    <3>2. PICK j \in 1 .. m : U[p + 1] = u[j]  BY <3>1, <1>5
    <3>3. k + 1 < j  BY <3>1, <3>2, <1>1, <1>2, <1>4, <1>6, <1>7 DEF Ordered
    <3>4. j < k + 2  BY <3>1, <3>2, <2>1, <2>2, <1>1, <1>2, <1>4 DEF Ordered
    <3> QED BY <3>2, <3>3, <3>4
  <2>5. p # n  BY <2>3, <1>4
  <2> QED BY <2>2, <2>4, <2>5, <1>4, <1>7, <1>9 DEF U, m, n
<1> QED BY <1>8, <1>9

LEMMA FreeThenStep ==
    ASSUME NEW u \in Seq(AllSlots), IsInjective(u), NEW f \in Seq(AllSlots),
           NEW S, NEW k \in Nat, k < Len(u), u[k + 1] \in S
    PROVE  FreeThen(u, f, S, k + 1) = LinkHead(FreeThen(u, f, S, k), u[k + 1])
<1> DEFINE M == Met(u, S, k)
<1>1. k + 1 \in DOMAIN u /\ u[k + 1] \in AllSlots /\ k + 1 \in Nat \ {0} /\ k + 1 <= Len(u)
      /\ k + 1 - 1 = k /\ DOMAIN u \subseteq Nat
  OBVIOUS
<1>2. Met(u, S, k + 1) = M \cup {u[k + 1]}
  <2>1. \A i \in Nat \ {0} : Met(u, S, i) =
          IF i <= Len(u) /\ u[i] \in S THEN Met(u, S, i - 1) \cup {u[i]} ELSE Met(u, S, i - 1)
    BY MetStep
  <2>2. Met(u, S, k + 1) = Met(u, S, k + 1 - 1) \cup {u[k + 1]}
    BY <2>1, <1>1
  <2> QED BY <2>2, <1>1
<1>3. \A j \in DOMAIN u : u[j] \in M => j < k + 1
  <2>1. \A j \in DOMAIN u : u[j] \in M => j <= k  BY MetStep
  <2> QED BY <2>1, <1>1
<1> HIDE DEF M
<1>4. Append(Kept(u, M), u[k + 1]) = Kept(u, M \cup {u[k + 1]})
  BY <1>1, <1>3, KeptAdd
<1>5. Kept(u, M) \in Seq(AllSlots)
  BY KeptProperties
<1>6. ReverseOf(Append(Kept(u, M), u[k + 1])) \o f
        = LinkHead(ReverseOf(Kept(u, M)) \o f, u[k + 1])
  BY <1>1, <1>5, ReverseAppend
<1> QED BY <1>2, <1>4, <1>6 DEF FreeThen, M

LEMMA LoopHolds ==
    ASSUME NEW L, NEW u, NEW f, Holds(L, u, f), NEW S \in SUBSET Range(u),
           NEW N \in Nat, Len(u) <= N,
           NEW step, step[0] = [L |-> L, at |-> L.first],
           \A n \in 1 .. N : step[n] = Turn(S, step[n - 1])
    PROVE  Holds(step[N].L, Kept(u, Range(u) \ S), ReverseOf(Kept(u, S)) \o f)
<1> DEFINE m == Len(u)
           J(k) == /\ Holds(step[k].L, UsedThen(u, S, k), FreeThen(u, f, S, k))
                   /\ step[k].at = IF k < m THEN u[k + 1] ELSE INVALID_SLOT
           T == {k \in Nat : k <= N /\ ~ J(k)}
<1>1. /\ u \in Seq(AllSlots) /\ IsInjective(u) /\ f \in Seq(AllSlots) /\ IsInjective(f)
      /\ Range(u) \cap Range(f) = {}
  BY DEF Holds
<1>2. /\ m \in Nat /\ DOMAIN u = 1 .. m /\ m <= N
      /\ \A i \in 1 .. m : u[i] \in AllSlots /\ u[i] # INVALID_SLOT
      /\ \A i, j \in 1 .. m : u[i] = u[j] => i = j
  BY HoldsAt, NoSlot
<1> HIDE DEF m
<1>3. Met(u, S, 0) = {} /\ \A k \in Nat \ {0} : Met(u, S, k) =
        IF k <= m /\ u[k] \in S THEN Met(u, S, k - 1) \cup {u[k]} ELSE Met(u, S, k - 1)
  BY <1>1, MetStep DEF m
<1>4. J(0)
  <2>1. UsedThen(u, S, 0) = u
    <3>1. Range(u) \ Met(u, S, 0) = Range(u)  BY <1>3
    <3> QED BY <3>1, <1>1, KeptAll DEF UsedThen
  <2>2. FreeThen(u, f, S, 0) = f
    <3>1. <<>> = Kept(u, {})
      <4>1. /\ <<>> \in Seq(AllSlots) /\ IsInjective(<<>>) /\ Range(<<>>) = Range(u) \cap {}
            /\ Ordered(<<>>, u)
        BY DEF IsInjective, Range, Ordered
      <4> QED BY <4>1, <1>1, KeptUnique
    <3>2. ReverseOf(<<>>) = <<>>  BY DEF ReverseOf
    <3>3. <<>> \o f = f  BY <1>1
    <3> QED BY <3>1, <3>2, <3>3, <1>3 DEF FreeThen
  <2>3. L.first = IF 0 < m THEN u[1] ELSE INVALID_SLOT
    <3>1. L.first = IF m = 0 THEN INVALID_SLOT ELSE u[1]  BY HoldsAt DEF m
    <3> QED BY <3>1, <1>2
  <2> QED BY <2>1, <2>2, <2>3
<1>5. ASSUME NEW k \in Nat, k + 1 <= N, J(k) PROVE J(k + 1)
  <2> DEFINE x == step[k]
             U == UsedThen(u, S, k)
             F == FreeThen(u, f, S, k)
  <2>1. step[k + 1] = Turn(S, x)
    <3>1. k + 1 \in 1 .. N /\ k + 1 - 1 = k  BY <1>5
    <3> QED BY <3>1
  <2>2. Holds(x.L, U, F) /\ x.at = IF k < m THEN u[k + 1] ELSE INVALID_SLOT
    BY <1>5
  <2>3. k + 1 \in Nat \ {0} /\ k + 1 - 1 = k /\ k + 1 + 1 = k + 2
    OBVIOUS
  <2>4. CASE ~(k < m)
    <3>1. step[k + 1] = x  BY <2>1, <2>2, <2>4 DEF Turn
    <3>2. ~(k + 1 <= m) /\ ~(k + 1 < m)  BY <2>4, <1>2
    <3>3. Met(u, S, k + 1) = Met(u, S, k)  BY <3>2, <2>3, <1>3
    <3>4. UsedThen(u, S, k + 1) = U /\ FreeThen(u, f, S, k + 1) = F
      BY <3>3 DEF UsedThen, FreeThen
    <3> HIDE DEF x, U, F
    <3> QED BY <3>1, <3>2, <3>4, <2>2, <2>4 DEF x
  <2>5. CASE k < m
    <3> DEFINE t == u[k + 1]
    <3>1. k + 1 \in 1 .. m /\ k + 1 <= m /\ t \in AllSlots /\ t # INVALID_SLOT
      BY <2>5, <1>2
    <3>2. step[k + 1] = [L |-> IF t \in S THEN InsertFree(UnlinkSlot(x.L, t), t) ELSE x.L,
                         at |-> x.L.next[t]]
      BY <2>1, <2>2, <2>5, <3>1 DEF Turn
    <3> HIDE DEF x, t
    <3>3. PICK p \in DOMAIN U : /\ U[p] = t
                                /\ k + 1 = m <=> p = Len(U)
                                /\ k + 1 # m => U[p + 1] = u[k + 2]
      BY <2>5, <1>1, NextThen DEF m, t
    <3>4. DOMAIN U = 1 .. Len(U) /\ x.L.next[U[p]] = IF p = Len(U) THEN INVALID_SLOT ELSE U[p + 1]
      <4>1. Holds(x.L, U, F)  BY <2>2
      <4> HIDE DEF U, F
      <4>2. U \in Seq(AllSlots)  BY <4>1 DEF Holds
      <4>3. DOMAIN U = 1 .. Len(U)  BY <4>2
      <4> DEFINE K == x.L
      <4>4. Holds(K, U, F)  BY <4>1
      <4> HIDE DEF K
      <4>5. \A i \in 1 .. Len(U) :
              K.next[U[i]] = IF i = Len(U) THEN INVALID_SLOT ELSE U[i + 1]
        BY <4>4, HoldsAt
      <4>6. p \in 1 .. Len(U)  BY <4>3, <3>3
      <4> QED BY <4>3, <4>5, <4>6 DEF K
    <3>5. x.L.next[t] = IF k + 1 < m THEN u[k + 2] ELSE INVALID_SLOT
      <4>1. k + 1 < m <=> k + 1 # m  BY <3>1, <1>2
      <4> HIDE DEF U
      <4> QED BY <4>1, <3>3, <3>4
    <3>6. CASE t \notin S
      <4>1. Met(u, S, k + 1) = Met(u, S, k)  BY <3>6, <2>3, <1>3 DEF t
      <4>2. UsedThen(u, S, k + 1) = U /\ FreeThen(u, f, S, k + 1) = F
        BY <4>1 DEF UsedThen, FreeThen
      <4> HIDE DEF U, F
      <4> QED BY <4>2, <3>2, <3>5, <3>6, <2>2, <2>3
    <3>7. CASE t \in S
      <4>1. Met(u, S, k + 1) = Met(u, S, k) \cup {t}
        BY <3>7, <3>1, <2>3, <1>3 DEF t
      <4>2. Cut(U, p) = UsedThen(u, S, k + 1)
        <5>1. Cut(U, p) = Kept(u, (Range(u) \ Met(u, S, k)) \ {U[p]})
          <6> DEFINE D == Range(u) \ Met(u, S, k)
          <6>1. U = Kept(u, D)  BY DEF UsedThen
          <6> HIDE DEF D, U
          <6>2. p \in DOMAIN Kept(u, D)  BY <6>1, <3>3
          <6>3. Cut(Kept(u, D), p) = Kept(u, D \ {Kept(u, D)[p]})
            BY <6>2, <1>1, KeptDrop
          <6> QED BY <6>1, <6>3 DEF D
        <5>2. (Range(u) \ Met(u, S, k)) \ {t} = Range(u) \ Met(u, S, k + 1)
          BY <4>1
        <5> HIDE DEF U
        <5> QED BY <5>1, <5>2, <3>3 DEF UsedThen
      <4>3. LinkHead(F, t) = FreeThen(u, f, S, k + 1)
        BY <3>7, <2>5, <1>1, FreeThenStep DEF m, t
      <4> HIDE DEF U, F
      <4>4. Holds(UnlinkSlot(x.L, t), Cut(U, p), F)
        BY <2>2, <3>3, UnlinkHolds
      <4>5. t \notin Range(Cut(U, p)) /\ t \notin Range(F)
        <5>1. U \in Seq(AllSlots) /\ IsInjective(U) /\ Range(U) \cap Range(F) = {}
          BY <2>2 DEF Holds
        <5>2. Range(Cut(U, p)) = Range(U) \ {U[p]}
          BY <5>1, <3>3, CutProperties
        <5>3. t \in Range(U)  BY <3>3 DEF Range
        <5> QED BY <5>1, <5>2, <5>3, <3>3
      <4>6. Holds(InsertFree(UnlinkSlot(x.L, t), t), Cut(U, p), LinkHead(F, t))
        BY <4>4, <4>5, <3>1, InsertFreeHolds
      <4> QED BY <4>2, <4>3, <4>6, <3>2, <3>5, <3>7, <2>3
    <3> QED BY <3>6, <3>7
  <2> QED BY <2>4, <2>5
<1> HIDE DEF J
<1>6. T = {}
  <2> SUFFICES ASSUME T # {} PROVE FALSE  OBVIOUS
  <2>1. PICK k \in T : \A l \in T : k <= l
    BY LeastNat
  <2>2. k # 0  BY <2>1, <1>4
  <2>3. k \in Nat /\ k - 1 \in Nat /\ k <= N /\ k - 1 <= N /\ k - 1 + 1 = k /\ ~ J(k)
    BY <2>1, <2>2
  <2>4. k - 1 \notin T
    <3> HIDE DEF T
    <3> QED BY <2>1, <2>3
  <2>5. J(k - 1)  BY <2>3, <2>4
  <2>6. J(k - 1 + 1)  BY <2>3, <2>5, <1>5
  <2> QED BY <2>3, <2>6
<1>7. J(N)
  BY <1>6
<1>8. Met(u, S, N) = S
  <2>1. \A k \in Nat : Len(u) <= k => Met(u, S, k) = Range(u) \cap S
    BY <1>1, MetStep
  <2>2. Met(u, S, N) = Range(u) \cap S  BY <2>1
  <2> QED BY <2>2
<1>9. Holds(step[N].L, UsedThen(u, S, N), FreeThen(u, f, S, N))
  BY <1>7 DEF J
<1> QED BY <1>8, <1>9 DEF UsedThen, FreeThen

LEMMA ReleaseStep ==
    ASSUME IInv, NEW S \in SUBSET AllSlots, Release(S)
    PROVE  IInv' /\ Lists!Next
<1> DEFINE u == UsedChain
           f == FreeChain
           v == Kept(u, Range(u) \ S)
           h == ReverseOf(Kept(u, S)) \o f
<1>1. /\ Holds(links, u, f) /\ u \in Seq(AllSlots) /\ f \in Seq(AllSlots)
      /\ IsInjective(u) /\ IsInjective(f) /\ Range(u) \cap Range(f) = {}
  BY DEF IInv, Holds
<1>2. /\ S \in SUBSET (Range(u) \ pinned) /\ links' = ReleaseLoop(S)
      /\ UNCHANGED <<numPages, key, pinned>>
  BY DEF Release
<1>3. numPages \in Nat /\ Len(u) <= numPages
  <2>1. numPages \in Nat  BY DEF IInv, TypeOK
  <2>2. Len(u) + Len(f) = numPages  BY BackIs
  <2> QED BY <2>1, <2>2, <1>1
<1>4. PICK step : /\ step[0] = [L |-> links, at |-> links.first]
                  /\ \A n \in 1 .. numPages : step[n] = Turn(S, step[n - 1])
                  /\ ReleaseLoop(S) = step[numPages].L
  BY LoopIs
<1> HIDE DEF u, f
<1>5. Holds(links', v, h)
  <2>1. S \in SUBSET Range(u)  BY <1>2
  <2>2. Holds(step[numPages].L, v, h)
    BY <2>1, <1>1, <1>3, <1>4, LoopHolds
  <2> QED BY <2>2, <1>2, <1>4
<1>6. Range(v) \cup Range(h) = Range(UsedChain) \cup Range(FreeChain)
  <2>1. Range(v) = Range(u) \cap (Range(u) \ S)
    BY <1>1, KeptProperties
  <2> DEFINE q == Kept(u, S)
  <2>2. q \in Seq(AllSlots) /\ IsInjective(q) /\ Range(q) = Range(u) \cap S
    BY <1>1, KeptProperties
  <2> HIDE DEF q
  <2>3. /\ ReverseOf(q) \in Seq(AllSlots) /\ IsInjective(ReverseOf(q))
        /\ Range(ReverseOf(q)) = Range(q)
    BY <2>2, ReverseProperties
  <2>4. Range(ReverseOf(q) \o f) = Range(ReverseOf(q)) \cup Range(f)
    <3>1. Range(ReverseOf(q)) \cap Range(f) = {}  BY <2>2, <2>3, <1>1
    <3> QED BY <3>1, <2>3, <1>1, JoinProperties
  <2>5. Range(h) = (Range(u) \cap S) \cup Range(f)
    BY <2>2, <2>3, <2>4 DEF q
  <2> QED BY <2>1, <2>5 DEF u, f
<1> HIDE DEF v, h
<1>7. key' \in [AllSlots -> Keys \cup {NoKey}] /\ pinned' \in SUBSET AllSlots
      /\ UNCHANGED numPages
  BY <1>2 DEF IInv, TypeOK
<1>8. IInv' /\ UsedChain' = v /\ FreeChain' = h
  BY <1>5, <1>6, <1>7, StepTo
<1>9. /\ UsedChain' = Lists!Kept(UsedChain, Lists!Range(UsedChain) \ S)
      /\ FreeChain' = Lists!ReverseOf(Lists!Kept(UsedChain, S)) \o FreeChain
      /\ S \in SUBSET (Lists!Range(UsedChain) \ pinned)
  BY <1>2, <1>8, SameListOperators DEF v, h, u, f
<1>10. Lists!Release(S)
  BY <1>2, <1>9 DEF Lists!Release
<1> QED BY <1>8, <1>10 DEF Lists!Next, AllSlots

----------------------------------------------------------------------------
LEMMA NextStep ==
    ASSUME IInv, [Next]_vars
    PROVE  IInv' /\ [Lists!Next]_(Lists!vars)
<1>1. ASSUME UNCHANGED vars PROVE IInv' /\ UNCHANGED Lists!vars
  <2>1. UNCHANGED <<numPages, links, key, pinned>>  BY <1>1 DEF vars
  <2>2. Holds(links', UsedChain, FreeChain)
    BY <2>1 DEF IInv
  <2>3. key' \in [AllSlots -> Keys \cup {NoKey}] /\ pinned' \in SUBSET AllSlots
    BY <2>1 DEF IInv, TypeOK
  <2>4. IInv' /\ UsedChain' = UsedChain /\ FreeChain' = FreeChain
    BY <2>1, <2>2, <2>3, StepTo
  <2> QED BY <2>1, <2>4 DEF Lists!vars
<1>2. ASSUME NEW s \in AllSlots, NEW k \in Keys, Claim(s, k) PROVE IInv' /\ Lists!Next
  BY <1>2, ClaimStep
<1>3. ASSUME NEW s \in AllSlots, GiveBack(s) PROVE IInv' /\ Lists!Next
  BY <1>3, GiveBackStep
<1>4. ASSUME NEW s \in AllSlots, Touch(s) PROVE IInv' /\ Lists!Next
  BY <1>4, TouchStep
<1>5. ASSUME NEW S \in SUBSET AllSlots, Release(S) PROVE IInv' /\ Lists!Next
  BY <1>5, ReleaseStep
<1>6. ASSUME NEW n \in 1 .. MaxSlots, Resize(n) PROVE IInv' /\ Lists!Next
  BY <1>6, ResizeStep
<1> QED BY <1>1, <1>2, <1>3, <1>4, <1>5, <1>6 DEF Next

(* The invariant is inductive.                                             *)
THEOREM IInvHolds == Spec => []IInv
<1>1. Init => IInv
  BY InitStep
<1>2. IInv /\ [Next]_vars => IInv'
  BY NextStep
<1> QED BY <1>1, <1>2, PTL DEF Spec

(* However the functions are called, the two lists of pointers share the   *)
(* slots of the table and the used list reads the same in both directions. *)
THEOREM LinksAreWhole == Spec => []LinksInv
<1>1. IInv => LinksInv
  <2> SUFFICES ASSUME IInv PROVE LinksInv  OBVIOUS
  <2>1. BackIsReverse  BY BackIs DEF BackIsReverse
  <2>2. ListsPartition  BY BackIs DEF ListsPartition, IInv, Share
  <2> QED BY <2>1, <2>2 DEF LinksInv, IInv
<1> QED BY <1>1, IInvHolds, PTL

(* The pointers implement the used list by recency and the stack of free   *)
(* slots that BufferMgr works with.                                        *)
THEOREM ImplementsSlotLists == Spec => ListsSpec
<1>1. Init => Lists!Init
  BY InitStep
<1>2. IInv /\ [Next]_vars => [Lists!Next]_(Lists!vars)
  BY NextStep
<1> QED BY <1>1, <1>2, IInvHolds, PTL DEF Spec, ListsSpec, Lists!Spec
=============================================================================
