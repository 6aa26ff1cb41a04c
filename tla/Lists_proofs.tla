---------------------------- MODULE Lists_proofs ----------------------------
(***************************************************************************)
(* What the operators of SlotSeqs return, for sequences of any length that *)
(* hold no element twice, and what a chain gains and loses at its head:    *)
(* the files of PF and RM only ever take the first member and put a new    *)
(* one in front.                                                           *)
(***************************************************************************)
EXTENDS SlotSeqs, Chains, TLAPS, FiniteSetTheorems, SequenceTheorems, WellFoundedInduction

(* The induction the provers can do: the intervals 1 .. k for the k in T   *)
(* are subsets of a finite set, of which one is minimal for inclusion.     *)
LEMMA LeastNat ==
    ASSUME NEW T \in SUBSET Nat, T # {}
    PROVE  \E m \in T : \A k \in T : m <= k
<1>1. PICK t \in T : TRUE
  OBVIOUS
<1> DEFINE R == StrictSubsetOrdering(1 .. t)
           U == {1 .. k : k \in {i \in T : i <= t}}
<1>2. IsWellFoundedOn(R, SUBSET (1 .. t))
  <2>1. IsFiniteSet(1 .. t)
    BY FS_Interval
  <2>2. FiniteSubsetsOf(1 .. t) = SUBSET (1 .. t)
    BY <2>1, FS_FiniteSubsetsOfFinite
  <2>3. IsWellFoundedOn(R, FiniteSubsetsOf(1 .. t))
    BY FS_StrictSubsetOrderingWellFounded
  <2> QED BY <2>2, <2>3
<1>3. U \subseteq SUBSET (1 .. t) /\ U # {}
  OBVIOUS
<1>4. PICK x \in U : \A y \in U : ~ (<<y, x>> \in R)
  <2> HIDE DEF R, U
  <2> QED BY <1>2, <1>3, WFMin
<1>5. PICK m \in T : m <= t /\ x = 1 .. m
  OBVIOUS
<1>6. ASSUME NEW k \in T, k < m PROVE FALSE
  <2>1. 1 .. k \in U
    BY <1>6, <1>5
  <2>2. 1 .. k \subseteq 1 .. m /\ 1 .. k # 1 .. m
    <3>1. m \in 1 .. m /\ m \notin 1 .. k
      BY <1>6
    <3> QED BY <3>1, <1>6
  <2>3. <<1 .. k, x>> \in R
    BY <2>1, <2>2, <1>3, <1>5 DEF StrictSubsetOrdering
  <2> QED BY <2>1, <2>3, <1>4
<1>7. \A k \in T : m <= k
  BY <1>6
<1> QED BY <1>7

(* Counting the elements of S along q goes up by one where q is in S.      *)
LEMMA CountKeptStep ==
    ASSUME NEW q, NEW S
    PROVE  /\ CountKept(q, S, 0) = 0
           /\ \A i \in Nat : CountKept(q, S, i) \in Nat
           /\ \A i \in Nat \ {0} :
                /\ q[i] \in S => CountKept(q, S, i) = CountKept(q, S, i - 1) + 1
                /\ q[i] \notin S => CountKept(q, S, i) = CountKept(q, S, i - 1)
           /\ \A i, j \in Nat : i <= j => CountKept(q, S, i) <= CountKept(q, S, j)
<1> DEFINE A(i) == {j \in 1 .. i : q[j] \in S}
<1>1. \A i \in Nat : IsFiniteSet(A(i))
  <2> TAKE i \in Nat
  <2>1. IsFiniteSet(1 .. i)
    BY FS_Interval
  <2>2. A(i) \subseteq 1 .. i
    OBVIOUS
  <2> QED BY <2>1, <2>2, FS_Subset
<1>2. \A i \in Nat : CountKept(q, S, i) \in Nat
  BY <1>1, FS_CardinalityType DEF CountKept
<1>3. CountKept(q, S, 0) = 0
  <2>1. A(0) = {}
    OBVIOUS
  <2> QED BY <2>1, FS_EmptySet DEF CountKept
<1>4. ASSUME NEW i \in Nat \ {0}
      PROVE  /\ q[i] \in S => CountKept(q, S, i) = CountKept(q, S, i - 1) + 1
             /\ q[i] \notin S => CountKept(q, S, i) = CountKept(q, S, i - 1)
  <2>0. i - 1 \in Nat /\ IsFiniteSet(A(i - 1))
    BY <1>1
  <2>1. ASSUME q[i] \in S PROVE CountKept(q, S, i) = CountKept(q, S, i - 1) + 1
    <3>1. A(i) = A(i - 1) \cup {i} /\ i \notin A(i - 1)
      BY <2>1
    <3> QED BY <3>1, <2>0, FS_AddElement DEF CountKept
  <2>2. ASSUME q[i] \notin S PROVE CountKept(q, S, i) = CountKept(q, S, i - 1)
    <3>1. A(i) = A(i - 1)
      BY <2>2
    <3> QED BY <3>1 DEF CountKept
  <2> QED BY <2>1, <2>2
<1>5. ASSUME NEW i \in Nat, NEW j \in Nat, i <= j
      PROVE  CountKept(q, S, i) <= CountKept(q, S, j)
  <2>1. A(i) \subseteq A(j)
    BY <1>5
  <2> QED BY <2>1, <1>1, FS_Subset DEF CountKept
<1> QED BY <1>2, <1>3, <1>4, <1>5

(* Where Kept puts the elements of q that are in S: in the order of q, the *)
(* one at position i at the place it has when those up to i are counted.   *)
LEMMA KeptAt ==
    ASSUME NEW X, NEW q \in Seq(X), NEW S
    PROVE  LET C == CountKept(q, S, Len(q)) IN
           /\ C \in Nat /\ Kept(q, S) \in Seq(X) /\ Len(Kept(q, S)) = C
           /\ DOMAIN Kept(q, S) = 1 .. C
           /\ \A i \in DOMAIN q : q[i] \in S =>
                /\ CountKept(q, S, i) \in 1 .. C
                /\ Kept(q, S)[CountKept(q, S, i)] = q[i]
           /\ \A k \in 1 .. C : \E i \in DOMAIN q :
                q[i] \in S /\ CountKept(q, S, i) = k /\ Kept(q, S)[k] = q[i]
<1> DEFINE n == Len(q)
           C == [i \in 0 .. n |-> CountKept(q, S, i)]
           At(k, i) == q[i] \in S /\ CountKept(q, S, i) = k
           pos(k) == CHOOSE i \in DOMAIN q : At(k, i)
<1>0. /\ n \in Nat /\ n = Len(q) /\ DOMAIN q = 1 .. n
      /\ \A i \in DOMAIN q : q[i] \in X
  OBVIOUS
<1> HIDE DEF n
<1>a. /\ CountKept(q, S, 0) = 0
      /\ \A i \in Nat : CountKept(q, S, i) \in Nat
  BY CountKeptStep
<1>b. \A i \in Nat \ {0} :
        /\ q[i] \in S => CountKept(q, S, i) = CountKept(q, S, i - 1) + 1
        /\ q[i] \notin S => CountKept(q, S, i) = CountKept(q, S, i - 1)
  BY CountKeptStep
<1>c. \A i, j \in Nat : i <= j => CountKept(q, S, i) <= CountKept(q, S, j)
  BY CountKeptStep
<1>1. C \in [0 .. n -> Nat] /\ C[0] = 0 /\ C[n] = CountKept(q, S, n)
  BY <1>a, <1>0
<1>2. \A i \in 1 .. n :
        /\ i - 1 \in 0 .. n
        /\ q[i] \in S => C[i] = C[i - 1] + 1
        /\ q[i] \notin S => C[i] = C[i - 1]
  BY <1>b, <1>0
<1>3. \A i, j \in 0 .. n : i <= j => C[i] <= C[j]
  BY <1>c, <1>0
<1>e. \A i \in DOMAIN q : CountKept(q, S, i) = C[i]
  BY <1>0
<1>6. Kept(q, S) = [k \in 1 .. C[n] |-> q[pos(k)]]
  <2>1. Kept(q, S) = [k \in 1 .. CountKept(q, S, Len(q)) |-> q[pos(k)]]
    BY DEF Kept
  <2>2. C[n] = CountKept(q, S, Len(q))
    BY <1>1 DEF n
  <2> HIDE DEF pos, C
  <2> QED BY <2>1, <2>2
<1> HIDE DEF C
(* Where q is in S the count goes up, and it has not been reached before.  *)
<1>d. ASSUME NEW i \in 1 .. n, q[i] \in S
      PROVE  /\ i - 1 \in 0 .. n /\ C[i - 1] \in Nat /\ C[i] = C[i - 1] + 1
             /\ \A j \in 0 .. n : j < i => C[j] < C[i]
  <2>1. i - 1 \in 0 .. n /\ C[i] = C[i - 1] + 1
    <3>1. i \in 1 .. n /\ q[i] \in S
      BY <1>d
    <3> QED BY ONLY <3>1, <1>2
  <2>2. C[i - 1] \in Nat
    BY <2>1, <1>1
  <2>3. ASSUME NEW j \in 0 .. n, j < i PROVE C[j] < C[i]
    <3>1. j <= i - 1 /\ C[j] \in Nat
      BY <2>3, <1>0, <1>1
    <3>2. C[j] <= C[i - 1]
      BY <3>1, <2>1, <1>3
    <3> QED BY <3>1, <3>2, <2>1, <2>2
  <2> QED BY <2>1, <2>2, <2>3
<1>4. ASSUME NEW k \in 1 .. C[n]
      PROVE  pos(k) \in DOMAIN q /\ At(k, pos(k))
  <2> DEFINE T == {i \in 0 .. n : k <= C[i]}
  <2>1. T \in SUBSET Nat /\ n \in T
    BY <1>0, <1>1
  <2>2. PICK m \in T : \A i \in T : m <= i
    BY <2>1, LeastNat
  <2>3. m # 0 /\ m \in 1 .. n
    BY <1>1, <1>0
  <2>4. m - 1 \in Nat /\ m - 1 \notin T /\ C[m - 1] < k
    BY <2>2, <2>3, <1>0, <1>1
  <2>5. At(k, m)
    <3>1. m - 1 \in 0 .. n /\ C[m] \in Nat /\ C[m - 1] \in Nat /\ k <= C[m]
      BY <2>3, <1>0, <1>1
    <3>2. /\ q[m] \in S => C[m] = C[m - 1] + 1
          /\ q[m] \notin S => C[m] = C[m - 1]
      BY ONLY <2>3, <1>2
    <3> QED BY <3>1, <3>2, <2>3, <2>4, <1>1, <1>0, <1>e
  <2> QED BY <2>3, <2>5, <1>0
<1>5. ASSUME NEW i \in DOMAIN q, q[i] \in S
      PROVE  C[i] \in 1 .. C[n] /\ pos(C[i]) = i
  <2>0. i \in 1 .. n /\ C[i] \in Nat
    BY <1>0, <1>1
  <2>1. i - 1 \in 0 .. n /\ C[i - 1] \in Nat /\ C[i] = C[i - 1] + 1
    BY <2>0, <1>5, <1>d
  <2>2. C[i] \in 1 .. C[n]
    <3>1. C[i] <= C[n] /\ C[n] \in Nat
      BY <2>0, <1>0, <1>1, <1>3
    <3> QED BY <3>1, <2>0, <2>1
  <2>3. q[pos(C[i])] \in S /\ C[pos(C[i])] = C[i] /\ pos(C[i]) \in DOMAIN q
    BY <2>2, <1>4, <1>e
  <2>4. ASSUME NEW j \in DOMAIN q, q[j] \in S, C[j] = C[i] PROVE j = i
    <3>1. j \in 1 .. n /\ C[j] \in Nat
      BY <1>0, <1>1
    <3>2. ~(i < j)
      BY <3>1, <2>0, <2>4, <1>d
    <3>3. ~(j < i)
      BY <3>1, <2>0, <2>4, <1>5, <1>d
    <3> QED BY <3>1, <3>2, <3>3, <2>0
  <2> QED BY <2>2, <2>3, <2>4
<1> HIDE DEF pos
<1>7. C[n] \in Nat
  BY <1>1, <1>0
<1>8. Kept(q, S) \in Seq(X) /\ Len(Kept(q, S)) = C[n] /\ DOMAIN Kept(q, S) = 1 .. C[n]
  <2>1. Kept(q, S) \in [1 .. C[n] -> X]
    BY <1>6, <1>4, <1>0
  <2> QED BY <2>1, <1>7, IsASeq
<1>9. C[n] = CountKept(q, S, Len(q))
  BY <1>1 DEF n
<1>10. ASSUME NEW i \in DOMAIN q, q[i] \in S
       PROVE  CountKept(q, S, i) \in 1 .. C[n] /\ Kept(q, S)[CountKept(q, S, i)] = q[i]
  BY <1>10, <1>5, <1>6, <1>e
<1>11. ASSUME NEW k \in 1 .. C[n]
       PROVE  \E i \in DOMAIN q : q[i] \in S /\ CountKept(q, S, i) = k /\ Kept(q, S)[k] = q[i]
  BY <1>4, <1>6
<1> QED BY <1>7, <1>8, <1>9, <1>10, <1>11

(* Kept returns the elements of q in S, each of them once.                 *)
LEMMA KeptProperties ==
    ASSUME NEW X, NEW q \in Seq(X), IsInjective(q), NEW S
    PROVE  /\ Kept(q, S) \in Seq(X)
           /\ IsInjective(Kept(q, S))
           /\ Range(Kept(q, S)) = Range(q) \cap S
           /\ Len(Kept(q, S)) = CountKept(q, S, Len(q))
<1> DEFINE C == CountKept(q, S, Len(q))
<1>1. /\ Kept(q, S) \in Seq(X) /\ Len(Kept(q, S)) = C
      /\ DOMAIN Kept(q, S) = 1 .. C
      /\ \A i \in DOMAIN q : q[i] \in S =>
           /\ CountKept(q, S, i) \in 1 .. C
           /\ Kept(q, S)[CountKept(q, S, i)] = q[i]
      /\ \A k \in 1 .. C : \E i \in DOMAIN q :
           q[i] \in S /\ CountKept(q, S, i) = k /\ Kept(q, S)[k] = q[i]
  BY KeptAt
<1> HIDE DEF C
<1>2. IsInjective(Kept(q, S))
  <2> SUFFICES ASSUME NEW g \in 1 .. C, NEW h \in 1 .. C, Kept(q, S)[g] = Kept(q, S)[h]
               PROVE  g = h
    BY <1>1 DEF IsInjective
  <2>1. PICK i \in DOMAIN q : CountKept(q, S, i) = g /\ Kept(q, S)[g] = q[i]
    BY <1>1
  <2>2. PICK j \in DOMAIN q : CountKept(q, S, j) = h /\ Kept(q, S)[h] = q[j]
    BY <1>1
  <2> QED BY <2>1, <2>2 DEF IsInjective
<1>3. Range(Kept(q, S)) = Range(q) \cap S
  <2>1. ASSUME NEW x \in Range(Kept(q, S)) PROVE x \in Range(q) \cap S
    BY <2>1, <1>1 DEF Range
  <2>2. ASSUME NEW x \in Range(q) \cap S PROVE x \in Range(Kept(q, S))
    <3>1. PICK i \in DOMAIN q : x = q[i]
      BY DEF Range
    <3> QED BY <3>1, <1>1 DEF Range
  <2> QED BY <2>1, <2>2
<1> QED BY <1>1, <1>2, <1>3 DEF C

(* Taking a slot out of a list.                                            *)
LEMMA UnlinkProperties ==
    ASSUME NEW X, NEW q \in Seq(X), IsInjective(q), NEW s
    PROVE  /\ Unlink(q, s) \in Seq(X)
           /\ IsInjective(Unlink(q, s))
           /\ Range(Unlink(q, s)) = Range(q) \ {s}
<1> DEFINE S == Range(q) \ {s}
<1>1. /\ Kept(q, S) \in Seq(X)
      /\ IsInjective(Kept(q, S))
      /\ Range(Kept(q, S)) = Range(q) \cap S
  <2> HIDE DEF S
  <2> QED BY KeptProperties
<1> QED BY <1>1 DEF Unlink

(* Putting a list in front of another.                                     *)
LEMMA JoinProperties ==
    ASSUME NEW X, NEW q \in Seq(X), NEW r \in Seq(X),
           IsInjective(q), IsInjective(r), Range(q) \cap Range(r) = {}
    PROVE  /\ q \o r \in Seq(X)
           /\ IsInjective(q \o r)
           /\ Range(q \o r) = Range(q) \cup Range(r)
<1>1. /\ q \o r \in Seq(X) /\ Len(q \o r) = Len(q) + Len(r)
      /\ Len(q) \in Nat /\ Len(r) \in Nat
      /\ DOMAIN q = 1 .. Len(q) /\ DOMAIN r = 1 .. Len(r)
      /\ DOMAIN (q \o r) = 1 .. Len(q) + Len(r)
  OBVIOUS
<1>2. /\ \A i \in 1 .. Len(q) : (q \o r)[i] = q[i]
      /\ \A i \in 1 .. Len(r) : (q \o r)[i + Len(q)] = r[i]
  OBVIOUS
<1>3. \A i \in DOMAIN (q \o r) :
        \/ i \in DOMAIN q /\ (q \o r)[i] = q[i]
        \/ i - Len(q) \in DOMAIN r /\ (q \o r)[i] = r[i - Len(q)]
  OBVIOUS
<1>4. IsInjective(q \o r)
  <2> SUFFICES ASSUME NEW i \in DOMAIN (q \o r), NEW j \in DOMAIN (q \o r),
                      (q \o r)[i] = (q \o r)[j]
               PROVE  i = j
    BY DEF IsInjective
  <2>1. i \in Int /\ j \in Int
    BY <1>1
  <2>2. CASE i \in DOMAIN q /\ (q \o r)[i] = q[i]
    <3>1. q[i] \in Range(q)
      BY <2>2 DEF Range
    <3>2. CASE j \in DOMAIN q /\ (q \o r)[j] = q[j]
      BY <2>2, <3>2 DEF IsInjective
    <3>3. CASE j - Len(q) \in DOMAIN r /\ (q \o r)[j] = r[j - Len(q)]
      <4>1. r[j - Len(q)] \in Range(r)
        BY <3>3 DEF Range
      <4> QED BY <4>1, <3>1, <2>2, <3>3
    <3> QED BY <3>2, <3>3, <1>3
  <2>3. CASE i - Len(q) \in DOMAIN r /\ (q \o r)[i] = r[i - Len(q)]
    <3>1. r[i - Len(q)] \in Range(r)
      BY <2>3 DEF Range
    <3>2. CASE j \in DOMAIN q /\ (q \o r)[j] = q[j]
      <4>1. q[j] \in Range(q)
        BY <3>2 DEF Range
      <4> QED BY <4>1, <3>1, <2>3, <3>2
    <3>3. CASE j - Len(q) \in DOMAIN r /\ (q \o r)[j] = r[j - Len(q)]
      <4>1. i - Len(q) = j - Len(q)
        BY <2>3, <3>3 DEF IsInjective
      <4> QED BY <4>1, <2>1, <1>1
    <3> QED BY <3>2, <3>3, <1>3
  <2> QED BY <2>2, <2>3, <1>3
<1>5. Range(q \o r) = Range(q) \cup Range(r)
  <2>1. ASSUME NEW x \in Range(q \o r) PROVE x \in Range(q) \cup Range(r)
    <3>1. PICK i \in DOMAIN (q \o r) : x = (q \o r)[i]
      BY DEF Range
    <3> QED BY <3>1, <1>3 DEF Range
  <2>2. ASSUME NEW x \in Range(q) PROVE x \in Range(q \o r)
    <3>1. PICK i \in DOMAIN q : x = q[i]
      BY DEF Range
    <3>2. i \in DOMAIN (q \o r) /\ (q \o r)[i] = x
      BY <3>1, <1>1, <1>2
    <3> QED BY <3>2 DEF Range
  <2>3. ASSUME NEW x \in Range(r) PROVE x \in Range(q \o r)
    <3>1. PICK i \in DOMAIN r : x = r[i]
      BY DEF Range
    <3>2. i + Len(q) \in DOMAIN (q \o r) /\ (q \o r)[i + Len(q)] = x
      BY <3>1, <1>1, <1>2
    <3> QED BY <3>2 DEF Range
  <2> QED BY <2>1, <2>2, <2>3
<1> QED BY <1>1, <1>4, <1>5

(* Making a slot, already listed or not, the head of a list.               *)
LEMMA MoveToHeadProperties ==
    ASSUME NEW X, NEW q \in Seq(X), IsInjective(q), NEW s \in X
    PROVE  /\ MoveToHead(q, s) \in Seq(X)
           /\ IsInjective(MoveToHead(q, s))
           /\ Range(MoveToHead(q, s)) = Range(q) \cup {s}
<1> DEFINE h == <<s>>
           r == Unlink(q, s)
<1>1. r \in Seq(X) /\ IsInjective(r) /\ Range(r) = Range(q) \ {s}
  BY UnlinkProperties
<1>2. h \in Seq(X) /\ IsInjective(h) /\ Range(h) = {s}
  BY DEF IsInjective, Range
<1> HIDE DEF h, r
<1>3. Range(h) \cap Range(r) = {}
  BY <1>1, <1>2
<1>4. /\ h \o r \in Seq(X) /\ IsInjective(h \o r)
      /\ Range(h \o r) = Range(h) \cup Range(r)
  BY <1>1, <1>2, <1>3, JoinProperties
<1>5. MoveToHead(q, s) = h \o r
  BY DEF MoveToHead, LinkHead, h, r
<1> QED BY <1>1, <1>2, <1>4, <1>5

(* Reversing a list.                                                       *)
LEMMA ReverseProperties ==
    ASSUME NEW X, NEW q \in Seq(X), IsInjective(q)
    PROVE  /\ ReverseOf(q) \in Seq(X)
           /\ IsInjective(ReverseOf(q))
           /\ Range(ReverseOf(q)) = Range(q)
<1> DEFINE n == Len(q)
<1>1. n \in Nat /\ DOMAIN q = 1 .. n /\ DOMAIN ReverseOf(q) = 1 .. n
  BY DEF ReverseOf
<1>2. \A i \in 1 .. n : n + 1 - i \in 1 .. n /\ ReverseOf(q)[i] = q[n + 1 - i]
  BY <1>1 DEF ReverseOf
<1>3. ReverseOf(q) \in Seq(X)
  <2>1. ReverseOf(q) \in [1 .. n -> X]
    BY <1>1 DEF ReverseOf
  <2> QED BY <2>1, <1>1, IsASeq
<1> HIDE DEF n
<1>4. IsInjective(ReverseOf(q))
  <2> SUFFICES ASSUME NEW i \in 1 .. n, NEW j \in 1 .. n,
                      ReverseOf(q)[i] = ReverseOf(q)[j]
               PROVE  i = j
    BY <1>1 DEF IsInjective
  <2>1. n + 1 - i = n + 1 - j
    BY <1>1, <1>2 DEF IsInjective
  <2> QED BY <2>1, <1>1
<1>5. Range(ReverseOf(q)) = Range(q)
  <2>1. ASSUME NEW x \in Range(ReverseOf(q)) PROVE x \in Range(q)
    BY <2>1, <1>1, <1>2 DEF Range
  <2>2. ASSUME NEW x \in Range(q) PROVE x \in Range(ReverseOf(q))
    <3>1. PICK i \in 1 .. n : x = q[i]
      BY <1>1 DEF Range
    <3>2. n + 1 - i \in 1 .. n /\ ReverseOf(q)[n + 1 - i] = q[i]
      <4>1. n + 1 - i \in 1 .. n /\ n + 1 - (n + 1 - i) = i
        BY <1>1
      <4> QED BY <4>1, <1>2
    <3> QED BY <3>1, <3>2, <1>1 DEF Range
  <2> QED BY <2>1, <2>2
<1> QED BY <1>3, <1>4, <1>5

----------------------------------------------------------------------------
(* A chain stays one as long as the links of its members do.               *)
LEMMA ChainSame ==
    ASSUME NEW head, NEW next, NEW other, NEW end, NEW members,
           IsFiniteSet(members), Chained(head, next, end, members),
           \A x \in members : other[x] = next[x]
    PROVE  Chained(head, other, end, members)
<1> DEFINE len == Cardinality(members)
<1>1. len \in Nat
  BY FS_CardinalityType
<1>2. PICK n \in [1 .. len -> members] :
        /\ IsInjective(n)
        /\ head = IF len = 0 THEN end ELSE n[1]
        /\ \A i \in 1 .. len : next[n[i]] = IF i = len THEN end ELSE n[i + 1]
  BY DEF Chained
<1>3. \A i \in 1 .. len : other[n[i]] = IF i = len THEN end ELSE n[i + 1]
  BY <1>2
<1> QED BY <1>2, <1>3 DEF Chained

(* A chain without members starts with the end mark, and one that starts   *)
(* with it, when that is no member, has none.                              *)
LEMMA ChainEmpty ==
    ASSUME NEW head, NEW next, NEW end, NEW members, IsFiniteSet(members), end \notin members
    PROVE  /\ members = {} /\ head = end => Chained(head, next, end, members)
           /\ Chained(head, next, end, members) => (head = end <=> members = {})
           /\ Chained(head, next, end, members) /\ members # {} => head \in members
<1> DEFINE len == Cardinality(members)
<1>1. len \in Nat /\ (len = 0 <=> members = {})
  BY FS_CardinalityType, FS_EmptySet
<1>2. ASSUME members = {}, head = end PROVE Chained(head, next, end, members)
  <2>1. len = 0 /\ <<>> \in [1 .. len -> members] /\ IsInjective(<<>>)
    BY <1>1, <1>2 DEF IsInjective
  <2> QED BY <2>1, <1>2 DEF Chained
<1>3. ASSUME Chained(head, next, end, members), members # {}
      PROVE  head \in members /\ head # end
  BY <1>1, <1>3 DEF Chained
<1>4. ASSUME Chained(head, next, end, members), members = {} PROVE head = end
  BY <1>1, <1>4 DEF Chained
<1> QED BY <1>2, <1>3, <1>4

(* A new member in front of a chain, linked to what was its head.          *)
LEMMA ChainPush ==
    ASSUME NEW head, NEW next, NEW other, NEW end, NEW members, NEW new,
           IsFiniteSet(members), Chained(head, next, end, members), new \notin members,
           \A x \in members : other[x] = next[x], other[new] = head
    PROVE  Chained(new, other, end, members \cup {new})
<1> DEFINE len == Cardinality(members)
           more == members \cup {new}
<1>1. len \in Nat /\ Cardinality(more) = len + 1
  BY FS_CardinalityType, FS_AddElement
<1>2. PICK n \in [1 .. len -> members] :
        /\ IsInjective(n)
        /\ head = IF len = 0 THEN end ELSE n[1]
        /\ \A i \in 1 .. len : next[n[i]] = IF i = len THEN end ELSE n[i + 1]
  BY DEF Chained
<1> DEFINE m == [i \in 1 .. len + 1 |-> IF i = 1 THEN new ELSE n[i - 1]]
<1>3. m \in [1 .. len + 1 -> more] /\ m[1] = new
  BY <1>1
<1>4. \A i \in 2 .. len + 1 : m[i] = n[i - 1] /\ i - 1 \in 1 .. len /\ m[i] \in members
  BY <1>1
<1>5. IsInjective(m)
  <2>1. ASSUME NEW i \in 1 .. len + 1, NEW j \in 1 .. len + 1, m[i] = m[j]
        PROVE  i = j
    <3>1. CASE i = 1 \/ j = 1
      <4>1. \A l \in 2 .. len + 1 : m[l] # new
        BY <1>4
      <4>2. \A l \in 1 .. len + 1 : l = 1 \/ l \in 2 .. len + 1
        BY <1>1
      <4> QED BY <4>1, <4>2, <2>1, <3>1, <1>3
    <3>2. CASE i # 1 /\ j # 1
      <4>1. i \in 2 .. len + 1 /\ j \in 2 .. len + 1
        BY <3>2, <1>1
      <4>2. n[i - 1] = n[j - 1] /\ i - 1 \in 1 .. len /\ j - 1 \in 1 .. len
        BY <4>1, <1>4, <2>1
      <4>3. i - 1 = j - 1
        BY <4>2, <1>2 DEF IsInjective
      <4> QED BY <4>3
    <3> QED BY <3>1, <3>2
  <2>2. DOMAIN m = 1 .. len + 1
    OBVIOUS
  <2> HIDE DEF m
  <2> QED BY <2>1, <2>2 DEF IsInjective
<1>6. \A i \in 1 .. len + 1 : other[m[i]] = IF i = len + 1 THEN end ELSE m[i + 1]
  <2>1. other[m[1]] = IF 1 = len + 1 THEN end ELSE m[2]
    BY <1>1, <1>2, <1>3
  <2>2. ASSUME NEW i \in 2 .. len + 1
        PROVE  other[m[i]] = IF i = len + 1 THEN end ELSE m[i + 1]
    <3>1. /\ m[i] = n[i - 1] /\ i - 1 \in 1 .. len /\ m[i] \in members
          /\ i # len + 1 => i + 1 \in 2 .. len + 1
      BY <1>4, <1>1
    <3>2. other[m[i]] = IF i - 1 = len THEN end ELSE n[i]
      BY <3>1, <1>2
    <3>3. i # len + 1 => m[i + 1] = n[i]
      BY <3>1, <1>4
    <3> QED BY <3>2, <3>3, <1>1
  <2>3. \A i \in 1 .. len + 1 : i = 1 \/ i \in 2 .. len + 1
    BY <1>1
  <2> HIDE DEF m
  <2> QED BY <2>1, <2>2, <2>3
<1>7. m \in [1 .. Cardinality(more) -> more]
  BY <1>1, <1>3
<1>8. /\ new = IF Cardinality(more) = 0 THEN end ELSE m[1]
      /\ \A i \in 1 .. Cardinality(more) :
            other[m[i]] = IF i = Cardinality(more) THEN end ELSE m[i + 1]
  <2> HIDE DEF m, more
  <2> QED BY <1>1, <1>3, <1>6
<1>9. Chained(new, other, end, more)
  <2> HIDE DEF m, more
  <2> QED BY <1>5, <1>7, <1>8 DEF Chained
<1> QED BY <1>9

(* The first member taken away: the chain starts where it linked to.       *)
LEMMA ChainPop ==
    ASSUME NEW head, NEW next, NEW other, NEW end, NEW members,
           IsFiniteSet(members), Chained(head, next, end, members), head \in members,
           \A x \in members \ {head} : other[x] = next[x]
    PROVE  Chained(next[head], other, end, members \ {head})
<1> DEFINE len == Cardinality(members)
           less == members \ {head}
<1>1. len \in Nat \ {0} /\ Cardinality(less) = len - 1
  BY FS_CardinalityType, FS_RemoveElement, FS_EmptySet
<1>2. PICK n \in [1 .. len -> members] :
        /\ IsInjective(n)
        /\ head = IF len = 0 THEN end ELSE n[1]
        /\ \A i \in 1 .. len : next[n[i]] = IF i = len THEN end ELSE n[i + 1]
  BY DEF Chained
<1>3. head = n[1]
  BY <1>1, <1>2
<1> DEFINE m == [i \in 1 .. len - 1 |-> n[i + 1]]
<1>4. \A i \in 1 .. len - 1 : m[i] = n[i + 1] /\ i + 1 \in 1 .. len /\ i \in 1 .. len
                              /\ n[i + 1] \in less
  <2>1. \A i \in 2 .. len : n[i] # n[1]
    BY <1>1, <1>2 DEF IsInjective
  <2> QED BY <2>1, <1>1, <1>3
<1>5. m \in [1 .. len - 1 -> less] /\ DOMAIN m = 1 .. len - 1
  BY <1>4
<1>6. IsInjective(m)
  <2>1. ASSUME NEW i \in 1 .. len - 1, NEW j \in 1 .. len - 1, m[i] = m[j]
        PROVE  i = j
    <3>1. i + 1 = j + 1
      BY <2>1, <1>4, <1>2 DEF IsInjective
    <3> QED BY <3>1
  <2> HIDE DEF m
  <2> QED BY <2>1, <1>5 DEF IsInjective
<1>7. next[head] = IF len - 1 = 0 THEN end ELSE m[1]
  <2>1. next[head] = IF 1 = len THEN end ELSE n[2]
    BY <1>1, <1>2, <1>3
  <2>2. len # 1 => m[1] = n[2]
    BY <1>1
  <2> QED BY <2>1, <2>2, <1>1
<1>8. \A i \in 1 .. len - 1 : other[m[i]] = IF i = len - 1 THEN end ELSE m[i + 1]
  <2>1. ASSUME NEW i \in 1 .. len - 1
        PROVE  other[m[i]] = IF i = len - 1 THEN end ELSE m[i + 1]
    <3>1. other[m[i]] = next[n[i + 1]]
      BY <1>4
    <3>2. next[n[i + 1]] = IF i + 1 = len THEN end ELSE n[(i + 1) + 1]
      BY <1>4, <1>2
    <3>3. i # len - 1 => m[i + 1] = n[(i + 1) + 1]
      BY <1>1
    <3> QED BY <3>1, <3>2, <3>3, <1>1
  <2> HIDE DEF m
  <2> QED BY <2>1
<1> HIDE DEF m
<1> QED BY <1>1, <1>5, <1>6, <1>7, <1>8, ZenonT(30) DEF Chained
=============================================================================
