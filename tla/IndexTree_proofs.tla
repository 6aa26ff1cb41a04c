-------------------------- MODULE IndexTree_proofs --------------------------
(***************************************************************************)
(* The B+ tree and its scan. A tree is in order (WellRooted) when there    *)
(* are a height h for every node, a span s of values for every node and a  *)
(* sequence c of its leaves such that the keys of an inner node part its   *)
(* span among its children, all one lower; spans of one height are apart   *)
(* and the root's is all there is, unless a half was lost; and c lists the *)
(* leaves as their links and their spans do.                               *)
(*                                                                         *)
(* An insertion is followed down to a leaf (PathLeads) and up again: what  *)
(* is below a node, once dealt with, is in order up to its height, and its *)
(* span is whole or divided between it and the node split off (Grown).     *)
(* insert_leaf starts this, insert_internal takes it one step up,          *)
(* InsertEntry ends it at the root.                                        *)
(*                                                                         *)
(* A scan stands at position pos of entry i of leaf c[x]; what is due is   *)
(* what lies ahead of it and satisfies its condition, but for keys that    *)
(* were deleted from (ScanAt).                                             *)
(***************************************************************************)
EXTENDS IndexTree, Lists_proofs

(* Positions in sequences.                                                 *)
LEMMA MinIs ==
    ASSUME NEW S \in SUBSET Nat, S # {}
    PROVE  Min(S) \in S /\ \A x \in S : Min(S) <= x
  BY LeastNat DEF Min

(* FirstAbove parts the positions of ascending keys: up to the ones before *)
(* it they are at most k, from it on above.                                *)
LEMMA FirstAboveIs ==
    ASSUME NEW keys \in Seq(Int), Sorted(keys), NEW k \in Int
    PROVE  /\ FirstAbove(keys, k) \in 1 .. Len(keys) + 1
           /\ \A j \in DOMAIN keys : keys[j] > k <=> j >= FirstAbove(keys, k)
<1> DEFINE above == {i \in DOMAIN keys : keys[i] > k}
           i == FirstAbove(keys, k)
           n == Len(keys)
<1>1. n \in Nat /\ DOMAIN keys = 1 .. n /\ \A j \in 1 .. n : keys[j] \in Int
  OBVIOUS
<1>2. CASE above = {}
  <2>1. i = n + 1  BY <1>2 DEF FirstAbove
  <2>2. \A j \in 1 .. n : ~ (keys[j] > k)  BY <1>1, <1>2
  <2> QED BY <1>1, <2>1, <2>2
<1>3. CASE above # {}
  <2>1. i = Min(above)  BY <1>3 DEF FirstAbove
  <2>2. i \in above /\ \A j \in above : i <= j
    <3>1. above \in SUBSET Nat  BY <1>1
    <3> HIDE DEF above
    <3>2. Min(above) \in above /\ \A j \in above : Min(above) <= j  BY <1>3, <3>1, MinIs
    <3> QED BY <2>1, <3>2
  <2>3. ASSUME NEW j \in 1 .. n, j >= i PROVE keys[j] > k
    <3>1. CASE j = i  BY <2>2, <3>1
    <3>2. CASE j # i
      <4>1. keys[i] < keys[j] /\ keys[i] \in Int /\ keys[j] \in Int /\ keys[i] > k
        BY <1>1, <2>2, <2>3, <3>2 DEF Sorted
      <4> QED BY <4>1
    <3> QED BY <3>1, <3>2
  <2> QED BY <1>1, <2>2, <2>3
<1> QED BY <1>2, <1>3

LEMMA SubSeqIs ==
    ASSUME NEW X, NEW q \in Seq(X), NEW m \in 1 .. Len(q) + 1, NEW n \in m - 1 .. Len(q)
    PROVE  /\ SubSeq(q, m, n) \in Seq(X) /\ Len(SubSeq(q, m, n)) = n - m + 1
           /\ DOMAIN SubSeq(q, m, n) = 1 .. n - m + 1
           /\ \A i \in 1 .. n - m + 1 : SubSeq(q, m, n)[i] = q[m + i - 1]
  OBVIOUS

(* v are the n elements of q behind the first m.                           *)
IsPart(X, q, m, n, v) ==
    /\ v \in Seq(X) /\ Len(v) = n /\ DOMAIN v = 1 .. n
    /\ \A j \in 1 .. n : v[j] = q[m + j]

LEMMA PrefixIs ==
    ASSUME NEW X, NEW q \in Seq(X), NEW m \in 0 .. Len(q)
    PROVE  IsPart(X, q, 0, m, SubSeq(q, 1, m))
<1> DEFINE v == SubSeq(q, 1, m)
<1>1. /\ 1 \in 1 .. Len(q) + 1 /\ m \in 1 - 1 .. Len(q) /\ m - 1 + 1 = m
      /\ \A j \in 1 .. m : 1 + j - 1 = 0 + j
  OBVIOUS
<1>2. v \in Seq(X) /\ Len(v) = m /\ DOMAIN v = 1 .. m  BY <1>1, SubSeqIs
<1>3. \A j \in 1 .. m : v[j] = q[0 + j]  BY <1>1, SubSeqIs
<1> HIDE DEF v
<1>4. IsPart(X, q, 0, m, v)  BY <1>2, <1>3 DEF IsPart
<1> QED BY <1>4 DEF v

LEMMA SuffixIs ==
    ASSUME NEW X, NEW q \in Seq(X), NEW N, Len(q) = N, NEW m \in 0 .. N
    PROVE  IsPart(X, q, m, N - m, SubSeq(q, m + 1, N))
<1> DEFINE v == SubSeq(q, m + 1, N)
<1>1. /\ m + 1 \in 1 .. Len(q) + 1 /\ N \in (m + 1) - 1 .. Len(q) /\ N - (m + 1) + 1 = N - m
      /\ \A j \in 1 .. N - m : (m + 1) + j - 1 = m + j
  OBVIOUS
<1>2. v \in Seq(X) /\ Len(v) = N - m /\ DOMAIN v = 1 .. N - m  BY <1>1, SubSeqIs
<1>3. \A j \in 1 .. N - m : v[j] = q[m + j]  BY <1>1, SubSeqIs
<1> HIDE DEF v
<1>4. IsPart(X, q, m, N - m, v)  BY <1>2, <1>3 DEF IsPart
<1> QED BY <1>4 DEF v

(* w is u followed by v.                                                   *)
IsJoined(X, u, v, w) ==
    /\ w \in Seq(X) /\ Len(w) = Len(u) + Len(v) /\ DOMAIN w = 1 .. Len(u) + Len(v)
    /\ \A j \in 1 .. Len(u) : w[j] = u[j]
    /\ \A j \in 1 .. Len(v) : w[Len(u) + j] = v[j]

LEMMA ConcatIs ==
    ASSUME NEW X, NEW u \in Seq(X), NEW v \in Seq(X)
    PROVE  IsJoined(X, u, v, u \o v)
<1>1. u \o v \in Seq(X) /\ Len(u \o v) = Len(u) + Len(v)
      /\ DOMAIN (u \o v) = 1 .. Len(u) + Len(v)
  OBVIOUS
<1>2. \A j \in 1 .. Len(u) : (u \o v)[j] = u[j]  OBVIOUS
<1>3. \A j \in 1 .. Len(v) : (u \o v)[Len(u) + j] = v[j]  OBVIOUS
<1> QED BY <1>1, <1>2, <1>3 DEF IsJoined

(* v is q with e at position i: what was there and behind moves on.        *)
IsInserted(X, q, N, i, e, v) ==
    /\ v \in Seq(X) /\ Len(v) = N + 1 /\ DOMAIN v = 1 .. N + 1
    /\ \A j \in 1 .. N : j < i => v[j] = q[j]
    /\ v[i] = e
    /\ \A j \in 1 .. N : j >= i => v[j + 1] = q[j]

LEMMA InsertIs ==
    ASSUME NEW X, NEW q \in Seq(X), NEW N, Len(q) = N, NEW i \in 1 .. N + 1, NEW e \in X
    PROVE  IsInserted(X, q, N, i, e, InsertAt(q, i, e))
<1> DEFINE u == SubSeq(q, 1, i - 1)
           v == SubSeq(q, i, Len(q))
           n == Len(q)
<1>1. n \in Nat /\ i \in 1 .. n + 1 /\ i \in Nat /\ n = N  OBVIOUS
<1>2. u \in Seq(X) /\ Len(u) = i - 1 /\ \A j \in 1 .. i - 1 : u[j] = q[j]
  <2>1. i - 1 \in 0 .. Len(q) /\ \A j \in 1 .. i - 1 : 0 + j = j  BY <1>1
  <2>2. IsPart(X, q, 0, i - 1, u)  BY <2>1, PrefixIs
  <2> QED BY <2>1, <2>2 DEF IsPart
<1>3. v \in Seq(X) /\ Len(v) = n - i + 1 /\ \A j \in 1 .. n - i + 1 : v[j] = q[i + j - 1]
  <2>1. /\ i - 1 \in 0 .. n /\ n - (i - 1) = n - i + 1 /\ (i - 1) + 1 = i
        /\ \A j \in 1 .. n - i + 1 : (i - 1) + j = i + j - 1
    BY <1>1
  <2>2. IsPart(X, q, i - 1, n - (i - 1), SubSeq(q, (i - 1) + 1, n))  BY <2>1, SuffixIs
  <2>3. IsPart(X, q, i - 1, n - i + 1, v)  BY <2>1, <2>2
  <2> HIDE DEF v
  <2> QED BY <2>1, <2>3 DEF IsPart
<1> HIDE DEF u, v, n
<1>4. /\ u \o <<e>> \in Seq(X) /\ Len(u \o <<e>>) = i
      /\ \A j \in 1 .. i : (u \o <<e>>)[j] = IF j < i THEN q[j] ELSE e
  BY <1>1, <1>2
<1> DEFINE w == u \o <<e>>
<1>5. w \in Seq(X) /\ Len(w) = i /\ \A j \in 1 .. i : w[j] = IF j < i THEN q[j] ELSE e
  BY <1>4
<1> HIDE DEF w
<1> DEFINE z == w \o v
<1>6. IsJoined(X, w, v, z)  BY <1>3, <1>5, ConcatIs
<1> HIDE DEF z
<1>7. /\ z \in Seq(X) /\ Len(z) = n + 1 /\ DOMAIN z = 1 .. n + 1
      /\ \A j \in 1 .. i : z[j] = w[j]
      /\ \A j \in 1 .. n - i + 1 : z[i + j] = v[j]
  <2>1. Len(w) + Len(v) = n + 1  BY <1>1, <1>3, <1>5
  <2> QED BY <1>3, <1>5, <1>6, <2>1 DEF IsJoined
<1>8. ASSUME NEW j \in 1 .. n, j < i PROVE z[j] = q[j]
  <2>1. j \in 1 .. i  BY <1>1, <1>8
  <2> QED BY <1>5, <1>7, <1>8, <2>1
<1>9. z[i] = e
  <2>1. i \in 1 .. i /\ ~ (i < i)  BY <1>1
  <2> QED BY <1>5, <1>7, <2>1
<1>10. ASSUME NEW j \in 1 .. n, j >= i PROVE z[j + 1] = q[j]
  <2> DEFINE l == (j + 1) - i
  <2>1. l \in 1 .. n - i + 1 /\ i + l = j + 1 /\ i + l - 1 = j  BY <1>1, <1>10
  <2> HIDE DEF l
  <2>2. z[i + l] = v[l] /\ v[l] = q[i + l - 1]  BY <1>3, <1>7, <2>1
  <2> QED BY <2>1, <2>2
<1>11. InsertAt(q, i, e) = z  BY DEF InsertAt, z, w, u, v, n
<1>12. IsInserted(X, q, n, i, e, z)  BY <1>7, <1>8, <1>9, <1>10 DEF IsInserted
<1> QED BY <1>11, <1>12 DEF n

LEMMA InsertPlaces ==
    ASSUME NEW N \in Nat, NEW i \in 1 .. N + 1, NEW j \in 1 .. N + 1
    PROVE  \/ j \in 1 .. N /\ j < i
           \/ j = i
           \/ j - 1 \in 1 .. N /\ j - 1 >= i /\ (j - 1) + 1 = j
  OBVIOUS

(* v is q without what was at position i.                                  *)
IsRemoved(X, q, i, v) ==
    /\ v \in Seq(X) /\ Len(v) = Len(q) - 1 /\ DOMAIN v = 1 .. Len(q) - 1
    /\ \A j \in 1 .. Len(q) - 1 : j < i => v[j] = q[j]
    /\ \A j \in 1 .. Len(q) - 1 : j >= i => v[j] = q[j + 1]

LEMMA RemoveAtIs ==
    ASSUME NEW X, NEW q \in Seq(X), NEW i \in 1 .. Len(q)
    PROVE  IsRemoved(X, q, i, RemoveAt(q, i))
<1> DEFINE u == SubSeq(q, 1, i - 1)
           v == SubSeq(q, i + 1, Len(q))
           n == Len(q)
<1>1. n \in Nat /\ i \in 1 .. n  OBVIOUS
<1>2. u \in Seq(X) /\ Len(u) = i - 1 /\ \A j \in 1 .. i - 1 : u[j] = q[j]
  <2>1. i - 1 \in 0 .. Len(q) /\ \A j \in 1 .. i - 1 : 0 + j = j  BY <1>1
  <2>2. IsPart(X, q, 0, i - 1, u)  BY <2>1, PrefixIs
  <2> QED BY <2>1, <2>2 DEF IsPart
<1>3. v \in Seq(X) /\ Len(v) = n - i /\ \A j \in 1 .. n - i : v[j] = q[i + j]
  <2>1. i \in 0 .. n  BY <1>1
  <2>2. IsPart(X, q, i, n - i, v)  BY <2>1, SuffixIs
  <2> HIDE DEF v
  <2> QED BY <2>2 DEF IsPart
<1> HIDE DEF u, v, n
<1> DEFINE w == u \o v
<1>4. IsJoined(X, u, v, w)  BY <1>2, <1>3, ConcatIs
<1> HIDE DEF w
<1>5. /\ w \in Seq(X) /\ Len(w) = n - 1 /\ DOMAIN w = 1 .. n - 1
      /\ \A j \in 1 .. i - 1 : w[j] = u[j]
      /\ \A j \in 1 .. n - i : w[(i - 1) + j] = v[j]
  <2>1. Len(u) + Len(v) = n - 1  BY <1>1, <1>2, <1>3
  <2> QED BY <1>2, <1>3, <1>4, <2>1 DEF IsJoined
<1>6. ASSUME NEW j \in 1 .. n - 1, j < i PROVE w[j] = q[j]
  <2>1. j \in 1 .. i - 1  BY <1>1, <1>6
  <2> QED BY <1>2, <1>5, <2>1
<1>7. ASSUME NEW j \in 1 .. n - 1, j >= i PROVE w[j] = q[j + 1]
  <2> DEFINE l == j - (i - 1)
  <2>1. l \in 1 .. n - i /\ (i - 1) + l = j /\ i + l = j + 1  BY <1>1, <1>7
  <2> HIDE DEF l
  <2>2. w[(i - 1) + l] = v[l] /\ v[l] = q[i + l]  BY <1>3, <1>5, <2>1
  <2> QED BY <2>1, <2>2
<1>8. RemoveAt(q, i) = w  BY DEF RemoveAt, w, u, v, n
<1> QED BY <1>5, <1>6, <1>7, <1>8 DEF IsRemoved, n

LEMMA ToSetIs ==
    ASSUME NEW X, NEW q \in Seq(X)
    PROVE  /\ ToSet(q) \in SUBSET X
           /\ \A x : x \in ToSet(q) <=> \E i \in 1 .. Len(q) : q[i] = x
  BY DEF ToSet

LEMMA AppendIs ==
    ASSUME NEW X, NEW q \in Seq(X), NEW e \in X
    PROVE  /\ Append(q, e) \in Seq(X) /\ Len(Append(q, e)) = Len(q) + 1
           /\ ToSet(Append(q, e)) = ToSet(q) \cup {e}
<1>1. /\ Append(q, e) \in Seq(X) /\ Len(Append(q, e)) = Len(q) + 1
      /\ \A i \in 1 .. Len(q) : Append(q, e)[i] = q[i]
      /\ Append(q, e)[Len(q) + 1] = e
  OBVIOUS
<1>2. Len(q) \in Nat  OBVIOUS
<1> DEFINE v == Append(q, e)
           n == Len(q)
<1>3. v \in Seq(X) /\ Len(v) = n + 1 /\ (\A i \in 1 .. n : v[i] = q[i]) /\ v[n + 1] = e
  BY <1>1
<1>4. (\A x : x \in ToSet(q) <=> \E i \in 1 .. n : q[i] = x)  BY ToSetIs
<1>5. \A x : x \in ToSet(v) <=> \E i \in 1 .. n + 1 : v[i] = x
  <2> HIDE DEF v, n
  <2> QED BY <1>3, ToSetIs
<1> HIDE DEF v, n
<1>6. \A i \in 1 .. n + 1 : i \in 1 .. n \/ i = n + 1  BY <1>2 DEF n
<1>7. (\A i \in 1 .. n : i \in 1 .. n + 1) /\ n + 1 \in 1 .. n + 1  BY <1>2 DEF n
<1>8. ToSet(v) = ToSet(q) \cup {e}
  BY <1>3, <1>4, <1>5, <1>6, <1>7
<1> QED BY <1>3, <1>8 DEF v, n

(* The identifiers in a bucket, and how many there are.                    *)
Bucket == {q \in Seq(Rids) : Len(q) <= ridsPerBucket /\ IsInjective(q)}

LEMMA ToSetCount ==
    ASSUME NEW X, NEW q \in Seq(X), IsInjective(q)
    PROVE  IsFiniteSet(ToSet(q)) /\ Cardinality(ToSet(q)) = Len(q)
<1>1. Len(q) \in Nat /\ DOMAIN q = 1 .. Len(q)  OBVIOUS
<1>2. IsFiniteSet(1 .. Len(q)) /\ Cardinality(1 .. Len(q)) = Len(q)  BY SMTT(30), <1>1, FS_Interval
<1>3. q \in Bijection(1 .. Len(q), ToSet(q))
  BY <1>1 DEF ToSet, IsInjective, Bijection, Injection, Surjection
<1>4. ExistsBijection(1 .. Len(q), ToSet(q))  BY <1>3 DEF ExistsBijection
<1> QED BY <1>2, <1>4, FS_Bijection

LEMMA BucketAppend ==
    ASSUME NEW q \in Bucket, NEW r \in Rids, r \notin ToSet(q), Len(q) < ridsPerBucket
    PROVE  Append(q, r) \in Bucket
<1>1. q \in Seq(Rids) /\ Len(q) \in Nat /\ IsInjective(q) /\ ridsPerBucket \in Nat
  BY IndexTreeAssumption DEF Bucket
<1>2. /\ Append(q, r) \in Seq(Rids) /\ Len(Append(q, r)) = Len(q) + 1
      /\ \A i \in 1 .. Len(q) : Append(q, r)[i] = q[i] /\ q[i] # r
      /\ Append(q, r)[Len(q) + 1] = r
  BY <1>1 DEF ToSet
<1>3. \A i, j \in 1 .. Len(q) : q[i] = q[j] => i = j  BY <1>1 DEF IsInjective
<1> DEFINE v == Append(q, r)
           n == Len(q)
<1>4. /\ v \in Seq(Rids) /\ Len(v) = n + 1 /\ (\A i \in 1 .. n : v[i] = q[i] /\ q[i] # r)
      /\ v[n + 1] = r /\ DOMAIN v = 1 .. n + 1 /\ n \in Nat /\ n < ridsPerBucket
  BY <1>1, <1>2
<1> HIDE DEF v
<1>5. \A i, j \in 1 .. n + 1 : v[i] = v[j] => i = j
  <2> HIDE DEF n
  <2>1. \A i \in 1 .. n + 1 : i \in 1 .. n \/ i = n + 1  BY <1>4
  <2> QED BY <1>3, <1>4, <2>1 DEF n
<1>6. IsInjective(v)  BY <1>4, <1>5 DEF IsInjective
<1>7. Len(v) <= ridsPerBucket  BY <1>1, <1>4
<1> QED BY <1>4, <1>6, <1>7 DEF v, Bucket

(* The entries of a leaf.                                                  *)
LEMMA EntriesOfIs ==
    ASSUME NEW n
    PROVE  /\ \A k, r : <<k, r>> \in EntriesOf(n)
                <=> \E i \in DOMAIN n.keys : n.keys[i] = k /\ r \in ToSet(n.rids[i])
           /\ \A e \in EntriesOf(n) : e = <<e[1], e[2]>>
  BY DEF EntriesOf

LEMMA TimesCount ==
    ASSUME NEW k, NEW T, IsFiniteSet(T)
    PROVE  IsFiniteSet({k} \X T) /\ Cardinality({k} \X T) = Cardinality(T)
<1> DEFINE f == [r \in T |-> <<k, r>>]
<1>1. f \in Bijection(T, {k} \X T)
  <2>1. f \in [T -> {k} \X T]  OBVIOUS
  <2>2. \A r1, r2 \in T : f[r1] = f[r2] => r1 = r2  OBVIOUS
  <2>3. \A e \in {k} \X T : \E r \in T : f[r] = e  OBVIOUS
  <2> HIDE DEF f
  <2> QED BY <2>1, <2>2, <2>3 DEF Bijection, Injection, Surjection, IsInjective
<1>2. ExistsBijection(T, {k} \X T)  BY <1>1 DEF ExistsBijection
<1> QED BY <1>2, FS_Bijection

(* A leaf whose keys lie in S.                                             *)
LeafShape(n, S) ==
    /\ n = Leaf(n.keys, n.rids, n.next)
    /\ n.keys \in Seq(Keys) /\ Sorted(n.keys) /\ \A i \in 1 .. Len(n.keys) : n.keys[i] \in S
    /\ n.rids \in Seq(Bucket) /\ Len(n.rids) = Len(n.keys)

(* What an insertion answers, where W are the entries that have its key.   *)
Answered(W, e, ret) ==
    \/ ret = "OK" /\ e \notin W /\ Cardinality(W) < ridsPerBucket
    \/ ret = "IX_BUCKET_FULL" /\ Cardinality(W) = ridsPerBucket
    \/ ret = "IX_ENTRY_EXISTS" /\ e \in W /\ Cardinality(W) < ridsPerBucket

Grew(E, F, e, ret) == F = IF ret = "OK" THEN E \cup {e} ELSE E

WithKey(E, k) == {e \in E : e[1] = k}

LEMMA LeafFields ==
    ASSUME NEW x, NEW y, NEW z
    PROVE  /\ Leaf(x, y, z).type = "leaf" /\ Leaf(x, y, z).keys = x
           /\ Leaf(x, y, z).rids = y /\ Leaf(x, y, z).next = z
  BY DEF Leaf

LEMMA SeqSub ==
    ASSUME NEW X, NEW Y, X \subseteq Y, NEW q \in Seq(X)
    PROVE  q \in Seq(Y)
  OBVIOUS

LEMMA KeysInt ==
    Keys \subseteq Int /\ (\A k \in Keys : k \in Int /\ k - 1 \in Int)
    /\ \A keys \in Seq(Keys) : keys \in Seq(Int)
<1>1. Keys \subseteq Int  BY IndexTreeAssumption
<1>2. \A keys \in Seq(Keys) : keys \in Seq(Int)  BY <1>1, SeqSub
<1> QED BY <1>1, <1>2

LEMMA EntryPlace ==
    ASSUME NEW keys \in Seq(Keys), Sorted(keys), NEW k \in Keys
    PROVE  LET i == FirstAbove(keys, k - 1)
               found == i \in DOMAIN keys /\ keys[i] = k
           IN  /\ i \in 1 .. Len(keys) + 1
               /\ \A j \in 1 .. Len(keys) : j < i => keys[j] < k
               /\ \A j \in 1 .. Len(keys) : j >= i => keys[j] >= k
               /\ \A j \in 1 .. Len(keys) : keys[j] = k => j = i
               /\ ~found => \A j \in 1 .. Len(keys) : j >= i => keys[j] > k
<1> DEFINE i == FirstAbove(keys, k - 1)
           n == Len(keys)
<1>1. keys \in Seq(Int) /\ k \in Int /\ k - 1 \in Int /\ Keys \subseteq Int
  BY KeysInt
<1>2. n \in Nat /\ DOMAIN keys = 1 .. n /\ \A j \in 1 .. n : keys[j] \in Int
  BY <1>1
<1>3. /\ i \in 1 .. n + 1
      /\ \A j \in 1 .. n : keys[j] > k - 1 <=> j >= i
  BY <1>1, <1>2, FirstAboveIs
<1> HIDE DEF i
<1>4. \A j \in 1 .. n : (j < i => keys[j] < k) /\ (j >= i => keys[j] >= k)
  BY <1>1, <1>2, <1>3
<1>5. \A j \in 1 .. n : j > i => keys[j] > keys[i]
  <2> TAKE j \in 1 .. n
  <2> HAVE j > i
  <2>1. i \in 1 .. n  BY <1>2, <1>3
  <2>2. keys[i] < keys[j]  BY <1>2, <2>1 DEF Sorted
  <2> QED BY <1>2, <2>1, <2>2
<1>6. \A j \in 1 .. n : j > i => keys[j] > k
  <2> TAKE j \in 1 .. n
  <2> HAVE j > i
  <2>1. i \in 1 .. n  BY <1>2, <1>3
  <2> QED BY <1>1, <1>2, <1>3, <1>4, <1>5, <2>1
<1>7. \A j \in 1 .. n : keys[j] = k => j = i  BY <1>1, <1>2, <1>3, <1>4, <1>6
<1>8. ASSUME ~ (i \in DOMAIN keys /\ keys[i] = k)
      PROVE  \A j \in 1 .. n : j >= i => keys[j] > k
  BY <1>1, <1>2, <1>3, <1>4, <1>6, <1>8
<1> QED BY <1>3, <1>4, <1>7, <1>8 DEF i

LEMMA SortedOnce ==
    ASSUME NEW keys \in Seq(Int), Sorted(keys),
           NEW i \in 1 .. Len(keys), NEW j \in 1 .. Len(keys), keys[i] = keys[j]
    PROVE  i = j
<1>1. Len(keys) \in Nat /\ DOMAIN keys = 1 .. Len(keys) /\ keys[i] \in Int /\ keys[j] \in Int
  OBVIOUS
<1>2. ~ (i < j) /\ ~ (j < i)  BY <1>1 DEF Sorted
<1> QED BY <1>1, <1>2

LEMMA LeafFacts ==
    ASSUME NEW S, NEW n, LeafShape(n, S)
    PROVE  /\ n = Leaf(n.keys, n.rids, n.next) /\ n.type = "leaf"
           /\ n.keys \in Seq(Keys) /\ n.keys \in Seq(Int) /\ Sorted(n.keys)
           /\ DOMAIN n.keys = 1 .. Len(n.keys) /\ Len(n.keys) \in Nat
           /\ \A i \in 1 .. Len(n.keys) :
                n.keys[i] \in S /\ n.keys[i] \in Keys /\ n.keys[i] \in Int
           /\ n.rids \in Seq(Bucket) /\ Len(n.rids) = Len(n.keys)
           /\ DOMAIN n.rids = 1 .. Len(n.keys) /\ \A i \in 1 .. Len(n.keys) : n.rids[i] \in Bucket
<1>1. /\ n = Leaf(n.keys, n.rids, n.next)
      /\ n.keys \in Seq(Keys) /\ Sorted(n.keys) /\ \A i \in 1 .. Len(n.keys) : n.keys[i] \in S
      /\ n.rids \in Seq(Bucket) /\ Len(n.rids) = Len(n.keys)
  BY DEF LeafShape
<1> DEFINE keys == n.keys
           rids == n.rids
<1>2. n.type = "leaf"  BY <1>1, LeafFields
<1>3. keys \in Seq(Keys) /\ rids \in Seq(Bucket) /\ Len(rids) = Len(keys)  BY <1>1
<1> HIDE DEF keys, rids
<1>4. keys \in Seq(Int)  BY <1>3, KeysInt
<1>5. /\ DOMAIN keys = 1 .. Len(keys) /\ Len(keys) \in Nat
      /\ \A i \in 1 .. Len(keys) : keys[i] \in Keys
  BY <1>3
<1>6. DOMAIN rids = 1 .. Len(keys) /\ \A i \in 1 .. Len(keys) : rids[i] \in Bucket
  BY <1>3
<1>7. \A i \in 1 .. Len(keys) : keys[i] \in Int  BY <1>4
<1> QED BY <1>1, <1>2, <1>4, <1>5, <1>6, <1>7 DEF keys, rids

LEMMA LeafWithKey ==
    ASSUME NEW S, NEW n, LeafShape(n, S), NEW i \in 1 .. Len(n.keys)
    PROVE  /\ WithKey(EntriesOf(n), n.keys[i]) = {n.keys[i]} \X ToSet(n.rids[i])
           /\ Cardinality(WithKey(EntriesOf(n), n.keys[i])) = Len(n.rids[i])
<1> DEFINE k == n.keys[i]
           W == WithKey(EntriesOf(n), k)
<1>1. /\ n.keys \in Seq(Keys) /\ DOMAIN n.keys = 1 .. Len(n.keys) /\ Sorted(n.keys)
      /\ Len(n.keys) \in Nat /\ \A j \in 1 .. Len(n.keys) : n.keys[j] \in Int
  BY LeafFacts
<1>2. n.rids[i] \in Bucket  BY LeafFacts
<1>3. n.rids[i] \in Seq(Rids) /\ IsInjective(n.rids[i])  BY <1>2 DEF Bucket
<1>4. \A j \in 1 .. Len(n.keys) : n.keys[j] = k => j = i
  <2> DEFINE keys == n.keys
  <2>1. keys \in Seq(Int) /\ Sorted(keys) /\ i \in 1 .. Len(keys)  BY <1>1, KeysInt
  <2> HIDE DEF keys
  <2>2. \A j \in 1 .. Len(keys) : keys[j] = keys[i] => j = i  BY <2>1, SortedOnce
  <2> QED BY <2>2 DEF keys
<1>5. W = {k} \X ToSet(n.rids[i])
  <2>1. \A e \in W : e \in {k} \X ToSet(n.rids[i])
    <3> TAKE e \in W
    <3>1. e = <<e[1], e[2]>> /\ e[1] = k /\ e \in EntriesOf(n)  BY EntriesOfIs DEF WithKey
    <3>2. <<k, e[2]>> \in EntriesOf(n)  BY <3>1
    <3>3. PICK j \in DOMAIN n.keys : n.keys[j] = k /\ e[2] \in ToSet(n.rids[j])
      BY <3>2, EntriesOfIs
    <3> HIDE DEF k, W
    <3> QED BY <1>1, <1>4, <3>1, <3>3
  <2>2. \A e \in {k} \X ToSet(n.rids[i]) : e \in W
    <3> TAKE e \in {k} \X ToSet(n.rids[i])
    <3>1. PICK r \in ToSet(n.rids[i]) : e = <<k, r>>  OBVIOUS
    <3>2. <<k, r>> \in EntriesOf(n)  BY <1>1, EntriesOfIs
    <3> QED BY <3>1, <3>2 DEF WithKey
  <2> QED BY <2>1, <2>2
<1>6. IsFiniteSet(ToSet(n.rids[i])) /\ Cardinality(ToSet(n.rids[i])) = Len(n.rids[i])
  BY <1>3, ToSetCount
<1> QED BY <1>5, <1>6, TimesCount

LEMMA PairsSame ==
    ASSUME NEW E, NEW F, \A e \in E : e = <<e[1], e[2]>>, \A e \in F : e = <<e[1], e[2]>>,
           \A k, r : <<k, r>> \in E <=> <<k, r>> \in F
    PROVE  E = F
  OBVIOUS

(* A key goes into ascending keys at its place.                            *)
LEMMA InsertSorted ==
    ASSUME NEW keys \in Seq(Int), Sorted(keys), NEW k \in Int, NEW i \in 1 .. Len(keys) + 1,
           \A j \in 1 .. Len(keys) : (j < i => keys[j] < k) /\ (j >= i => keys[j] > k)
    PROVE  Sorted(InsertAt(keys, i, k))
<1> DEFINE v == InsertAt(keys, i, k)
           n == Len(keys)
<1>1. n \in Nat /\ DOMAIN keys = 1 .. n /\ \A j \in 1 .. n : keys[j] \in Int
  OBVIOUS
<1>2. IsInserted(Int, keys, n, i, k, v)  BY InsertIs
<1>3. /\ i \in 1 .. n + 1
      /\ \A j \in 1 .. n : (j < i => keys[j] < k) /\ (j >= i => keys[j] > k)
      /\ \A j, l \in 1 .. n : j < l => keys[j] < keys[l]
  BY <1>1 DEF Sorted
<1> HIDE DEF v, n
<1>4. /\ DOMAIN v = 1 .. n + 1
      /\ \A j \in 1 .. n : j < i => v[j] = keys[j]
      /\ v[i] = k
      /\ \A j \in 1 .. n : j >= i => v[j + 1] = keys[j]
  BY <1>2 DEF IsInserted
<1>5. ASSUME NEW j \in 1 .. n + 1, NEW l \in 1 .. n + 1, j < l PROVE v[j] < v[l]
  <2>1. CASE j < i /\ l < i
    <3>1. j \in 1 .. n /\ l \in 1 .. n  BY <1>1, <1>3, <2>1
    <3> QED BY <1>3, <1>4, <1>5, <2>1, <3>1
  <2>2. CASE j < i /\ l = i
    <3>1. j \in 1 .. n  BY <1>1, <1>3, <2>2
    <3> QED BY <1>3, <1>4, <2>2, <3>1
  <2>3. CASE j < i /\ l > i
    <3>1. j \in 1 .. n /\ l - 1 \in 1 .. n /\ l - 1 >= i /\ j < l - 1 /\ (l - 1) + 1 = l
      BY <1>1, <1>3, <2>3
    <3>2. v[j] = keys[j] /\ v[(l - 1) + 1] = keys[l - 1]  BY <1>4, <2>3, <3>1
    <3> QED BY <1>3, <3>1, <3>2
  <2>4. CASE j = i /\ l > i
    <3>1. l - 1 \in 1 .. n /\ l - 1 >= i /\ (l - 1) + 1 = l  BY <1>1, <1>3, <2>4
    <3>2. v[j] = k /\ v[(l - 1) + 1] = keys[l - 1]  BY <1>4, <2>4, <3>1
    <3>3. keys[l - 1] \in Int /\ keys[l - 1] > k  BY <1>1, <1>3, <3>1
    <3> QED BY <3>1, <3>2, <3>3
  <2>5. CASE j > i /\ l > i
    <3>1. /\ l - 1 \in 1 .. n /\ j - 1 \in 1 .. n /\ j - 1 < l - 1
          /\ l - 1 >= i /\ j - 1 >= i /\ (l - 1) + 1 = l /\ (j - 1) + 1 = j
      BY <1>1, <1>3, <1>5, <2>5
    <3>2. v[(j - 1) + 1] = keys[j - 1] /\ v[(l - 1) + 1] = keys[l - 1]  BY <1>4, <3>1
    <3> QED BY <1>3, <3>1, <3>2
  <2> QED BY <1>3, <1>5, <2>1, <2>2, <2>3, <2>4, <2>5
<1> QED BY <1>4, <1>5 DEF Sorted, v

LEMMA FreshBucket ==
    ASSUME NEW r \in Rids
    PROVE  <<r>> \in Bucket /\ ToSet(<<r>>) = {r}
<1>1. <<r>> \in Seq(Rids) /\ Len(<<r>>) = 1  OBVIOUS
<1>2. IsInjective(<<r>>)  BY DEF IsInjective
<1>3. 1 <= ridsPerBucket  BY IndexTreeAssumption
<1>4. ToSet(<<r>>) = {r}  BY DEF ToSet
<1> QED BY <1>1, <1>2, <1>3, <1>4 DEF Bucket

(* insert_entry, when the key has an entry.                                *)
LEMMA InsertEntryFound ==
    ASSUME NEW S, NEW n, LeafShape(n, S), NEW i \in 1 .. Len(n.keys), NEW r \in Rids,
           FirstAbove(n.keys, n.keys[i] - 1) = i
    PROVE  LET k == n.keys[i]
               x == insert_entry(n, k, r)
           IN  /\ LeafShape(x.node, S) /\ x.node.next = n.next /\ x.node.keys = n.keys
               /\ Grew(EntriesOf(n), EntriesOf(x.node), <<k, r>>, x.ret)
               /\ Answered(WithKey(EntriesOf(n), k), <<k, r>>, x.ret)
<1> DEFINE k == n.keys[i]
           x == insert_entry(n, k, r)
           B == n.rids[i]
           C == Append(B, r)
           W == WithKey(EntriesOf(n), k)
           rids == [n.rids EXCEPT ![i] = C]
<1>1. /\ n = Leaf(n.keys, n.rids, n.next) /\ n.keys \in Seq(Keys)
      /\ DOMAIN n.keys = 1 .. Len(n.keys) /\ Len(n.keys) \in Nat
      /\ n.rids \in Seq(Bucket) /\ Len(n.rids) = Len(n.keys) /\ DOMAIN n.rids = 1 .. Len(n.keys)
  BY DEF LeafShape
<1>2. /\ B \in Bucket /\ B \in Seq(Rids) /\ Len(B) \in Nat /\ Len(B) <= ridsPerBucket
      /\ ridsPerBucket \in Nat
  BY <1>1, IndexTreeAssumption DEF Bucket
<1>3. W = {k} \X ToSet(B) /\ Cardinality(W) = Len(B)  BY LeafWithKey
<1>4. <<k, r>> \in W <=> r \in ToSet(B)  BY <1>3
<1>5. x = [node |-> IF InsertRefusal(B, r) = "OK" THEN [n EXCEPT !.rids[i] = C] ELSE n,
           ret |-> InsertRefusal(B, r)]
  BY <1>1 DEF insert_entry
<1>6. CASE Len(B) = ridsPerBucket
  <2>1. x = [node |-> n, ret |-> "IX_BUCKET_FULL"]  BY <1>5, <1>6 DEF InsertRefusal
  <2> HIDE DEF x, W, k, B
  <2>2. x.node = n /\ x.ret = "IX_BUCKET_FULL"  BY <2>1
  <2>3. Answered(W, <<k, r>>, x.ret)  BY <1>3, <1>6, <2>2 DEF Answered
  <2>4. Grew(EntriesOf(n), EntriesOf(x.node), <<k, r>>, x.ret)  BY <2>2 DEF Grew
  <2> QED BY <2>2, <2>3, <2>4 DEF x, W, k
<1>7. CASE Len(B) # ridsPerBucket /\ r \in ToSet(B)
  <2>1. x = [node |-> n, ret |-> "IX_ENTRY_EXISTS"]  BY <1>5, <1>7 DEF InsertRefusal
  <2> HIDE DEF x, W, k, B
  <2>2. x.node = n /\ x.ret = "IX_ENTRY_EXISTS"  BY <2>1
  <2>3. Answered(W, <<k, r>>, x.ret)  BY <1>2, <1>3, <1>4, <1>7, <2>2 DEF Answered
  <2>4. Grew(EntriesOf(n), EntriesOf(x.node), <<k, r>>, x.ret)  BY <2>2 DEF Grew
  <2> QED BY <2>2, <2>3, <2>4 DEF x, W, k
<1>8. CASE Len(B) # ridsPerBucket /\ r \notin ToSet(B)
  <2>1. x = [node |-> [n EXCEPT !.rids[i] = C], ret |-> "OK"]
    BY <1>5, <1>8 DEF InsertRefusal
  <2>2. [n EXCEPT !.rids[i] = C] = Leaf(n.keys, rids, n.next)
    <3> DEFINE keys == n.keys
               buckets == n.rids
               next == n.next
    <3>1. n = Leaf(keys, buckets, next)  BY <1>1
    <3> HIDE DEF keys, buckets, next, C
    <3>2. [Leaf(keys, buckets, next) EXCEPT !.rids[i] = C]
            = Leaf(keys, [buckets EXCEPT ![i] = C], next)
      BY DEF Leaf
    <3>3. [n EXCEPT !.rids[i] = C] = Leaf(keys, [buckets EXCEPT ![i] = C], next)
      BY <3>1, <3>2
    <3> QED BY <3>3 DEF keys, buckets, next
  <2>3. C \in Bucket  BY <1>2, <1>8, BucketAppend
  <2>4. ToSet(C) = ToSet(B) \cup {r}  BY <1>2, AppendIs
  <2>5. rids \in Seq(Bucket) /\ Len(rids) = Len(n.keys) /\ DOMAIN rids = 1 .. Len(n.keys)
        /\ \A j \in 1 .. Len(n.keys) : rids[j] = IF j = i THEN C ELSE n.rids[j]
    <3> HIDE DEF C
    <3> QED BY <1>1, <2>3
  <2>6. \A j \in 1 .. Len(n.keys) :
          ToSet(rids[j]) = IF j = i THEN ToSet(n.rids[j]) \cup {r} ELSE ToSet(n.rids[j])
    <3> HIDE DEF rids, C
    <3> QED BY <2>4, <2>5
  <2> HIDE DEF x, W, B, C, rids
  <2> DEFINE y == x.node
  <2>7. x.ret = "OK" /\ y = Leaf(n.keys, rids, n.next)  BY <2>1, <2>2
  <2> HIDE DEF y
  <2>8. y.keys = n.keys /\ y.rids = rids /\ y.next = n.next  BY <2>7, LeafFields
  <2>9. LeafShape(y, S)  BY <2>5, <2>7, <2>8 DEF LeafShape
  <2>10. Answered(W, <<k, r>>, x.ret)  BY <1>2, <1>3, <1>4, <1>8, <2>7 DEF Answered
  <2>11. EntriesOf(y) = EntriesOf(n) \cup {<<k, r>>}
    <3>1. \A k2, r2 : <<k2, r2>> \in EntriesOf(y)
                        <=> <<k2, r2>> \in EntriesOf(n) \/ (k2 = k /\ r2 = r)
      <4> TAKE k2, r2
      <4>1. <<k2, r2>> \in EntriesOf(y)
              <=> \E j \in 1 .. Len(n.keys) : n.keys[j] = k2 /\ r2 \in ToSet(rids[j])
        BY <1>1, <2>8, EntriesOfIs
      <4>2. <<k2, r2>> \in EntriesOf(n)
              <=> \E j \in 1 .. Len(n.keys) : n.keys[j] = k2 /\ r2 \in ToSet(n.rids[j])
        BY <1>1, EntriesOfIs
      <4>3. i \in 1 .. Len(n.keys) /\ n.keys[i] = k  OBVIOUS
      <4> HIDE DEF k
      <4> QED BY <2>6, <4>1, <4>2, <4>3
    <3>2. \A e \in EntriesOf(y) : e = <<e[1], e[2]>>  BY EntriesOfIs
    <3>3. \A e \in EntriesOf(n) \cup {<<k, r>>} : e = <<e[1], e[2]>>  BY EntriesOfIs
    <3> HIDE DEF k
    <3>4. \A k2, r2 : <<k2, r2>> \in EntriesOf(y) <=> <<k2, r2>> \in EntriesOf(n) \cup {<<k, r>>}
      BY <3>1
    <3> QED BY <3>2, <3>3, <3>4, PairsSame
  <2>12. Grew(EntriesOf(n), EntriesOf(y), <<k, r>>, x.ret)  BY <2>7, <2>11 DEF Grew
  <2> QED BY <2>8, <2>9, <2>10, <2>12 DEF x, W, y
<1> QED BY <1>6, <1>7, <1>8

(* insert_entry, when the key is new: i is its place.                      *)
LEMMA InsertEntryNew ==
    ASSUME NEW S, NEW n, LeafShape(n, S), NEW k \in Keys, k \in S, NEW r \in Rids,
           NEW i \in 1 .. Len(n.keys) + 1, FirstAbove(n.keys, k - 1) = i,
           \A j \in 1 .. Len(n.keys) : (j < i => n.keys[j] < k) /\ (j >= i => n.keys[j] > k)
    PROVE  LET x == insert_entry(n, k, r)
           IN  /\ LeafShape(x.node, S) /\ x.node.next = n.next
               /\ Len(x.node.keys) = Len(n.keys) + 1
               /\ Len(n.keys) >= 1 /\ n.keys[1] <= k => x.node.keys[1] = n.keys[1]
               /\ Grew(EntriesOf(n), EntriesOf(x.node), <<k, r>>, x.ret)
               /\ Answered(WithKey(EntriesOf(n), k), <<k, r>>, x.ret)
<1> DEFINE x == insert_entry(n, k, r)
           W == WithKey(EntriesOf(n), k)
           keys == n.keys
           rids == n.rids
           N == Len(n.keys)
           v == InsertAt(n.keys, i, k)
           B == InsertAt(n.rids, i, <<r>>)
           y == x.node
<1>1. /\ keys \in Seq(Keys) /\ keys \in Seq(Int) /\ Sorted(keys) /\ DOMAIN keys = 1 .. N
      /\ N \in Nat /\ (\A j \in 1 .. N : keys[j] \in S /\ keys[j] \in Int)
      /\ rids \in Seq(Bucket) /\ Len(rids) = N /\ k \in Int /\ N = Len(keys)
  BY LeafFacts, KeysInt
<1>2. \A j \in 1 .. N : (j < i => keys[j] < k) /\ (j >= i => keys[j] > k)
  OBVIOUS
<1>3. \A j \in 1 .. N : keys[j] # k
  <2> TAKE j \in 1 .. N
  <2>1. j \in Int /\ i \in Int /\ keys[j] \in Int  BY <1>1
  <2>2. j < i => keys[j] < k  BY <1>2
  <2>3. j >= i => keys[j] > k  BY <1>2
  <2> HIDE DEF keys, N
  <2> QED BY <1>1, <2>1, <2>2, <2>3
<1>4. x = [node |-> Leaf(v, B, n.next), ret |-> "OK"]
  BY <1>1, <1>3 DEF insert_entry
<1>5. y = Leaf(v, B, n.next) /\ x.ret = "OK"  BY <1>4
<1>6. y.keys = v /\ y.rids = B /\ y.next = n.next  BY <1>5, LeafFields
<1>7. /\ v \in Seq(Keys) /\ Len(v) = N + 1 /\ DOMAIN v = 1 .. N + 1
      /\ \A j \in 1 .. N : j < i => v[j] = keys[j]
      /\ v[i] = k
      /\ \A j \in 1 .. N : j >= i => v[j + 1] = keys[j]
  <2>1. i \in 1 .. N + 1 /\ v = InsertAt(keys, i, k) /\ Len(keys) = N  OBVIOUS
  <2> HIDE DEF keys, N, v
  <2>2. keys \in Seq(Keys) /\ k \in Keys  BY <1>1
  <2>3. IsInserted(Keys, keys, N, i, k, InsertAt(keys, i, k))  BY <2>1, <2>2, InsertIs
  <2> QED BY <2>1, <2>3 DEF IsInserted
<1>8. /\ B \in Seq(Bucket) /\ Len(B) = N + 1 /\ DOMAIN B = 1 .. N + 1
      /\ \A j \in 1 .. N : j < i => B[j] = rids[j]
      /\ B[i] = <<r>>
      /\ \A j \in 1 .. N : j >= i => B[j + 1] = rids[j]
  <2> DEFINE bucket == <<r>>
  <2>1. B = InsertAt(rids, i, bucket) /\ bucket \in Bucket  BY FreshBucket
  <2>2. i \in 1 .. N + 1 /\ rids \in Seq(Bucket) /\ Len(rids) = N  BY <1>1
  <2> HIDE DEF rids, N, B, bucket
  <2>3. IsInserted(Bucket, rids, N, i, bucket, InsertAt(rids, i, bucket))
    BY <2>1, <2>2, InsertIs
  <2> QED BY <2>1, <2>3 DEF IsInserted, bucket
<1>9. Sorted(v)
  <2>1. i \in 1 .. Len(keys) + 1 /\ v = InsertAt(keys, i, k)  OBVIOUS
  <2> HIDE DEF keys, v, N
  <2>2. \A j \in 1 .. Len(keys) : (j < i => keys[j] < k) /\ (j >= i => keys[j] > k)  BY <1>1, <1>2
  <2> QED BY <1>1, <2>1, <2>2, InsertSorted
<1>10. i \in 1 .. N + 1 /\ k \in S  OBVIOUS
<1> HIDE DEF keys, rids, v, B, N
<1>11. \A j \in 1 .. N + 1 : v[j] \in S
  <2> TAKE j \in 1 .. N + 1
  <2>1. CASE j \in 1 .. N /\ j < i  BY <1>1, <1>7, <2>1
  <2>2. CASE j = i  BY <1>7, <1>10, <2>2
  <2>3. CASE j - 1 \in 1 .. N /\ j - 1 >= i /\ (j - 1) + 1 = j
    <3>1. v[(j - 1) + 1] = keys[j - 1]  BY <1>7, <2>3
    <3> QED BY <1>1, <2>3, <3>1
  <2> QED BY <1>1, <1>10, <2>1, <2>2, <2>3, InsertPlaces
<1>12. LeafShape(y, S)
  <2> HIDE DEF y
  <2> QED BY <1>5, <1>6, <1>7, <1>8, <1>9, <1>11 DEF LeafShape
<1>13. N >= 1 /\ keys[1] <= k => v[1] = keys[1]
  <2> SUFFICES ASSUME N >= 1, keys[1] <= k PROVE v[1] = keys[1]  OBVIOUS
  <2>1. 1 \in 1 .. N /\ 1 \in 1 .. N + 1 /\ keys[1] \in Int  BY <1>1
  <2>2. 1 < i  BY <1>1, <1>2, <1>10, <2>1
  <2> QED BY <1>7, <2>1, <2>2
<1>14. W = {}
  <2> SUFFICES ASSUME NEW e \in W PROVE FALSE  OBVIOUS
  <2>1. e \in EntriesOf(n) /\ e[1] = k /\ e = <<e[1], e[2]>>  BY EntriesOfIs DEF WithKey
  <2>2. <<k, e[2]>> \in EntriesOf(n)  BY <2>1
  <2>3. \E j \in DOMAIN n.keys : n.keys[j] = k  BY <2>2, EntriesOfIs
  <2> QED BY <1>1, <1>3, <2>3 DEF keys, N
<1>15. Answered(W, <<k, r>>, x.ret)
  <2>1. Cardinality(W) = 0 /\ 0 < ridsPerBucket  BY <1>14, FS_EmptySet, IndexTreeAssumption
  <2> QED BY <1>5, <1>14, <2>1 DEF Answered
<1>16. \A k2, r2 : <<k2, r2>> \in EntriesOf(y) <=> <<k2, r2>> \in EntriesOf(n) \/ (k2 = k /\ r2 = r)
  <2> TAKE k2, r2
  <2>1. <<k2, r2>> \in EntriesOf(y) <=> \E j \in 1 .. N + 1 : v[j] = k2 /\ r2 \in ToSet(B[j])
    <3> HIDE DEF y
    <3>1. <<k2, r2>> \in EntriesOf(y)
            <=> \E j \in DOMAIN y.keys : y.keys[j] = k2 /\ r2 \in ToSet(y.rids[j])
      BY EntriesOfIs
    <3> QED BY <1>6, <1>7, <3>1
  <2>2. <<k2, r2>> \in EntriesOf(n) <=> \E j \in 1 .. N : keys[j] = k2 /\ r2 \in ToSet(rids[j])
    <3>1. <<k2, r2>> \in EntriesOf(n)
            <=> \E j \in DOMAIN n.keys : n.keys[j] = k2 /\ r2 \in ToSet(n.rids[j])
      BY EntriesOfIs
    <3>2. <<k2, r2>> \in EntriesOf(n)
            <=> \E j \in DOMAIN keys : keys[j] = k2 /\ r2 \in ToSet(rids[j])
      BY <3>1 DEF keys, rids
    <3> QED BY <1>1, <3>2
  <2>3. ASSUME NEW j \in 1 .. N + 1, v[j] = k2, r2 \in ToSet(B[j])
        PROVE  <<k2, r2>> \in EntriesOf(n) \/ (k2 = k /\ r2 = r)
    <3>1. CASE j \in 1 .. N /\ j < i
      <4>1. keys[j] = k2 /\ r2 \in ToSet(rids[j])  BY <1>7, <1>8, <2>3, <3>1
      <4> QED BY <2>2, <3>1, <4>1
    <3>2. CASE j = i
      <4>1. k = k2 /\ r2 \in ToSet(<<r>>)  BY <1>7, <1>8, <2>3, <3>2
      <4> QED BY <4>1, FreshBucket
    <3>3. CASE j - 1 \in 1 .. N /\ j - 1 >= i /\ (j - 1) + 1 = j
      <4>1. v[(j - 1) + 1] = keys[j - 1] /\ B[(j - 1) + 1] = rids[j - 1]  BY <1>7, <1>8, <3>3
      <4>2. keys[j - 1] = k2 /\ r2 \in ToSet(rids[j - 1])  BY <2>3, <3>3, <4>1
      <4> QED BY <2>2, <3>3, <4>2
    <3> QED BY <1>1, <1>10, <3>1, <3>2, <3>3, InsertPlaces
  <2>4. ASSUME NEW j \in 1 .. N, keys[j] = k2, r2 \in ToSet(rids[j])
        PROVE  \E l \in 1 .. N + 1 : v[l] = k2 /\ r2 \in ToSet(B[l])
    <3>1. j \in 1 .. N + 1 /\ j + 1 \in 1 .. N + 1 /\ (j < i \/ j >= i)  BY <1>1, <1>10
    <3>2. j < i => v[j] = keys[j] /\ B[j] = rids[j]  BY <1>7, <1>8
    <3>3. j >= i => v[j + 1] = keys[j] /\ B[j + 1] = rids[j]  BY <1>7, <1>8
    <3> QED BY <2>4, <3>1, <3>2, <3>3
  <2>5. ASSUME k2 = k, r2 = r PROVE \E l \in 1 .. N + 1 : v[l] = k2 /\ r2 \in ToSet(B[l])
    BY <1>7, <1>8, <1>10, <2>5, FreshBucket
  <2> HIDE DEF y
  <2> QED BY <2>1, <2>2, <2>3, <2>4, <2>5
<1>17. EntriesOf(y) = EntriesOf(n) \cup {<<k, r>>}
  <2> HIDE DEF y
  <2>1. \A e \in EntriesOf(y) : e = <<e[1], e[2]>>  BY EntriesOfIs
  <2>2. \A e \in EntriesOf(n) \cup {<<k, r>>} : e = <<e[1], e[2]>>  BY EntriesOfIs
  <2>3. \A k2, r2 : <<k2, r2>> \in EntriesOf(y) <=> <<k2, r2>> \in EntriesOf(n) \cup {<<k, r>>}
    BY <1>16
  <2> QED BY <2>1, <2>2, <2>3, PairsSame
<1>18. Grew(EntriesOf(n), EntriesOf(y), <<k, r>>, x.ret)  BY <1>5, <1>17 DEF Grew
<1> HIDE DEF x, W
<1> QED BY <1>6, <1>7, <1>12, <1>13, <1>15, <1>18 DEF x, W, y, keys, N

LEMMA InsertEntryIs ==
    ASSUME NEW S, NEW n, LeafShape(n, S), NEW k \in Keys, k \in S, NEW r \in Rids
    PROVE  LET x == insert_entry(n, k, r)
           IN  /\ LeafShape(x.node, S) /\ x.node.next = n.next
               /\ Len(x.node.keys) \in 1 .. Len(n.keys) + 1
               /\ Len(n.keys) >= 1 /\ n.keys[1] <= k => x.node.keys[1] = n.keys[1]
               /\ Grew(EntriesOf(n), EntriesOf(x.node), <<k, r>>, x.ret)
               /\ Answered(WithKey(EntriesOf(n), k), <<k, r>>, x.ret)
<1> DEFINE x == insert_entry(n, k, r)
           keys == n.keys
           i == FirstAbove(keys, k - 1)
           N == Len(keys)
<1>1. keys \in Seq(Keys) /\ Sorted(keys) /\ DOMAIN keys = 1 .. N /\ N \in Nat
  BY LeafFacts
<1>2. /\ i \in 1 .. N + 1
      /\ \A j \in 1 .. N : j < i => keys[j] < k
      /\ \A j \in 1 .. N : keys[j] = k => j = i
      /\ ~ (i \in DOMAIN keys /\ keys[i] = k) => \A j \in 1 .. N : j >= i => keys[j] > k
  <2> HIDE DEF keys
  <2> QED BY <1>1, EntryPlace
<1>3. CASE i \in DOMAIN keys /\ keys[i] = k
  <2>1. i \in 1 .. Len(n.keys) /\ FirstAbove(n.keys, n.keys[i] - 1) = i /\ n.keys[i] = k
    BY <1>1, <1>3
  <2> HIDE DEF i
  <2>2. /\ LeafShape(x.node, S) /\ x.node.next = n.next /\ x.node.keys = n.keys
        /\ Grew(EntriesOf(n), EntriesOf(x.node), <<k, r>>, x.ret)
        /\ Answered(WithKey(EntriesOf(n), k), <<k, r>>, x.ret)
    BY <2>1, InsertEntryFound
  <2>3. N \in 1 .. N + 1  BY <1>1, <2>1
  <2> HIDE DEF x
  <2> QED BY <2>2, <2>3 DEF x
<1>4. CASE ~ (i \in DOMAIN keys /\ keys[i] = k)
  <2>1. \A j \in 1 .. N : (j < i => keys[j] < k) /\ (j >= i => keys[j] > k)
    BY <1>2, <1>4
  <2>2. /\ i \in 1 .. Len(n.keys) + 1 /\ FirstAbove(n.keys, k - 1) = i
        /\ \A j \in 1 .. Len(n.keys) : (j < i => n.keys[j] < k) /\ (j >= i => n.keys[j] > k)
    BY <1>2, <2>1
  <2> HIDE DEF i
  <2>3. /\ LeafShape(x.node, S) /\ x.node.next = n.next
        /\ Len(x.node.keys) = Len(n.keys) + 1
        /\ Len(n.keys) >= 1 /\ n.keys[1] <= k => x.node.keys[1] = n.keys[1]
        /\ Grew(EntriesOf(n), EntriesOf(x.node), <<k, r>>, x.ret)
        /\ Answered(WithKey(EntriesOf(n), k), <<k, r>>, x.ret)
    BY <2>2, InsertEntryNew
  <2>4. N + 1 \in 1 .. N + 1  BY <1>1
  <2> HIDE DEF x
  <2> QED BY <2>3, <2>4 DEF x
<1> QED BY <1>3, <1>4

Below(S, key) == {x \in S : x < key}
From(S, key) == {x \in S : x >= key}

(* A leaf over S is parted at key, behind its first m ones.                *)
IsHalved(S, n, m, new, key, low, high) ==
    /\ LeafShape(low, Below(S, key)) /\ LeafShape(high, From(S, key))
    /\ Len(low.keys) = m /\ Len(high.keys) = Len(n.keys) - m
    /\ low.next = new /\ high.next = n.next
    /\ high.keys[1] = key /\ key \in Keys /\ key \in S
    /\ EntriesOf(n) = EntriesOf(low) \cup EntriesOf(high)
    /\ n.keys[1] \in S /\ n.keys[1] < key

LEMMA HalvesAre ==
    ASSUME NEW S, NEW n, LeafShape(n, S), NEW m \in 1 .. Len(n.keys) - 1, NEW new
    PROVE  IsHalved(S, n, m, new, n.keys[m + 1], Halves(n, m, new).low, Halves(n, m, new).high)
<1> DEFINE low == Halves(n, m, new).low
           high == Halves(n, m, new).high
           keys == n.keys
           rids == n.rids
           N == Len(keys)
           key == keys[m + 1]
           lk == SubSeq(keys, 1, m)
           lr == SubSeq(rids, 1, m)
           hk == SubSeq(keys, m + 1, N)
           hr == SubSeq(rids, m + 1, N)
<1>1. /\ keys \in Seq(Keys) /\ keys \in Seq(Int) /\ Sorted(keys) /\ DOMAIN keys = 1 .. N
      /\ N \in Nat /\ (\A j \in 1 .. N : keys[j] \in S /\ keys[j] \in Keys /\ keys[j] \in Int)
      /\ rids \in Seq(Bucket) /\ Len(rids) = N
  BY LeafFacts
<1>2. low = Leaf(lk, lr, new) /\ high = Leaf(hk, hr, n.next)  BY DEF Halves
<1>3. /\ low.keys = lk /\ low.rids = lr /\ low.next = new
      /\ high.keys = hk /\ high.rids = hr /\ high.next = n.next
  <2> DEFINE next == n.next
  <2>1. low = Leaf(lk, lr, new) /\ high = Leaf(hk, hr, next)  BY <1>2
  <2> HIDE DEF low, high, lk, lr, hk, hr, next
  <2>2. /\ low.keys = lk /\ low.rids = lr /\ low.next = new
        /\ high.keys = hk /\ high.rids = hr /\ high.next = next
    BY <2>1, LeafFields
  <2> QED BY <2>2 DEF next
<1>4. m \in 1 .. N - 1  OBVIOUS
<1>5. \A j1, j2 \in 1 .. N : j1 < j2 => keys[j1] < keys[j2]  BY <1>1 DEF Sorted
<1> HIDE DEF keys, rids, N, lk, lr, hk, hr
<1>6. m \in 0 .. N /\ m \in Nat /\ N - m \in Nat /\ m + 1 \in 1 .. N /\ 1 \in 1 .. N /\ 1 < m + 1
      /\ 1 \in 1 .. N - m
  BY <1>1, <1>4
<1>7. /\ lk \in Seq(Keys) /\ Len(lk) = m /\ DOMAIN lk = 1 .. m
      /\ \A j \in 1 .. m : lk[j] = keys[j]
  <2>1. Len(keys) = N /\ \A j \in 1 .. m : 0 + j = j  BY DEF N
  <2>2. IsPart(Keys, keys, 0, m, lk)  BY <1>1, <1>6, <2>1, PrefixIs DEF lk
  <2> QED BY <2>1, <2>2 DEF IsPart
<1>8. /\ lr \in Seq(Bucket) /\ Len(lr) = m /\ DOMAIN lr = 1 .. m
      /\ \A j \in 1 .. m : lr[j] = rids[j]
  <2>1. \A j \in 1 .. m : 0 + j = j  OBVIOUS
  <2>2. IsPart(Bucket, rids, 0, m, lr)  BY <1>1, <1>6, PrefixIs DEF lr
  <2> QED BY <2>1, <2>2 DEF IsPart
<1>9. /\ hk \in Seq(Keys) /\ Len(hk) = N - m /\ DOMAIN hk = 1 .. N - m
      /\ \A j \in 1 .. N - m : hk[j] = keys[m + j]
  <2>1. Len(keys) = N  BY DEF N
  <2>2. IsPart(Keys, keys, m, N - m, hk)  BY <1>1, <1>6, <2>1, SuffixIs DEF hk
  <2> QED BY <2>2 DEF IsPart
<1>10. /\ hr \in Seq(Bucket) /\ Len(hr) = N - m /\ DOMAIN hr = 1 .. N - m
       /\ \A j \in 1 .. N - m : hr[j] = rids[m + j]
  <2>1. IsPart(Bucket, rids, m, N - m, hr)  BY <1>1, <1>6, SuffixIs DEF hr
  <2> QED BY <2>1 DEF IsPart
<1>11. \A j \in 1 .. m : j \in 1 .. N /\ j < m + 1  BY <1>1, <1>4
<1>12. \A j \in 1 .. N - m : m + j \in 1 .. N /\ (m + j = m + 1 \/ m + 1 < m + j)  BY <1>1, <1>4
<1>13. key \in S /\ key \in Keys /\ key \in Int /\ keys[1] \in S /\ keys[1] < key
  BY <1>1, <1>5, <1>6
<1>14. \A j \in 1 .. m : lk[j] \in Below(S, key)
  <2> TAKE j \in 1 .. m
  <2>1. keys[j] \in S /\ keys[j] < key  BY <1>1, <1>5, <1>6, <1>11
  <2> HIDE DEF key
  <2> QED BY <1>7, <2>1 DEF Below
<1>15. \A j \in 1 .. N - m : hk[j] \in From(S, key)
  <2> TAKE j \in 1 .. N - m
  <2>1. keys[m + j] \in S /\ keys[m + j] \in Int  BY <1>1, <1>12
  <2>2. keys[m + j] >= key  BY SMTT(30), <1>1, <1>5, <1>6, <1>12, <1>13, <2>1
  <2> QED BY <1>9, <2>1, <2>2 DEF From
<1>16. Sorted(lk)  BY <1>5, <1>7, <1>11 DEF Sorted
<1>17. Sorted(hk)
  <2> SUFFICES ASSUME NEW j1 \in 1 .. N - m, NEW j2 \in 1 .. N - m, j1 < j2 PROVE hk[j1] < hk[j2]
    BY <1>9 DEF Sorted
  <2>1. m + j1 < m + j2  BY <1>6
  <2> QED BY <1>5, <1>9, <1>12, <2>1
<1>18. LeafShape(low, Below(S, key))
  <2>1. low = Leaf(low.keys, low.rids, low.next)  BY <1>2, <1>3
  <2> HIDE DEF low, key
  <2> QED BY <1>3, <1>7, <1>8, <1>14, <1>16, <2>1 DEF LeafShape
<1>19. LeafShape(high, From(S, key))
  <2>1. high = Leaf(high.keys, high.rids, high.next)  BY <1>2, <1>3
  <2> HIDE DEF high, key
  <2> QED BY <1>3, <1>9, <1>10, <1>15, <1>17, <2>1 DEF LeafShape
<1>20. hk[1] = key  BY <1>6, <1>9
<1>21. EntriesOf(n) = EntriesOf(low) \cup EntriesOf(high)
  <2>1. ASSUME NEW k, NEW r
        PROVE  <<k, r>> \in EntriesOf(n) <=> <<k, r>> \in EntriesOf(low) \cup EntriesOf(high)
    <3>1. <<k, r>> \in EntriesOf(n) <=> \E j \in 1 .. N : keys[j] = k /\ r \in ToSet(rids[j])
      <4>1. <<k, r>> \in EntriesOf(n)
              <=> \E j \in DOMAIN n.keys : n.keys[j] = k /\ r \in ToSet(n.rids[j])
        BY EntriesOfIs
      <4>2. <<k, r>> \in EntriesOf(n)
              <=> \E j \in DOMAIN keys : keys[j] = k /\ r \in ToSet(rids[j])
        BY <4>1 DEF keys, rids
      <4> QED BY <1>1, <4>2
    <3> HIDE DEF low, high
    <3>2. <<k, r>> \in EntriesOf(low) <=> \E j \in 1 .. m : lk[j] = k /\ r \in ToSet(lr[j])
      BY <1>3, <1>7, EntriesOfIs
    <3>3. <<k, r>> \in EntriesOf(high) <=> \E j \in 1 .. N - m : hk[j] = k /\ r \in ToSet(hr[j])
      <4>1. <<k, r>> \in EntriesOf(high)
              <=> \E j \in DOMAIN high.keys : high.keys[j] = k /\ r \in ToSet(high.rids[j])
        BY EntriesOfIs
      <4>2. high.keys = hk /\ high.rids = hr /\ DOMAIN hk = 1 .. N - m  BY <1>3, <1>9
      <4> QED BY <4>1, <4>2
    <3>4. ASSUME NEW j \in 1 .. N, keys[j] = k, r \in ToSet(rids[j])
          PROVE  <<k, r>> \in EntriesOf(low) \cup EntriesOf(high)
      <4>1. CASE j <= m
        <5>1. j \in 1 .. m  BY <1>6, <4>1
        <5> QED BY <1>7, <1>8, <3>2, <3>4, <5>1
      <4>2. CASE j > m
        <5>1. j - m \in 1 .. N - m /\ m + (j - m) = j  BY <1>1, <1>6, <4>2
        <5>2. hk[j - m] = keys[j] /\ hr[j - m] = rids[j]  BY <1>9, <1>10, <5>1
        <5> QED BY <3>3, <3>4, <5>1, <5>2
      <4> QED BY <1>6, <4>1, <4>2
    <3>5. <<k, r>> \in EntriesOf(low) => <<k, r>> \in EntriesOf(n)
      BY <1>7, <1>8, <1>11, <3>1, <3>2
    <3>6. <<k, r>> \in EntriesOf(high) => <<k, r>> \in EntriesOf(n)
      BY <1>9, <1>10, <1>12, <3>1, <3>3
    <3> QED BY <3>1, <3>4, <3>5, <3>6
  <2> HIDE DEF low, high
  <2>2. \A e \in EntriesOf(low) \cup EntriesOf(high) : e = <<e[1], e[2]>>  BY EntriesOfIs
  <2>3. \A e \in EntriesOf(n) : e = <<e[1], e[2]>>  BY EntriesOfIs
  <2> QED BY <2>1, <2>2, <2>3, PairsSame
<1> HIDE DEF low, high
<1>22. Len(n.keys) = N /\ keys = n.keys  BY DEF keys, N
<1> HIDE DEF key
<1>23. IsHalved(S, n, m, new, key, low, high)
  BY <1>3, <1>7, <1>9, <1>13, <1>18, <1>19, <1>20, <1>21, <1>22 DEF IsHalved
<1> QED BY <1>23 DEF low, high, key, keys

----------------------------------------------------------------------------
(* The tree, seen from outside: h is the height of each node above the     *)
(* leaves, s the span of each, the values that lead to it, and c the chain *)
(* of the leaves.                                                          *)

(* The part of S between the keys on either side of child j.               *)
Slice(S, keys, j) ==
    {x \in S : (j > 1 => keys[j - 1] <= x) /\ (j <= Len(keys) => x < keys[j])}

Parts(keys, kids, S, s) ==
    /\ keys \in Seq(Keys) /\ Sorted(keys) /\ \A i \in 1 .. Len(keys) : keys[i] \in S
    /\ kids \in Seq(DOMAIN s) /\ Len(kids) = Len(keys) + 1
    /\ \A j \in 1 .. Len(kids) : s[kids[j]] = Slice(S, keys, j)

LeafOK(n, S) == LeafShape(n, S) /\ Len(n.keys) <= b - 1

InnerOK(n, h, s, p) ==
    /\ n.type = "inner" /\ Parts(n.keys, n.children, s[p], s)
    /\ Len(n.children) \in 2 .. b
    /\ \A j \in 1 .. Len(n.children) : h[n.children[j]] = h[p] - 1

(* The leaves follow one another as their spans do.                        *)
ChainOK(t, h, s, c) ==
    /\ c \in Seq(DOMAIN t)
    /\ \A p \in DOMAIN t : h[p] = 0 <=> \E i \in 1 .. Len(c) : c[i] = p
    /\ \A i \in 1 .. Len(c) : t[c[i]].next = IF i < Len(c) THEN c[i + 1] ELSE kNullNode
    /\ \A i, j \in 1 .. Len(c) : i < j => \A x \in s[c[i]], y \in s[c[j]] : x < y

Numbered(t) == \E N \in Nat : DOMAIN t = 1 .. N

Apart(h, s) ==
    /\ \A p \in DOMAIN h : s[p] # {}
    /\ \A p, q \in DOMAIN h : p # q /\ h[p] = h[q] => s[p] \cap s[q] = {}

(* A tree that is in order up to height H.                                 *)
Well(t, h, s, c, H) ==
    /\ Numbered(t) /\ h \in [DOMAIN t -> Nat] /\ s \in [DOMAIN t -> SUBSET Int]
    /\ Apart(h, s)
    /\ \A p \in DOMAIN t : h[p] = 0 => LeafOK(t[p], s[p]) /\ (t[p].keys # <<>> \/ DOMAIN t = {p})
    /\ \A p \in DOMAIN t : h[p] > 0 => t[p].type = "inner"
    /\ \A p \in DOMAIN t : h[p] > 0 /\ h[p] <= H => InnerOK(t[p], h, s, p)
    /\ ChainOK(t, h, s, c)

LEMMA NextPageIs ==
    ASSUME NEW t, NEW N \in Nat, DOMAIN t = 1 .. N
    PROVE  /\ NextPage(t) = N + 1 /\ NextPage(t) \notin DOMAIN t
           /\ DOMAIN t \cup {NextPage(t)} = 1 .. N + 1 /\ kNullNode \notin DOMAIN t
           /\ NextPage(t) # kNullNode
<1>1. Cardinality(DOMAIN t) = N  BY FS_Interval
<1>2. NextPage(t) = N + 1  BY <1>1 DEF NextPage
<1> QED BY <1>2 DEF kNullNode

LEMMA WithNodeIs ==
    ASSUME NEW t, NEW p, NEW node
    PROVE  /\ DOMAIN WithNode(t, p, node) = DOMAIN t \cup {p}
           /\ WithNode(t, p, node)[p] = node
           /\ \A q \in DOMAIN t : q # p => WithNode(t, p, node)[q] = t[q]
  BY DEF WithNode

LEMMA LeafIff ==
    ASSUME NEW t, NEW h, NEW s, NEW c, NEW H, Well(t, h, s, c, H)
    PROVE  /\ \A p \in DOMAIN t : t[p].type = "leaf" <=> h[p] = 0
           /\ LeavesIn(t) = {p \in DOMAIN t : h[p] = 0}
<1>1. /\ h \in [DOMAIN t -> Nat]
      /\ \A p \in DOMAIN t : h[p] = 0 => LeafShape(t[p], s[p])
      /\ \A p \in DOMAIN t : h[p] > 0 => t[p].type = "inner"
  BY DEF Well, LeafOK
<1>2. \A p \in DOMAIN t : h[p] = 0 => t[p].type = "leaf"
  BY <1>1, LeafFacts
<1>3. \A p \in DOMAIN t : h[p] = 0 \/ h[p] > 0  BY <1>1
<1> QED BY <1>1, <1>2, <1>3 DEF LeavesIn

(* The entries outside leaf p.                                             *)
Elsewhere(t, p) == UNION {EntriesOf(t[q]) : q \in LeavesIn(t) \ {p}}

LEMMA EntriesSplit ==
    ASSUME NEW t, NEW p \in LeavesIn(t)
    PROVE  EntriesIn(t) = EntriesOf(t[p]) \cup Elsewhere(t, p)
  BY DEF EntriesIn, Elsewhere

LEMMA EntriesSame ==
    ASSUME NEW t, NEW t2, LeavesIn(t2) = LeavesIn(t), \A p \in LeavesIn(t) : t2[p] = t[p]
    PROVE  EntriesIn(t2) = EntriesIn(t)
  BY DEF EntriesIn

(* All entries of a key are in the leaf whose span it lies in.             *)
LEMMA KeyElsewhere ==
    ASSUME NEW t, NEW h, NEW s, NEW c, NEW H, Well(t, h, s, c, H),
           NEW p \in DOMAIN t, h[p] = 0, NEW k \in s[p]
    PROVE  WithKey(Elsewhere(t, p), k) = {}
<1> SUFFICES ASSUME NEW e \in WithKey(Elsewhere(t, p), k) PROVE FALSE  OBVIOUS
<1>1. e \in Elsewhere(t, p) /\ e[1] = k  BY DEF WithKey
<1>2. PICK q \in LeavesIn(t) \ {p} : e \in EntriesOf(t[q])  BY <1>1 DEF Elsewhere
<1>3. q \in DOMAIN t /\ h[q] = 0 /\ q # p  BY <1>2, LeafIff
<1>4. LeafShape(t[q], s[q]) /\ s[q] \cap s[p] = {}  BY <1>3 DEF Well, LeafOK, Apart
<1>5. e = <<k, e[2]>>  BY <1>1, <1>2, EntriesOfIs
<1>6. PICK i \in DOMAIN t[q].keys : t[q].keys[i] = k  BY <1>2, <1>5, EntriesOfIs
<1>7. k \in s[q]  BY <1>4, <1>6, LeafFacts
<1> QED BY <1>4, <1>7

(* A leaf is replaced by another over the same span.                       *)
LeafReplaced(t, s, p, n, t2) ==
    /\ DOMAIN t2 = DOMAIN t /\ t2[p] = n /\ \A q \in DOMAIN t : q # p => t2[q] = t[q]
    /\ LeafOK(n, s[p]) /\ n.next = t[p].next /\ (n.keys # <<>> \/ DOMAIN t = {p})

LEMMA ReplaceLeaf ==
    ASSUME NEW t, NEW h, NEW s, NEW c, NEW H, Well(t, h, s, c, H),
           NEW p \in DOMAIN t, h[p] = 0, NEW n, NEW t2, LeafReplaced(t, s, p, n, t2)
    PROVE  /\ Well(t2, h, s, c, H)
           /\ EntriesIn(t2) = EntriesOf(n) \cup Elsewhere(t, p)
<1>1. /\ DOMAIN t2 = DOMAIN t /\ t2[p] = n /\ \A q \in DOMAIN t : q # p => t2[q] = t[q]
      /\ n = t2[p] /\ LeafOK(n, s[p]) /\ n.next = t[p].next
      /\ n.keys # <<>> \/ DOMAIN t = {p}
  BY DEF LeafReplaced
<1>2. /\ Numbered(t2) /\ h \in [DOMAIN t2 -> Nat] /\ s \in [DOMAIN t2 -> SUBSET Int]
      /\ Apart(h, s)
  BY <1>1 DEF Well, Numbered
<1>3. \A q \in DOMAIN t2 :
        h[q] = 0 => LeafOK(t2[q], s[q]) /\ (t2[q].keys # <<>> \/ DOMAIN t2 = {q})
  BY <1>1 DEF Well
<1>4. /\ \A q \in DOMAIN t2 : h[q] > 0 => t2[q].type = "inner"
      /\ \A q \in DOMAIN t2 : h[q] > 0 /\ h[q] <= H => InnerOK(t2[q], h, s, q)
  <2>1. ~ (h[p] > 0)  OBVIOUS
  <2> QED BY <1>1, <2>1 DEF Well
<1>5. ChainOK(t2, h, s, c)
  <2>1. ChainOK(t, h, s, c)  BY DEF Well
  <2>2. \A i \in 1 .. Len(c) : c[i] \in DOMAIN t  BY <2>1 DEF ChainOK
  <2>3. \A i \in 1 .. Len(c) : t2[c[i]].next = t[c[i]].next  BY <1>1, <2>2
  <2> QED BY <1>1, <2>1, <2>3 DEF ChainOK
<1>6. Well(t2, h, s, c, H)  BY <1>2, <1>3, <1>4, <1>5 DEF Well
<1>7. LeavesIn(t2) = LeavesIn(t) /\ p \in LeavesIn(t)
  <2>1. LeavesIn(t2) = {q \in DOMAIN t2 : h[q] = 0}  BY <1>6, LeafIff
  <2>2. LeavesIn(t) = {q \in DOMAIN t : h[q] = 0}  BY LeafIff
  <2> QED BY <1>1, <2>1, <2>2
<1>8. EntriesIn(t2) = EntriesOf(n) \cup Elsewhere(t2, p)  BY <1>1, <1>7, EntriesSplit
<1>9. Elsewhere(t2, p) = Elsewhere(t, p)
  <2>1. \A q \in LeavesIn(t) \ {p} : t2[q] = t[q]  BY <1>1 DEF LeavesIn
  <2> QED BY <1>7, <2>1 DEF Elsewhere
<1> QED BY <1>1, <1>6, <1>8, <1>9

(* Node p is split at key: the new one is as high and takes what is at and *)
(* above key of its span.                                                  *)
SplitView(D, h, s, p, new, key, g, u) ==
    /\ g \in [D \cup {new} -> Nat] /\ u \in [D \cup {new} -> SUBSET Int] /\ Apart(g, u)
    /\ \A q \in D : g[q] = h[q] /\ q # new /\ (q # p => u[q] = s[q])
    /\ g[new] = h[p] /\ u[new] = From(s[p], key) /\ u[p] = Below(s[p], key)

(* t2 is t with low at page p and high at a new one.                       *)
TreeSplit(t, p, low, new, high, t2) ==
    /\ DOMAIN t2 = DOMAIN t \cup {new} /\ t2[p] = low /\ t2[new] = high
    /\ \A q \in DOMAIN t : q # p => t2[q] = t[q]
    /\ new \notin DOMAIN t /\ new # kNullNode /\ p # new /\ Numbered(t2)

LEMMA TreeSplitIs ==
    ASSUME NEW t, Numbered(t), NEW p \in DOMAIN t, NEW low, NEW high
    PROVE  TreeSplit(t, p, low, NextPage(t), high,
                     WithNode([t EXCEPT ![p] = low], NextPage(t), high))
<1>1. PICK N \in Nat : DOMAIN t = 1 .. N  BY DEF Numbered
<1> DEFINE new == NextPage(t)
           t1 == [t EXCEPT ![p] = low]
           t2 == WithNode(t1, new, high)
<1>2. /\ new \notin DOMAIN t /\ DOMAIN t \cup {new} = 1 .. N + 1 /\ new # kNullNode
  BY <1>1, NextPageIs
<1>3. DOMAIN t1 = DOMAIN t /\ t1[p] = low /\ \A q \in DOMAIN t : q # p => t1[q] = t[q]
  BY <1>1
<1> HIDE DEF t1, new
<1>4. /\ DOMAIN t2 = DOMAIN t1 \cup {new} /\ t2[new] = high
      /\ \A q \in DOMAIN t1 : q # new => t2[q] = t1[q]
  BY DEF WithNode
<1> HIDE DEF t2
<1>5. p # new  BY <1>2
<1>6. /\ DOMAIN t2 = DOMAIN t \cup {new} /\ t2[p] = low
      /\ \A q \in DOMAIN t : q # p => t2[q] = t[q]
  <2>1. \A q \in DOMAIN t : q # new  BY <1>2
  <2> QED BY <1>3, <1>4, <2>1
<1>7. Numbered(t2)
  <2>1. N + 1 \in Nat /\ DOMAIN t2 = 1 .. N + 1  BY <1>2, <1>6
  <2> QED BY <2>1 DEF Numbered
<1>8. TreeSplit(t, p, low, new, high, t2)  BY <1>2, <1>4, <1>5, <1>6, <1>7 DEF TreeSplit
<1> QED BY <1>8 DEF t2, t1, new

LEMMA SpansApart ==
    ASSUME NEW D, NEW h \in [D -> Nat], NEW s \in [D -> SUBSET Int], Apart(h, s),
           NEW p \in D, NEW new, new \notin D, NEW key \in Int, key \in s[p],
           NEW x \in s[p], x < key,
           NEW g, g = [q \in D \cup {new} |-> IF q = new THEN h[p] ELSE h[q]],
           NEW u, u = [q \in D \cup {new} |->
                         IF q = new THEN From(s[p], key)
                         ELSE IF q = p THEN Below(s[p], key) ELSE s[q]]
    PROVE  SplitView(D, h, s, p, new, key, g, u)
<1>1. s[p] \in SUBSET Int  OBVIOUS
<1>2. Below(s[p], key) \in SUBSET Int /\ From(s[p], key) \in SUBSET Int  BY <1>1 DEF Below, From
<1>3. g \in [D \cup {new} -> Nat]  OBVIOUS
<1>4. u \in [D \cup {new} -> SUBSET Int]  BY <1>2
<1>5. /\ \A q \in D : g[q] = h[q] /\ q # new /\ (q # p => u[q] = s[q])
      /\ g[new] = h[p] /\ u[new] = From(s[p], key) /\ u[p] = Below(s[p], key)
      /\ DOMAIN g = D \cup {new}
  OBVIOUS
<1>6. x \in Below(s[p], key) /\ key \in From(s[p], key)  BY DEF Below, From
<1>7. Below(s[p], key) \cap From(s[p], key) = {}  BY <1>1 DEF Below, From
<1>8. Below(s[p], key) \subseteq s[p] /\ From(s[p], key) \subseteq s[p]  BY DEF Below, From
<1>9. /\ DOMAIN h = D /\ \A q \in D : s[q] # {}
      /\ \A q, r \in D : q # r /\ h[q] = h[r] => s[q] \cap s[r] = {}
  BY DEF Apart
<1>10. ASSUME NEW q \in D \cup {new} PROVE u[q] # {}
  BY <1>5, <1>6, <1>9
<1>11. ASSUME NEW q \in D \cup {new}, NEW r \in D \cup {new}, q # r, g[q] = g[r]
       PROVE  u[q] \cap u[r] = {}
  <2>1. CASE q \in D /\ r \in D
    <3>1. s[q] \cap s[r] = {} /\ u[q] \subseteq s[q] /\ u[r] \subseteq s[r]
      BY <1>5, <1>8, <1>9, <1>11, <2>1
    <3> QED BY <3>1
  <2>2. CASE q = new
    <3>1. r \in D /\ h[r] = h[p]  BY <1>5, <1>11, <2>2
    <3>2. CASE r = p  BY <1>5, <1>7, <2>2, <3>2
    <3>3. CASE r # p
      <4>1. s[p] \cap s[r] = {} /\ u[r] = s[r]  BY <1>5, <1>9, <3>1, <3>3
      <4> QED BY <1>5, <1>8, <2>2, <4>1
    <3> QED BY <3>2, <3>3
  <2>3. CASE r = new
    <3>1. q \in D /\ h[q] = h[p]  BY <1>5, <1>11, <2>3
    <3>2. CASE q = p  BY <1>5, <1>7, <2>3, <3>2
    <3>3. CASE q # p
      <4>1. s[q] \cap s[p] = {} /\ u[q] = s[q]  BY <1>5, <1>9, <3>1, <3>3
      <4> QED BY <1>5, <1>8, <2>3, <4>1
    <3> QED BY <3>2, <3>3
  <2> QED BY <2>1, <2>2, <2>3
<1>12. Apart(g, u)  BY ZenonT(40), <1>5, <1>10, <1>11 DEF Apart
<1> QED BY <1>3, <1>4, <1>5, <1>12 DEF SplitView

(* A leaf is split: the new one comes behind the old one in the chain.     *)
LEMMA ChainSplit ==
    ASSUME NEW t, NEW h, NEW s, NEW c, ChainOK(t, h, s, c),
           h \in [DOMAIN t -> Nat], s \in [DOMAIN t -> SUBSET Int], Apart(h, s),
           NEW p \in DOMAIN t, h[p] = 0, NEW new, NEW key \in Int,
           NEW low, NEW high, NEW t2, TreeSplit(t, p, low, new, high, t2),
           low.next = new, high.next = t[p].next,
           NEW g, NEW u, SplitView(DOMAIN t, h, s, p, new, key, g, u)
    PROVE  \E d : ChainOK(t2, g, u, d)
<1>0. /\ DOMAIN t2 = DOMAIN t \cup {new} /\ new \notin DOMAIN t /\ new # kNullNode
      /\ \A q \in DOMAIN t : q # p => t2[q] = t[q]
      /\ t2[p].next = new /\ t2[new].next = t[p].next
  BY DEF TreeSplit
<1>1. /\ c \in Seq(DOMAIN t) /\ DOMAIN c = 1 .. Len(c) /\ Len(c) \in Nat
      /\ \A q \in DOMAIN t : h[q] = 0 <=> \E i \in 1 .. Len(c) : c[i] = q
      /\ \A i \in 1 .. Len(c) : c[i] \in DOMAIN t
      /\ \A i \in 1 .. Len(c) : t[c[i]].next = IF i < Len(c) THEN c[i + 1] ELSE kNullNode
      /\ \A i, j \in 1 .. Len(c) : i < j => \A x \in s[c[i]], y \in s[c[j]] : x < y
  BY DEF ChainOK
<1> DEFINE N == Len(c)
<1>2. PICK a \in 1 .. N : c[a] = p  BY <1>1
<1>3. \A i, j \in 1 .. N : c[i] = c[j] => i = j
  <2> SUFFICES ASSUME NEW i \in 1 .. N, NEW j \in 1 .. N, c[i] = c[j], i # j PROVE FALSE
    OBVIOUS
  <2>1. s[c[i]] # {} /\ s[c[i]] \in SUBSET Int  BY <1>1 DEF Apart
  <2>2. PICK x \in s[c[i]] : x \in Int  BY <2>1
  <2>3. i < j \/ j < i  BY <1>1
  <2>4. x < x  BY <1>1, <2>2, <2>3
  <2> QED BY <2>2, <2>4
<1> DEFINE d == InsertAt(c, a + 1, new)
<1>4. /\ d \in Seq(DOMAIN t2) /\ Len(d) = N + 1
      /\ \A j \in 1 .. N : j < a + 1 => d[j] = c[j]
      /\ d[a + 1] = new
      /\ \A j \in 1 .. N : j >= a + 1 => d[j + 1] = c[j]
  <2> DEFINE X == DOMAIN t2
             i == a + 1
  <2>1. c \in Seq(X) /\ new \in X /\ i \in 1 .. N + 1  BY <1>0, <1>1, SeqSub
  <2>2. d = InsertAt(c, i, new) /\ Len(c) = N  OBVIOUS
  <2> HIDE DEF d, N, X, i
  <2>3. IsInserted(X, c, N, i, new, InsertAt(c, i, new))  BY <2>1, <2>2, InsertIs
  <2> QED BY <2>2, <2>3 DEF IsInserted, X, i
<1> HIDE DEF d
<1>5. \A j \in 1 .. N : j < a + 1 => d[j] = c[j]  BY <1>4
<1>6. d[a + 1] = new  BY <1>4
<1>7. \A j \in 1 .. N : j >= a + 1 => d[j + 1] = c[j]  BY <1>4
<1>8. \A j \in 1 .. N + 1 :
        \/ j \in 1 .. N /\ j < a + 1
        \/ j = a + 1
        \/ j - 1 \in 1 .. N /\ j - 1 >= a + 1 /\ (j - 1) + 1 = j
  BY <1>1
<1>9. /\ \A q \in DOMAIN t : g[q] = h[q] /\ q # new /\ (q # p => u[q] = s[q])
      /\ g[new] = 0 /\ u[new] = From(s[p], key) /\ u[p] = Below(s[p], key)
  BY DEF SplitView
<1>10. ASSUME NEW q \in DOMAIN t2 PROVE g[q] = 0 <=> \E i \in 1 .. N + 1 : d[i] = q
  <2>1. CASE q = new
    <3>1. a + 1 \in 1 .. N + 1  BY <1>1
    <3> QED BY <1>6, <1>9, <2>1, <3>1
  <2>2. CASE q # new
    <3>1. q \in DOMAIN t /\ g[q] = h[q]  BY <1>0, <1>9, <2>2
    <3>2. ASSUME g[q] = 0 PROVE \E i \in 1 .. N + 1 : d[i] = q
      <4>1. PICK j \in 1 .. N : c[j] = q  BY <1>1, <3>1, <3>2
      <4>2. j \in 1 .. N + 1 /\ j + 1 \in 1 .. N + 1 /\ (j < a + 1 \/ j >= a + 1)  BY <1>1
      <4> QED BY <1>5, <1>7, <4>1, <4>2
    <3>3. ASSUME NEW i \in 1 .. N + 1, d[i] = q PROVE g[q] = 0
      <4>1. \E j \in 1 .. N : c[j] = q  BY <1>5, <1>6, <1>7, <1>8, <2>2, <3>3
      <4> QED BY <1>1, <3>1, <4>1
    <3> QED BY <3>2, <3>3
  <2> QED BY <2>1, <2>2
<1>11. \A j \in 1 .. N : j # a => t2[c[j]] = t[c[j]] /\ u[c[j]] = s[c[j]]
  BY <1>0, <1>1, <1>2, <1>3, <1>9
<1>12. ASSUME NEW i \in 1 .. N + 1
       PROVE  t2[d[i]].next = IF i < N + 1 THEN d[i + 1] ELSE kNullNode
  <2>1. CASE i \in 1 .. N /\ i < a + 1 /\ i # a
    <3>1. d[i] = c[i] /\ t2[d[i]].next = t[c[i]].next  BY <1>5, <1>11, <2>1
    <3>2. i + 1 \in 1 .. N /\ i + 1 < a + 1 /\ i < N /\ i < N + 1  BY <1>1, <2>1
    <3>3. d[i + 1] = c[i + 1]  BY <1>5, <3>2
    <3> QED BY <1>1, <2>1, <3>1, <3>2, <3>3
  <2>2. CASE i = a
    <3>1. i \in 1 .. N /\ i < a + 1 /\ i < N + 1  BY <1>1, <2>2
    <3>2. d[i] = p  BY <1>2, <1>5, <2>2, <3>1
    <3> QED BY <1>0, <1>6, <2>2, <3>1, <3>2
  <2>3. CASE i = a + 1
    <3>1. t2[d[i]].next = t[c[a]].next  BY <1>0, <1>2, <1>6, <2>3
    <3>2. t[c[a]].next = IF a < N THEN c[a + 1] ELSE kNullNode  BY <1>1, <1>2
    <3>3. CASE a < N
      <4>1. a + 1 \in 1 .. N /\ a + 1 >= a + 1 /\ i < N + 1  BY <1>1, <2>3, <3>3
      <4>2. d[(a + 1) + 1] = c[a + 1]  BY <1>7, <4>1
      <4> QED BY <2>3, <3>1, <3>2, <3>3, <4>1, <4>2
    <3>4. CASE ~ (a < N)
      <4>1. ~ (i < N + 1)  BY <1>1, <2>3, <3>4
      <4> QED BY <3>1, <3>2, <3>4, <4>1
    <3> QED BY <3>3, <3>4
  <2>4. CASE i - 1 \in 1 .. N /\ i - 1 >= a + 1 /\ (i - 1) + 1 = i
    <3> DEFINE j == i - 1
    <3>1. j \in 1 .. N /\ j >= a + 1 /\ j + 1 = i /\ j # a  BY <1>1, <2>4
    <3> HIDE DEF j
    <3>2. d[i] = c[j] /\ t2[d[i]].next = t[c[j]].next  BY <1>7, <1>11, <3>1
    <3>3. t[c[j]].next = IF j < N THEN c[j + 1] ELSE kNullNode  BY <1>1, <3>1
    <3>4. CASE j < N
      <4>1. j + 1 \in 1 .. N /\ j + 1 >= a + 1 /\ i < N + 1  BY <1>1, <3>1, <3>4
      <4>2. d[(j + 1) + 1] = c[j + 1]  BY <1>7, <4>1
      <4> QED BY <3>1, <3>2, <3>3, <3>4, <4>1, <4>2
    <3>5. CASE ~ (j < N)
      <4>1. ~ (i < N + 1)  BY <1>1, <3>1, <3>5
      <4> QED BY <3>2, <3>3, <3>5, <4>1
    <3> QED BY <3>4, <3>5
  <2> QED BY <1>8, <2>1, <2>2, <2>3, <2>4
<1> DEFINE of(i) == IF i < a + 1 THEN i ELSE i - 1
<1>13. ASSUME NEW i \in 1 .. N + 1
       PROVE  /\ of(i) \in 1 .. N /\ u[d[i]] \subseteq s[c[of(i)]]
              /\ i = a => u[d[i]] = Below(s[p], key)
              /\ i = a + 1 => u[d[i]] = From(s[p], key)
  <2>1. CASE i \in 1 .. N /\ i < a + 1 /\ i # a
    <3>1. of(i) = i /\ i # a + 1  BY <1>1, <2>1
    <3> QED BY <1>5, <1>11, <2>1, <3>1
  <2>2. CASE i = a
    <3>1. i \in 1 .. N /\ i < a + 1 /\ of(i) = i /\ i # a + 1  BY <1>1, <2>2
    <3>2. d[i] = p  BY <1>2, <1>5, <2>2, <3>1
    <3> QED BY <1>2, <1>9, <2>2, <3>1, <3>2 DEF Below
  <2>3. CASE i = a + 1
    <3>1. of(i) = a /\ i # a  BY <1>1, <2>3
    <3> QED BY <1>2, <1>6, <1>9, <2>3, <3>1 DEF From
  <2>4. CASE i - 1 \in 1 .. N /\ i - 1 >= a + 1 /\ (i - 1) + 1 = i
    <3>1. of(i) = i - 1 /\ i # a /\ i # a + 1 /\ i - 1 # a  BY SMTT(30), <1>1, <2>4
    <3>2. d[i] = c[i - 1]  BY <1>7, <2>4
    <3> QED BY <1>11, <2>4, <3>1, <3>2
  <2> QED BY <1>8, <2>1, <2>2, <2>3, <2>4
<1>14. ASSUME NEW i \in 1 .. N + 1, NEW j \in 1 .. N + 1, i < j,
              NEW x \in u[d[i]], NEW y \in u[d[j]]
       PROVE  x < y
  <2>1. of(i) < of(j) \/ (i = a /\ j = a + 1)  BY <1>1, <1>14
  <2>2. of(i) \in 1 .. N /\ of(j) \in 1 .. N /\ x \in s[c[of(i)]] /\ y \in s[c[of(j)]]
    BY <1>13
  <2>3. CASE of(i) < of(j)
    <3> HIDE DEF of
    <3> QED BY <1>1, <2>2, <2>3
  <2>4. CASE i = a /\ j = a + 1
    <3>1. x \in Below(s[p], key) /\ y \in From(s[p], key)  BY <1>13, <2>4
    <3>2. s[p] \in SUBSET Int  OBVIOUS
    <3> QED BY <3>1, <3>2 DEF Below, From
  <2> QED BY <2>1, <2>3, <2>4
<1>15. ChainOK(t2, g, u, d)
  <2> HIDE DEF N
  <2>1. d \in Seq(DOMAIN t2) /\ Len(d) = N + 1  BY <1>4
  <2>2. \A q \in DOMAIN t2 : g[q] = 0 <=> \E i \in 1 .. Len(d) : d[i] = q  BY <1>10, <2>1
  <2>3. \A i \in 1 .. Len(d) : t2[d[i]].next = IF i < Len(d) THEN d[i + 1] ELSE kNullNode
    BY <1>12, <2>1
  <2>4. \A i, j \in 1 .. Len(d) : i < j => \A x \in u[d[i]], y \in u[d[j]] : x < y
    BY <1>14, <2>1
  <2> QED BY <2>1, <2>2, <2>3, <2>4 DEF ChainOK
<1> QED BY <1>15

(* What inserting below q leaves as it was, in the nodes and from outside. *)
Extends(t, h, s, q, t2, g, u) ==
    /\ DOMAIN t \subseteq DOMAIN t2
    /\ \A x \in DOMAIN t : g[x] = h[x]
    /\ \A x \in DOMAIN t2 \ DOMAIN t : g[x] <= h[q]
    /\ \A x \in DOMAIN t : h[x] >= h[q] /\ x # q => t2[x] = t[x] /\ u[x] = s[x]

(* The span of q is whole, or divided between it and the new node.         *)
Divided(t, h, s, q, t2, split, key, g, u) ==
    IF split = kNullNode THEN u[q] = s[q]
    ELSE /\ split \in DOMAIN t2 \ DOMAIN t /\ g[split] = h[q]
         /\ key \in Keys /\ key \in s[q]
         /\ u[q] = Below(s[q], key) /\ u[split] = From(s[q], key)

(* A leaf of t is parted into low and high.                                *)
LeafSplit(t, s, p, key, new, low, high, t2) ==
    /\ TreeSplit(t, p, low, new, high, t2)
    /\ LeafOK(low, Below(s[p], key)) /\ low.keys # <<>> /\ low.next = new
    /\ LeafOK(high, From(s[p], key)) /\ high.keys # <<>> /\ high.next = t[p].next
    /\ key \in Keys /\ key \in s[p] /\ \E x \in s[p] : x < key

LEMMA SplitLeaf ==
    ASSUME NEW t, NEW h, NEW s, NEW c, NEW H, Well(t, h, s, c, H),
           NEW p \in DOMAIN t, h[p] = 0, NEW key, NEW new, NEW low, NEW high, NEW t2,
           LeafSplit(t, s, p, key, new, low, high, t2)
    PROVE  /\ \E g, u, d : /\ Well(t2, g, u, d, 0) /\ Extends(t, h, s, p, t2, g, u)
                           /\ Divided(t, h, s, p, t2, new, key, g, u)
           /\ EntriesIn(t2) = (EntriesOf(low) \cup EntriesOf(high)) \cup Elsewhere(t, p)
<1>1. /\ TreeSplit(t, p, low, new, high, t2) /\ low.next = new /\ high.next = t[p].next
      /\ key \in Keys /\ key \in Int /\ key \in s[p]
  BY KeysInt DEF LeafSplit
<1>2. PICK x \in s[p] : x < key  BY DEF LeafSplit
<1>3. LeafOK(low, Below(s[p], key)) /\ low.keys # <<>>  BY DEF LeafSplit
<1>4. LeafOK(high, From(s[p], key)) /\ high.keys # <<>>  BY DEF LeafSplit
<1>5. /\ DOMAIN t2 = DOMAIN t \cup {new} /\ t2[new] = high /\ t2[p] = low
      /\ \A q \in DOMAIN t : q # p => t2[q] = t[q]
      /\ new \notin DOMAIN t /\ p # new /\ Numbered(t2)
  BY <1>1 DEF TreeSplit
<1>6. /\ h \in [DOMAIN t -> Nat] /\ s \in [DOMAIN t -> SUBSET Int] /\ Apart(h, s)
      /\ ChainOK(t, h, s, c)
  BY DEF Well
<1> DEFINE D == DOMAIN t
<1>7. \E g, u : SplitView(D, h, s, p, new, key, g, u)
  <2> DEFINE g == [q \in D \cup {new} |-> IF q = new THEN h[p] ELSE h[q]]
             u == [q \in D \cup {new} |->
                         IF q = new THEN From(s[p], key)
                         ELSE IF q = p THEN Below(s[p], key) ELSE s[q]]
  <2>1. h \in [D -> Nat] /\ s \in [D -> SUBSET Int] /\ p \in D /\ new \notin D
    BY <1>5, <1>6
  <2> HIDE DEF D
  <2>2. SplitView(D, h, s, p, new, key, g, u)  BY <1>1, <1>2, <1>6, <2>1, SpansApart
  <2> QED BY <2>2
<1>8. PICK g, u : SplitView(DOMAIN t, h, s, p, new, key, g, u)  BY <1>7
<1>9. /\ g \in [DOMAIN t2 -> Nat] /\ u \in [DOMAIN t2 -> SUBSET Int] /\ Apart(g, u)
      /\ \A q \in DOMAIN t : g[q] = h[q] /\ (q # p => u[q] = s[q])
      /\ g[new] = 0 /\ u[new] = From(s[p], key) /\ u[p] = Below(s[p], key)
  BY <1>5, <1>8 DEF SplitView
<1>10. PICK d : ChainOK(t2, g, u, d)
  BY <1>1, <1>6, <1>8, ChainSplit
<1>12. ASSUME NEW q \in DOMAIN t2, g[q] = 0
       PROVE  LeafOK(t2[q], u[q]) /\ (t2[q].keys # <<>> \/ DOMAIN t2 = {q})
  <2>1. CASE q = new  BY <1>4, <1>5, <1>9, <2>1
  <2>2. CASE q = p  BY <1>3, <1>5, <1>9, <2>2
  <2>3. CASE q # new /\ q # p
    <3>1. q \in DOMAIN t /\ h[q] = 0 /\ t2[q] = t[q] /\ u[q] = s[q]  BY <1>5, <1>9, <1>12, <2>3
    <3>2. LeafOK(t[q], s[q]) /\ (t[q].keys # <<>> \/ DOMAIN t = {q})  BY <3>1 DEF Well
    <3>3. DOMAIN t # {q}  BY <2>3
    <3> QED BY <3>1, <3>2, <3>3
  <2> QED BY <2>1, <2>2, <2>3
<1>13. ASSUME NEW q \in DOMAIN t2, g[q] > 0 PROVE t2[q].type = "inner"
  <2>1. q # new /\ q # p /\ q \in DOMAIN t /\ h[q] > 0 /\ t2[q] = t[q]
    BY <1>5, <1>9, <1>13
  <2> QED BY <2>1 DEF Well
<1>14. \A q \in DOMAIN t2 : ~ (g[q] > 0 /\ g[q] <= 0)  BY <1>5, <1>9
<1>15. Well(t2, g, u, d, 0)
  BY <1>5, <1>9, <1>10, <1>12, <1>13, <1>14 DEF Well
<1>16. Extends(t, h, s, p, t2, g, u)
  <2>1. \A q \in DOMAIN t2 \ DOMAIN t : g[q] <= h[p]  BY <1>5, <1>9
  <2> QED BY <1>5, <1>9, <2>1 DEF Extends
<1>17. Divided(t, h, s, p, t2, new, key, g, u)
  <2>1. new # kNullNode /\ g[new] = h[p]  BY <1>1, <1>9 DEF TreeSplit
  <2> QED BY <1>1, <1>5, <1>9, <2>1 DEF Divided
<1>18. EntriesIn(t2) = (EntriesOf(low) \cup EntriesOf(high)) \cup Elsewhere(t, p)
  <2>1. LeavesIn(t2) = LeavesIn(t) \cup {new} /\ p \in LeavesIn(t) /\ new \notin LeavesIn(t)
    <3>1. LeavesIn(t2) = {q \in DOMAIN t2 : g[q] = 0}  BY <1>15, LeafIff
    <3>2. LeavesIn(t) = {q \in DOMAIN t : h[q] = 0}  BY LeafIff
    <3> QED BY <1>5, <1>9, <3>1, <3>2
  <2>2. EntriesIn(t2) = EntriesOf(t2[p]) \cup Elsewhere(t2, p)  BY <2>1, EntriesSplit
  <2>3. Elsewhere(t2, p) = EntriesOf(high) \cup Elsewhere(t, p)
    <3>1. \A q \in LeavesIn(t) \ {p} : t2[q] = t[q]  BY <1>5 DEF LeavesIn
    <3>2. p # new  BY <1>5
    <3> QED BY <1>5, <2>1, <3>1, <3>2 DEF Elsewhere
  <2> QED BY <1>5, <2>2, <2>3
<1> QED BY <1>15, <1>16, <1>17, <1>18

LEMMA NoKeyOutside ==
    ASSUME NEW S, NEW n, LeafShape(n, S), NEW k, k \notin S
    PROVE  WithKey(EntriesOf(n), k) = {}
<1> SUFFICES ASSUME NEW e \in WithKey(EntriesOf(n), k) PROVE FALSE  OBVIOUS
<1>1. e \in EntriesOf(n) /\ e[1] = k /\ e = <<e[1], e[2]>>  BY EntriesOfIs DEF WithKey
<1>2. <<k, e[2]>> \in EntriesOf(n)  BY <1>1
<1>3. PICK i \in DOMAIN n.keys : n.keys[i] = k  BY <1>2, EntriesOfIs
<1>4. n.keys[i] \in S  BY LeafFacts
<1> QED BY <1>3, <1>4

(* What part B of the entries answers, they answer when the key is in no   *)
(* other.                                                                  *)
LEMMA PartAnswers ==
    ASSUME NEW A, NEW B, NEW C, NEW B2, NEW k, NEW e, NEW ret,
           Grew(B, B2, e, ret), Answered(WithKey(B, k), e, ret),
           WithKey(A, k) = {}, WithKey(C, k) = {},
           NEW E, E = (A \cup B) \cup C, NEW F, F = (A \cup B2) \cup C
    PROVE  Grew(E, F, e, ret) /\ Answered(WithKey(E, k), e, ret)
<1>1. WithKey(E, k) = WithKey(B, k)  BY DEF WithKey
<1>2. Grew(E, F, e, ret)  BY DEF Grew
<1> QED BY <1>1, <1>2

(* What inserting <<k, r>> below q makes of t.                             *)
Grown(t, h, s, q, k, r, o, g, u, d) ==
    /\ Well(o.tree, g, u, d, h[q]) /\ Extends(t, h, s, q, o.tree, g, u)
    /\ Divided(t, h, s, q, o.tree, o.split, o.key, g, u)
    /\ Grew(EntriesIn(t), EntriesIn(o.tree), <<k, r>>, o.ret)
    /\ Answered(WithKey(EntriesIn(t), k), <<k, r>>, o.ret)

LEMMA OutcomeFields ==
    ASSUME NEW t, NEW split, NEW key, NEW ret
    PROVE  /\ Outcome(t, split, key, ret).tree = t /\ Outcome(t, split, key, ret).split = split
           /\ Outcome(t, split, key, ret).key = key /\ Outcome(t, split, key, ret).ret = ret
  BY DEF Outcome

LEMMA WellZero ==
    ASSUME NEW t, NEW h, NEW s, NEW c, NEW H, Well(t, h, s, c, H)
    PROVE  Well(t, h, s, c, 0)
<1>1. h \in [DOMAIN t -> Nat]  BY DEF Well
<1>2. \A p \in DOMAIN t : ~ (h[p] > 0 /\ h[p] <= 0)  BY <1>1
<1> QED BY <1>2 DEF Well

LEMMA LongLeaf ==
    ASSUME NEW S, NEW n, LeafShape(n, S), Len(n.keys) >= 1
    PROVE  n.keys # <<>>
<1> DEFINE keys == n.keys
<1>1. Len(keys) >= 1  OBVIOUS
<1> HIDE DEF keys
<1>2. keys # <<>>  BY <1>1
<1> QED BY <1>2 DEF keys

(* There is room in the leaf.                                              *)
LEMMA InsertLeafRoom ==
    ASSUME NEW t, NEW h, NEW s, NEW c, NEW H, Well(t, h, s, c, H),
           NEW p \in DOMAIN t, h[p] = 0, NEW k \in Keys, k \in s[p], NEW r \in Rids,
           Len(t[p].keys) # b - 1
    PROVE  \E g, u, d : Grown(t, h, s, p, k, r, insert_leaf(t, p, k, r), g, u, d)
<1> DEFINE n == t[p]
           kept == insert_entry(n, k, r)
           m == kept.node
           t2 == [t EXCEPT ![p] = m]
           o == insert_leaf(t, p, k, r)
           N == Len(n.keys)
           e == <<k, r>>
<1>1. LeafShape(n, s[p]) /\ N <= b - 1  BY DEF Well, LeafOK
<1>2. o = Outcome(t2, kNullNode, 0, kept.ret)  BY DEF insert_leaf
<1>3. o.tree = t2 /\ o.split = kNullNode /\ o.ret = kept.ret
  <2> HIDE DEF o, t2, kept
  <2> QED BY <1>2, OutcomeFields
<1> HIDE DEF o
<1>4. /\ LeafShape(m, s[p]) /\ m.next = n.next /\ Len(m.keys) \in 1 .. N + 1
      /\ Grew(EntriesOf(n), EntriesOf(m), e, kept.ret)
      /\ Answered(WithKey(EntriesOf(n), k), e, kept.ret)
  <2> HIDE DEF n
  <2> QED BY <1>1, InsertEntryIs
<1> HIDE DEF kept, m, e
<1>5. LeafOK(m, s[p]) /\ m.keys # <<>>
  <2>1. N \in Nat /\ b \in Nat /\ N # b - 1  BY <1>1, LeafFacts, IndexTreeAssumption
  <2> HIDE DEF N, n
  <2>2. Len(m.keys) <= b - 1 /\ Len(m.keys) >= 1  BY <1>1, <1>4, <2>1
  <2> QED BY <1>4, <2>2, LongLeaf DEF LeafOK
<1>6. /\ Well(t2, h, s, c, H) /\ DOMAIN t2 = DOMAIN t
      /\ \A q \in DOMAIN t : q # p => t2[q] = t[q]
      /\ EntriesIn(t2) = EntriesOf(m) \cup Elsewhere(t, p)
  <2>1. m.next = t[p].next  BY <1>4
  <2>2. DOMAIN t2 = DOMAIN t /\ t2[p] = m /\ \A q \in DOMAIN t : q # p => t2[q] = t[q]
    BY DEF Well, Numbered
  <2> HIDE DEF t2, n
  <2>3. LeafReplaced(t, s, p, m, t2)  BY <1>5, <2>1, <2>2 DEF LeafReplaced
  <2> QED BY <2>2, <2>3, ReplaceLeaf
<1> HIDE DEF t2
<1>7. EntriesIn(t) = EntriesOf(n) \cup Elsewhere(t, p)
  <2>1. p \in LeavesIn(t)  BY LeafIff
  <2> QED BY <2>1, EntriesSplit
<1>8. WithKey(Elsewhere(t, p), k) = {} /\ WithKey({}, k) = {}  BY KeyElsewhere DEF WithKey
<1>9. /\ Grew(EntriesIn(t), EntriesIn(t2), e, kept.ret)
      /\ Answered(WithKey(EntriesIn(t), k), e, kept.ret)
  <2>1. /\ EntriesIn(t) = ({} \cup EntriesOf(n)) \cup Elsewhere(t, p)
        /\ EntriesIn(t2) = ({} \cup EntriesOf(m)) \cup Elsewhere(t, p)
    BY <1>6, <1>7
  <2> HIDE DEF n
  <2> QED BY <1>4, <1>8, <2>1, PartAnswers
<1>10. Well(t2, h, s, c, h[p])  BY <1>6, WellZero
<1>11. Extends(t, h, s, p, t2, h, s)  BY <1>6 DEF Extends
<1>12. Divided(t, h, s, p, t2, kNullNode, o.key, h, s)  BY DEF Divided
<1>13. Grown(t, h, s, p, k, r, o, h, s, c)
  BY <1>3, <1>9, <1>10, <1>11, <1>12 DEF Grown, e
<1> QED BY <1>13 DEF o

(* An outcome that splits the leaf in two.                                 *)
LEMMA SplitLeafGrown ==
    ASSUME NEW t, NEW h, NEW s, NEW c, NEW H, Well(t, h, s, c, H),
           NEW p \in DOMAIN t, h[p] = 0, NEW k \in Keys, NEW r \in Rids,
           NEW key, NEW new, NEW low, NEW high, NEW t2,
           LeafSplit(t, s, p, key, new, low, high, t2), NEW ret,
           Grew(EntriesIn(t), (EntriesOf(low) \cup EntriesOf(high)) \cup Elsewhere(t, p),
                <<k, r>>, ret),
           Answered(WithKey(EntriesIn(t), k), <<k, r>>, ret)
    PROVE  \E g, u, d : Grown(t, h, s, p, k, r, Outcome(t2, new, key, ret), g, u, d)
<1> DEFINE o == Outcome(t2, new, key, ret)
           e == <<k, r>>
<1>1. PICK g, u, d : /\ Well(t2, g, u, d, 0) /\ Extends(t, h, s, p, t2, g, u)
                     /\ Divided(t, h, s, p, t2, new, key, g, u)
  BY SplitLeaf
<1>2. EntriesIn(t2) = (EntriesOf(low) \cup EntriesOf(high)) \cup Elsewhere(t, p)  BY SplitLeaf
<1>3. o.tree = t2 /\ o.split = new /\ o.key = key /\ o.ret = ret  BY OutcomeFields
<1> HIDE DEF o
<1>4. Grown(t, h, s, p, k, r, o, g, u, d)  BY <1>1, <1>2, <1>3 DEF Grown
<1> QED BY <1>4 DEF o

LEMMA InsertLeafFull ==
    ASSUME NEW t, NEW h, NEW s, NEW c, NEW H, Well(t, h, s, c, H),
           NEW p \in DOMAIN t, h[p] = 0, NEW k \in Keys, k \in s[p], NEW r \in Rids,
           Len(t[p].keys) = b - 1
    PROVE  \E g, u, d : Grown(t, h, s, p, k, r, insert_leaf(t, p, k, r), g, u, d)
<1> DEFINE n == t[p]
           N == Len(n.keys)
           half == N \div 2
           m == IF half < N - half /\ n.keys[half + 1] <= k THEN half + 1 ELSE half
           new == NextPage(t)
           low == Halves(n, m, new).low
           high == Halves(n, m, new).high
           key == n.keys[m + 1]
           hi == BelongsHigh(high, k)
           into == insert_entry(IF hi THEN high ELSE low, k, r)
           o == insert_leaf(t, p, k, r)
           S == s[p]
           e == <<k, r>>
           rest == Elsewhere(t, p)
<1>1. LeafShape(n, S) /\ N = b - 1 /\ b \in Nat /\ b >= 4 /\ N \in Nat
      /\ S \in SUBSET Int /\ k \in Int /\ k \in S
  <2>1. LeafShape(n, S)  BY DEF Well, LeafOK
  <2>2. S \in SUBSET Int  BY DEF Well
  <2>3. b \in Nat /\ b >= 4 /\ k \in Int  BY IndexTreeAssumption, KeysInt
  <2>4. N \in Nat  BY <2>1, LeafFacts
  <2> QED BY <2>1, <2>2, <2>3, <2>4
<1>2. m \in 1 .. N - 1
  <2>1. half \in 1 .. N - 1 /\ (half < N - half => half + 1 \in 1 .. N - 1)
    <3> HIDE DEF n, N
    <3> QED BY <1>1
  <2> HIDE DEF half, N
  <2> QED BY <2>1
<1>3. o = IF hi
          THEN Outcome(WithNode([t EXCEPT ![p] = low], new, into.node),
                       new, into.node.keys[1], into.ret)
          ELSE Outcome(WithNode([t EXCEPT ![p] = into.node], new, high),
                       new, high.keys[1], into.ret)
  BY DEF insert_leaf
<1> HIDE DEF m
<1>4. /\ LeafShape(low, Below(S, key)) /\ LeafShape(high, From(S, key))
      /\ Len(low.keys) = m /\ Len(high.keys) = N - m
      /\ low.next = new /\ high.next = n.next
      /\ high.keys[1] = key /\ key \in Keys /\ key \in S
      /\ EntriesOf(n) = EntriesOf(low) \cup EntriesOf(high)
      /\ n.keys[1] \in S /\ n.keys[1] < key
  <2> HIDE DEF n, new, S
  <2>1. IsHalved(S, n, m, new, key, low, high)  BY <1>1, <1>2, HalvesAre
  <2> HIDE DEF low, high, key
  <2> QED BY <2>1 DEF IsHalved
<1> HIDE DEF low, high
<1>5. key \in Int /\ m \in Nat /\ N - m >= 1 /\ m >= 1 /\ m + 1 <= b - 1 /\ (N - m) + 1 <= b - 1
  <2>1. key \in Int  BY <1>4, KeysInt
  <2> HIDE DEF key, N
  <2> QED BY <1>1, <1>2, <2>1
<1>6. EntriesIn(t) = (EntriesOf(low) \cup EntriesOf(high)) \cup rest
  <2>1. p \in LeavesIn(t)  BY LeafIff
  <2> QED BY <1>4, <2>1, EntriesSplit
<1>7. WithKey(rest, k) = {}  BY KeyElsewhere
<1>8. \E x \in S : x < key  BY <1>4
<1>9. low.keys # <<>> /\ high.keys # <<>>
  <2> HIDE DEF n, N, key
  <2> QED BY <1>4, <1>5, LongLeaf
<1>10. Numbered(t)  BY DEF Well
<1>11. high.next = t[p].next  BY <1>4
<1> HIDE DEF n, N, key, new, rest
<1>12. LeafOK(low, Below(S, key)) /\ LeafOK(high, From(S, key))
  BY <1>1, <1>4, <1>5 DEF LeafOK
<1>13. CASE hi
  <2> DEFINE x == insert_entry(high, k, r)
             y == x.node
             t2 == WithNode([t EXCEPT ![p] = low], new, y)
  <2>1. k >= key  BY <1>4, <1>13 DEF BelongsHigh
  <2>2. k \in From(S, key) /\ k \notin Below(S, key)  BY <1>1, <1>5, <2>1 DEF From, Below
  <2>3. o = Outcome(t2, new, y.keys[1], x.ret)  BY <1>3, <1>13
  <2>4. /\ LeafShape(y, From(S, key)) /\ y.next = high.next
        /\ Len(y.keys) \in 1 .. Len(high.keys) + 1
        /\ Len(high.keys) >= 1 /\ high.keys[1] <= k => y.keys[1] = high.keys[1]
        /\ Grew(EntriesOf(high), EntriesOf(y), e, x.ret)
        /\ Answered(WithKey(EntriesOf(high), k), e, x.ret)
    BY <1>4, <2>2, InsertEntryIs
  <2>5. y.keys[1] = key  BY <1>4, <1>5, <2>1, <2>4
  <2>6. TreeSplit(t, p, low, new, y, t2)  BY <1>10, TreeSplitIs DEF new
  <2> HIDE DEF x, y, t2, hi, o
  <2>7. LeafOK(y, From(S, key)) /\ y.keys # <<>>
    <3>1. Len(y.keys) <= b - 1 /\ Len(y.keys) >= 1  BY <1>4, <1>5, <2>4, IndexTreeAssumption
    <3> QED BY <2>4, <3>1, LongLeaf DEF LeafOK
  <2>8. LeafSplit(t, s, p, key, new, low, y, t2)
    <3>1. y.next = t[p].next  BY <1>11, <2>4
    <3> QED BY <1>4, <1>8, <1>9, <1>12, <2>6, <2>7, <3>1 DEF LeafSplit
  <2>9. WithKey(EntriesOf(low), k) = {}  BY <1>4, <2>2, NoKeyOutside
  <2> DEFINE F == (EntriesOf(low) \cup EntriesOf(y)) \cup rest
  <2>10. Grew(EntriesIn(t), F, e, x.ret) /\ Answered(WithKey(EntriesIn(t), k), e, x.ret)
    <3>1. F = (EntriesOf(low) \cup EntriesOf(y)) \cup rest  OBVIOUS
    <3> HIDE DEF F
    <3> QED BY <1>6, <1>7, <2>4, <2>9, <3>1, PartAnswers
  <2>11. \E g, u, d : Grown(t, h, s, p, k, r, Outcome(t2, new, key, x.ret), g, u, d)
    BY <2>8, <2>10, SplitLeafGrown DEF rest
  <2> QED BY <2>3, <2>5, <2>11 DEF o
<1>14. CASE ~ hi
  <2> DEFINE x == insert_entry(low, k, r)
             y == x.node
             t2 == WithNode([t EXCEPT ![p] = y], new, high)
  <2>1. k < key  BY <1>1, <1>4, <1>5, <1>14 DEF BelongsHigh
  <2>2. k \notin From(S, key) /\ k \in Below(S, key)  BY <1>1, <1>5, <2>1 DEF From, Below
  <2>3. o = Outcome(t2, new, high.keys[1], x.ret)  BY <1>3, <1>14
  <2>4. /\ LeafShape(y, Below(S, key)) /\ y.next = low.next
        /\ Len(y.keys) \in 1 .. Len(low.keys) + 1
        /\ Grew(EntriesOf(low), EntriesOf(y), e, x.ret)
        /\ Answered(WithKey(EntriesOf(low), k), e, x.ret)
    BY <1>4, <2>2, InsertEntryIs
  <2>6. TreeSplit(t, p, y, new, high, t2)  BY <1>10, TreeSplitIs DEF new
  <2> HIDE DEF x, y, t2, hi, o
  <2>7. LeafOK(y, Below(S, key)) /\ y.keys # <<>>
    <3>1. Len(y.keys) <= b - 1 /\ Len(y.keys) >= 1  BY <1>4, <1>5, <2>4, IndexTreeAssumption
    <3> QED BY <2>4, <3>1, LongLeaf DEF LeafOK
  <2>8. LeafSplit(t, s, p, key, new, y, high, t2)
    <3>1. y.next = new  BY <1>4, <2>4
    <3> QED BY <1>4, <1>8, <1>9, <1>11, <1>12, <2>6, <2>7, <3>1 DEF LeafSplit
  <2>9. WithKey(EntriesOf(high), k) = {}  BY <1>4, <2>2, NoKeyOutside
  <2> DEFINE F == (EntriesOf(y) \cup EntriesOf(high)) \cup rest
  <2>10. Grew(EntriesIn(t), F, e, x.ret) /\ Answered(WithKey(EntriesIn(t), k), e, x.ret)
    <3>1. EntriesIn(t) = (EntriesOf(high) \cup EntriesOf(low)) \cup rest  BY <1>6
    <3>2. F = (EntriesOf(high) \cup EntriesOf(y)) \cup rest  OBVIOUS
    <3> DEFINE X == EntriesOf(low)
               Y == EntriesOf(y)
               Z == EntriesOf(high)
               E == EntriesIn(t)
               ret == x.ret
    <3>3. /\ Grew(X, Y, e, ret) /\ Answered(WithKey(X, k), e, ret)
          /\ WithKey(rest, k) = {} /\ WithKey(Z, k) = {}
          /\ E = (Z \cup X) \cup rest /\ F = (Z \cup Y) \cup rest
      BY <1>7, <2>4, <2>9, <3>1, <3>2
    <3> HIDE DEF F, X, Y, Z, E, ret, e
    <3>4. Grew(E, F, e, ret) /\ Answered(WithKey(E, k), e, ret)  BY <3>3, PartAnswers
    <3> QED BY <3>4 DEF E, ret
  <2>11. \E g, u, d : Grown(t, h, s, p, k, r, Outcome(t2, new, key, x.ret), g, u, d)
    BY <2>8, <2>10, SplitLeafGrown DEF rest
  <2> QED BY <1>4, <2>3, <2>11 DEF o
<1> QED BY <1>13, <1>14

----------------------------------------------------------------------------
(* The children of an inner node part its span.                            *)
LEMMA SliceIs ==
    ASSUME NEW S, NEW keys, NEW j, NEW x
    PROVE  x \in Slice(S, keys, j) <=>
             x \in S /\ (j > 1 => keys[j - 1] <= x) /\ (j <= Len(keys) => x < keys[j])
  BY DEF Slice

LEMMA PartsFacts ==
    ASSUME NEW keys, NEW kids, NEW S, NEW s, Parts(keys, kids, S, s)
    PROVE  /\ keys \in Seq(Keys) /\ keys \in Seq(Int) /\ Sorted(keys) /\ Len(keys) \in Nat
           /\ DOMAIN keys = 1 .. Len(keys)
           /\ \A i \in 1 .. Len(keys) : keys[i] \in S /\ keys[i] \in Keys /\ keys[i] \in Int
           /\ \A i, j \in 1 .. Len(keys) : i < j => keys[i] < keys[j]
           /\ kids \in Seq(DOMAIN s) /\ Len(kids) = Len(keys) + 1
           /\ DOMAIN kids = 1 .. Len(keys) + 1
           /\ \A j \in 1 .. Len(keys) + 1 : kids[j] \in DOMAIN s /\ s[kids[j]] = Slice(S, keys, j)
<1>1. /\ keys \in Seq(Keys) /\ Sorted(keys) /\ \A i \in 1 .. Len(keys) : keys[i] \in S
      /\ kids \in Seq(DOMAIN s) /\ Len(kids) = Len(keys) + 1
      /\ \A j \in 1 .. Len(kids) : s[kids[j]] = Slice(S, keys, j)
  BY DEF Parts
<1>2. keys \in Seq(Int)  BY <1>1, KeysInt
<1>3. /\ Len(keys) \in Nat /\ DOMAIN keys = 1 .. Len(keys)
      /\ \A i \in 1 .. Len(keys) : keys[i] \in Keys
  BY <1>1
<1>4. \A i \in 1 .. Len(keys) : keys[i] \in Int  BY <1>2
<1>5. \A i, j \in 1 .. Len(keys) : i < j => keys[i] < keys[j]  BY <1>1, <1>3 DEF Sorted
<1>6. DOMAIN kids = 1 .. Len(keys) + 1 /\ \A j \in 1 .. Len(keys) + 1 : kids[j] \in DOMAIN s
  BY <1>1
<1> QED BY <1>1, <1>2, <1>3, <1>4, <1>5, <1>6

LEMMA PartsKept ==
    ASSUME NEW keys, NEW kids, NEW S, NEW s, Parts(keys, kids, S, s), NEW u,
           DOMAIN s \subseteq DOMAIN u, \A j \in 1 .. Len(kids) : u[kids[j]] = s[kids[j]]
    PROVE  Parts(keys, kids, S, u)
<1>1. kids \in Seq(DOMAIN u)  BY SeqSub DEF Parts
<1> QED BY <1>1 DEF Parts

(* Child i of an inner node is divided, and the upper part of it goes      *)
(* behind it.                                                              *)
ChildSplit(kids, i, key, new, s, u) ==
    /\ DOMAIN s \subseteq DOMAIN u /\ new \in DOMAIN u
    /\ key \in Keys /\ key \in s[kids[i]] /\ \E x \in s[kids[i]] : x < key
    /\ u[kids[i]] = Below(s[kids[i]], key) /\ u[new] = From(s[kids[i]], key)
    /\ \A j \in 1 .. Len(kids) : j # i => u[kids[j]] = s[kids[j]]

LEMMA InsertParted ==
    ASSUME NEW keys, NEW kids, NEW S \in SUBSET Int, NEW s, Parts(keys, kids, S, s),
           NEW i \in 1 .. Len(kids), NEW key, NEW new, NEW u, ChildSplit(kids, i, key, new, s, u)
    PROVE  Parts(InsertAt(keys, i, key), InsertAt(kids, i + 1, new), S, u)
<1> DEFINE n == Len(keys)
           K == InsertAt(keys, i, key)
           C == InsertAt(kids, i + 1, new)
<1>1. /\ keys \in Seq(Keys) /\ keys \in Seq(Int) /\ Sorted(keys) /\ n \in Nat
      /\ \A j \in 1 .. n : keys[j] \in S /\ keys[j] \in Int
      /\ \A j, l \in 1 .. n : j < l => keys[j] < keys[l]
      /\ kids \in Seq(DOMAIN s) /\ Len(kids) = n + 1
      /\ \A j \in 1 .. n + 1 : s[kids[j]] = Slice(S, keys, j)
  BY PartsFacts
<1>2. /\ DOMAIN s \subseteq DOMAIN u /\ new \in DOMAIN u
      /\ key \in Keys /\ key \in s[kids[i]] /\ \E x \in s[kids[i]] : x < key
      /\ u[kids[i]] = Below(s[kids[i]], key) /\ u[new] = From(s[kids[i]], key)
      /\ \A j \in 1 .. n + 1 : j # i => u[kids[j]] = s[kids[j]]
  BY <1>1 DEF ChildSplit
<1>3. i \in 1 .. n + 1 /\ i \in Nat /\ key \in Int  BY <1>1, <1>2, KeysInt
<1>4. /\ key \in S /\ (i > 1 => keys[i - 1] <= key) /\ (i <= n => key < keys[i])
  BY <1>1, <1>2, <1>3, SliceIs
<1>5. i > 1 => keys[i - 1] < key
  <2> SUFFICES ASSUME i > 1 PROVE keys[i - 1] < key  OBVIOUS
  <2>1. PICK x \in Slice(S, keys, i) : x < key  BY <1>1, <1>2, <1>3
  <2>2. x \in Int /\ keys[i - 1] <= x  BY <2>1, SliceIs
  <2>3. keys[i - 1] \in Int  BY <1>1, <1>3
  <2> QED BY <1>3, <2>1, <2>2, <2>3
<1>6. \A j \in 1 .. n : (j < i => keys[j] < key) /\ (j >= i => keys[j] > key)
  <2> TAKE j \in 1 .. n
  <2>1. ASSUME j < i PROVE keys[j] < key
    <3>1. i - 1 \in 1 .. n /\ i > 1 /\ (j = i - 1 \/ j < i - 1)  BY <1>1, <1>3, <2>1
    <3>2. keys[i - 1] < key /\ keys[i - 1] \in Int /\ keys[j] \in Int  BY <1>1, <1>5, <3>1
    <3>3. j < i - 1 => keys[j] < keys[i - 1]  BY <1>1, <3>1
    <3> QED BY <1>3, <3>1, <3>2, <3>3
  <2>2. ASSUME j >= i PROVE keys[j] > key
    <3>1. i \in 1 .. n /\ i <= n /\ (j = i \/ i < j)  BY <1>1, <1>3, <2>2
    <3>2. key < keys[i] /\ keys[i] \in Int /\ keys[j] \in Int  BY <1>1, <1>4, <3>1
    <3>3. i < j => keys[i] < keys[j]  BY <1>1, <3>1
    <3> QED BY <1>3, <3>1, <3>2, <3>3
  <2> QED BY <2>1, <2>2
<1>7. /\ K \in Seq(Keys) /\ Len(K) = n + 1
      /\ \A j \in 1 .. n : j < i => K[j] = keys[j]
      /\ K[i] = key
      /\ \A j \in 1 .. n : j >= i => K[j + 1] = keys[j]
  <2>1. Len(keys) = n /\ K = InsertAt(keys, i, key)  OBVIOUS
  <2> HIDE DEF n, K
  <2>2. IsInserted(Keys, keys, n, i, key, InsertAt(keys, i, key))
    BY <1>1, <1>2, <1>3, <2>1, InsertIs
  <2> QED BY <2>1, <2>2 DEF IsInserted
<1>8. Sorted(K)
  <2>1. K = InsertAt(keys, i, key) /\ n = Len(keys)  OBVIOUS
  <2> HIDE DEF K, n
  <2>2. i \in 1 .. Len(keys) + 1  BY <1>3, <2>1
  <2>3. \A j \in 1 .. Len(keys) : (j < i => keys[j] < key) /\ (j >= i => keys[j] > key)
    BY <1>6, <2>1
  <2> QED BY <1>1, <1>3, <2>1, <2>2, <2>3, InsertSorted
<1>9. /\ C \in Seq(DOMAIN u) /\ Len(C) = n + 2
      /\ \A j \in 1 .. n + 1 : j < i + 1 => C[j] = kids[j]
      /\ C[i + 1] = new
      /\ \A j \in 1 .. n + 1 : j >= i + 1 => C[j + 1] = kids[j]
  <2> DEFINE X == DOMAIN u
             N == n + 1
             l == i + 1
  <2>1. kids \in Seq(X) /\ new \in X  BY <1>1, <1>2, SeqSub
  <2>2. l \in 1 .. N + 1 /\ Len(kids) = N /\ C = InsertAt(kids, l, new) /\ N + 1 = n + 2
    BY <1>1, <1>3
  <2> HIDE DEF X, N, l, C
  <2>3. IsInserted(X, kids, N, l, new, InsertAt(kids, l, new))  BY <2>1, <2>2, InsertIs
  <2>4. IsInserted(X, kids, N, l, new, C)  BY <2>2, <2>3
  <2>5. /\ C \in Seq(X) /\ Len(C) = N + 1
        /\ \A j \in 1 .. N : j < l => C[j] = kids[j]
        /\ C[l] = new
        /\ \A j \in 1 .. N : j >= l => C[j + 1] = kids[j]
    BY <2>4 DEF IsInserted
  <2> QED BY <2>2, <2>5 DEF X, N, l
<1>10. S \in SUBSET Int  OBVIOUS
<1> HIDE DEF K, C, n
<1>11. \A j \in 1 .. n + 1 : K[j] \in S
  <2> TAKE j \in 1 .. n + 1
  <2>1. CASE j \in 1 .. n /\ j < i  BY <1>1, <1>7, <2>1
  <2>2. CASE j = i  BY <1>4, <1>7, <2>2
  <2>3. CASE j - 1 \in 1 .. n /\ j - 1 >= i /\ (j - 1) + 1 = j
    <3>1. K[(j - 1) + 1] = keys[j - 1]  BY <1>7, <2>3
    <3> QED BY <1>1, <2>3, <3>1
  <2> QED BY <1>1, <1>3, <2>1, <2>2, <2>3, InsertPlaces
<1>12. Len(keys) = n  BY DEF n
<1>13. \A x, j : x \in Slice(S, keys, j) <=>
              x \in S /\ (j > 1 => keys[j - 1] <= x) /\ (j <= n => x < keys[j])
  BY <1>12, SliceIs
<1>14. \A x, j : x \in Slice(S, K, j) <=>
              x \in S /\ (j > 1 => K[j - 1] <= x) /\ (j <= n + 1 => x < K[j])
  BY <1>7, SliceIs
<1>15. ASSUME NEW j \in 1 .. n + 2 PROVE u[C[j]] = Slice(S, K, j)
  <2>1. CASE j < i
    <3>1. j \in 1 .. n + 1 /\ j < i + 1 /\ j \in 1 .. n /\ j # i /\ j <= n /\ j <= n + 1
          /\ (j > 1 => j - 1 \in 1 .. n /\ j - 1 < i)
      BY <1>1, <1>3, <2>1
    <3>2. u[C[j]] = Slice(S, keys, j)  BY <1>1, <1>2, <1>9, <3>1
    <3>3. K[j] = keys[j] /\ (j > 1 => K[j - 1] = keys[j - 1])  BY <1>7, <2>1, <3>1
    <3>4. \A x : x \in Slice(S, K, j) <=> x \in Slice(S, keys, j)
      BY <1>13, <1>14, <3>1, <3>3
    <3> QED BY <3>2, <3>4
  <2>2. CASE j = i
    <3>1. i \in 1 .. n + 1 /\ i < i + 1 /\ i <= n + 1
          /\ (i > 1 => i - 1 \in 1 .. n /\ i - 1 < i) /\ (i <= n => i \in 1 .. n)
      BY <1>1, <1>3
    <3>2. u[C[i]] = Below(Slice(S, keys, i), key)  BY <1>1, <1>2, <1>9, <3>1
    <3>3. K[i] = key /\ (i > 1 => K[i - 1] = keys[i - 1])  BY <1>7, <3>1
    <3>4. \A x \in S : x < key => (i <= n => x < keys[i])
      <4> TAKE x \in S
      <4> HAVE x < key
      <4> HAVE i <= n
      <4>1. x \in Int /\ keys[i] \in Int /\ key < keys[i]  BY <1>1, <1>4, <1>10, <3>1
      <4> QED BY <1>3, <4>1
    <3>5. \A x : x \in Slice(S, K, i) <=> x \in Below(Slice(S, keys, i), key)
      BY <1>13, <1>14, <3>1, <3>3, <3>4 DEF Below
    <3>6. Slice(S, K, i) = Below(Slice(S, keys, i), key)  BY <3>5
    <3> QED BY <2>2, <3>2, <3>6
  <2>3. CASE j = i + 1
    <3>1. (i + 1) - 1 = i /\ i + 1 > 1 /\ i \in 1 .. n + 1
          /\ (i + 1 <= n + 1 <=> i <= n) /\ (i <= n => i \in 1 .. n /\ i >= i)
          /\ (i > 1 => i - 1 \in 1 .. n)
      BY <1>1, <1>3
    <3>2. u[C[i + 1]] = From(Slice(S, keys, i), key)  BY <1>1, <1>2, <1>9, <3>1
    <3>3. K[i] = key /\ (i <= n => K[i + 1] = keys[i])  BY <1>7, <3>1
    <3>4. \A x \in S : x >= key => (i > 1 => keys[i - 1] <= x)
      <4> TAKE x \in S
      <4> HAVE x >= key
      <4> HAVE i > 1
      <4>1. x \in Int /\ keys[i - 1] \in Int /\ keys[i - 1] < key  BY <1>1, <1>5, <1>10, <3>1
      <4> QED BY <1>3, <4>1
    <3>5. \A x \in S : key <= x <=> x >= key  BY <1>3, <1>10
    <3>6. \A x : x \in Slice(S, K, i + 1) <=> x \in S /\ key <= x /\ (i <= n => x < keys[i])
      BY <1>14, <3>1, <3>3
    <3>7. \A x : x \in Slice(S, K, i + 1) <=> x \in From(Slice(S, keys, i), key)
      BY <1>13, <3>4, <3>5, <3>6 DEF From
    <3>8. Slice(S, K, i + 1) = From(Slice(S, keys, i), key)  BY <3>7
    <3> QED BY <2>3, <3>2, <3>8
  <2>4. CASE j > i + 1
    <3> DEFINE l == j - 1
    <3>1. l \in 1 .. n + 1 /\ l >= i + 1 /\ l + 1 = j /\ l # i /\ l > 1
          /\ l - 1 \in 1 .. n /\ l - 1 >= i /\ (l - 1) + 1 = l /\ j > 1 /\ j - 1 = l
          /\ (j <= n + 1 <=> l <= n) /\ (l <= n => l \in 1 .. n /\ l >= i)
      BY <1>1, <1>3, <2>4
    <3> HIDE DEF l
    <3>2. u[C[l + 1]] = Slice(S, keys, l)  BY <1>1, <1>2, <1>9, <3>1
    <3>3. K[(l - 1) + 1] = keys[l - 1] /\ (l <= n => K[l + 1] = keys[l])  BY <1>7, <3>1
    <3>4. \A x : x \in Slice(S, K, j) <=> x \in Slice(S, keys, l)
      BY <1>13, <1>14, <3>1, <3>3
    <3> QED BY <3>1, <3>2, <3>4
  <2> QED BY <1>1, <1>3, <2>1, <2>2, <2>3, <2>4
<1>16. Len(C) = Len(K) + 1  BY <1>1, <1>7, <1>9
<1>17. Parts(K, C, S, u)
  BY <1>7, <1>8, <1>9, <1>11, <1>15, <1>16 DEF Parts
<1> QED BY <1>17 DEF K, C

(* An inner node is parted: the key that separates the halves goes up.     *)
LEMMA LowParted ==
    ASSUME NEW keys, NEW kids, NEW S \in SUBSET Int, NEW s, Parts(keys, kids, S, s),
           NEW m \in 0 .. Len(keys) - 1,
           NEW K, IsPart(Keys, keys, 0, m, K), NEW C, IsPart(DOMAIN s, kids, 0, m + 1, C)
    PROVE  Parts(K, C, Below(S, keys[m + 1]), s)
<1> DEFINE n == Len(keys)
           up == keys[m + 1]
           B == Below(S, up)
<1>1. /\ keys \in Seq(Keys) /\ n \in Nat
      /\ \A j \in 1 .. n : keys[j] \in S /\ keys[j] \in Int
      /\ \A j, l \in 1 .. n : j < l => keys[j] < keys[l]
      /\ \A j \in 1 .. n + 1 : s[kids[j]] = Slice(S, keys, j)
  BY PartsFacts
<1>2. m \in Nat /\ m + 1 \in 1 .. n /\ \A j \in 1 .. m + 1 : 0 + j = j /\ j \in 1 .. n + 1
  BY <1>1
<1>3. K \in Seq(Keys) /\ Len(K) = m /\ DOMAIN K = 1 .. m /\ \A j \in 1 .. m : K[j] = keys[j]
  BY <1>2 DEF IsPart
<1>4. C \in Seq(DOMAIN s) /\ Len(C) = m + 1 /\ \A j \in 1 .. m + 1 : C[j] = kids[j]
  BY <1>2 DEF IsPart
<1>5. \A j \in 1 .. m : j \in 1 .. n /\ j < m + 1  BY <1>1, <1>2
<1>6. up \in Int /\ \A x \in S : x \in Int  BY <1>1, <1>2
<1>7. Sorted(K)  BY <1>1, <1>3, <1>5 DEF Sorted
<1>8. \A j \in 1 .. m : keys[j] < up /\ keys[j] \in Int  BY <1>1, <1>2, <1>5
<1>9. \A j \in 1 .. m : K[j] \in B  BY <1>1, <1>3, <1>5, <1>8 DEF Below
<1>10. \A x, j : x \in Slice(S, keys, j) <=>
              x \in S /\ (j > 1 => keys[j - 1] <= x) /\ (j <= n => x < keys[j])
  BY SliceIs
<1>11. \A x, j : x \in Slice(B, K, j) <=>
              x \in B /\ (j > 1 => K[j - 1] <= x) /\ (j <= m => x < K[j])
  BY <1>3, SliceIs
<1>12. \A x : x \in B <=> x \in S /\ x < up  BY DEF Below
<1> HIDE DEF B, n
<1>13. ASSUME NEW j \in 1 .. m + 1 PROVE s[C[j]] = Slice(B, K, j)
  <2>1. s[C[j]] = Slice(S, keys, j)  BY <1>1, <1>2, <1>4
  <2>2. j > 1 => K[j - 1] = keys[j - 1]
    <3> SUFFICES ASSUME j > 1 PROVE K[j - 1] = keys[j - 1]  OBVIOUS
    <3>1. j - 1 \in 1 .. m  BY <1>2
    <3> QED BY <1>3, <3>1
  <2>3. CASE j \in 1 .. m
    <3>1. K[j] = keys[j] /\ j <= m /\ j <= n /\ keys[j] < up /\ keys[j] \in Int
      BY <1>1, <1>2, <1>3, <1>8, <2>3
    <3>2. \A x \in S : x < keys[j] => x < up  BY <1>6, <3>1
    <3>3. \A x : x \in Slice(B, K, j) <=> x \in Slice(S, keys, j)
      BY <1>10, <1>11, <1>12, <2>2, <3>1, <3>2
    <3>4. Slice(B, K, j) = Slice(S, keys, j)  BY <3>3
    <3> QED BY <2>1, <3>4
  <2>4. CASE j = m + 1
    <3>1. ~ (j <= m) /\ j <= n /\ keys[j] = up  BY <1>1, <1>2, <2>4
    <3> HIDE DEF up
    <3>2. \A x : x \in Slice(B, K, j) <=> x \in Slice(S, keys, j)
      BY <1>10, <1>11, <1>12, <2>2, <3>1
    <3>3. Slice(B, K, j) = Slice(S, keys, j)  BY <3>2
    <3> QED BY <2>1, <3>3
  <2>5. j \in 1 .. m \/ j = m + 1  BY <1>2
  <2> QED BY <2>3, <2>4, <2>5
<1>14. Parts(K, C, B, s)  BY <1>3, <1>4, <1>7, <1>9, <1>13 DEF Parts
<1> QED BY <1>14 DEF B

LEMMA HighParted ==
    ASSUME NEW keys, NEW kids, NEW S \in SUBSET Int, NEW s, Parts(keys, kids, S, s),
           NEW m \in 1 .. Len(keys),
           NEW K, IsPart(Keys, keys, m, Len(keys) - m, K),
           NEW C, IsPart(DOMAIN s, kids, m, (Len(keys) + 1) - m, C)
    PROVE  Parts(K, C, From(S, keys[m]), s)
<1> DEFINE n == Len(keys)
           up == keys[m]
           B == From(S, up)
<1>1. /\ keys \in Seq(Keys) /\ n \in Nat
      /\ \A j \in 1 .. n : keys[j] \in S /\ keys[j] \in Int
      /\ \A j, l \in 1 .. n : j < l => keys[j] < keys[l]
      /\ \A j \in 1 .. n + 1 : s[kids[j]] = Slice(S, keys, j)
  BY PartsFacts
<1>2. /\ m \in Nat /\ m \in 1 .. n /\ n - m \in Nat /\ (n + 1) - m = (n - m) + 1
      /\ \A j \in 1 .. (n - m) + 1 : m + j \in 1 .. n + 1 /\ m + j > 1
      /\ \A j \in 1 .. n - m : m + j \in 1 .. n /\ m < m + j
  BY <1>1
<1>3. K \in Seq(Keys) /\ Len(K) = n - m /\ DOMAIN K = 1 .. n - m
      /\ \A j \in 1 .. n - m : K[j] = keys[m + j]
  BY <1>2 DEF IsPart
<1>4. C \in Seq(DOMAIN s) /\ Len(C) = (n - m) + 1
      /\ \A j \in 1 .. (n - m) + 1 : C[j] = kids[m + j]
  BY <1>2 DEF IsPart
<1>6. up \in Int /\ \A x \in S : x \in Int  BY <1>1, <1>2
<1>7. Sorted(K)
  <2> SUFFICES ASSUME NEW j \in 1 .. n - m, NEW l \in 1 .. n - m, j < l PROVE K[j] < K[l]
    BY <1>3 DEF Sorted
  <2>1. m + j < m + l  BY <1>2
  <2> QED BY <1>1, <1>2, <1>3, <2>1
<1>8. \A j \in 1 .. n - m : up < keys[m + j] /\ keys[m + j] \in Int /\ keys[m + j] \in S
  BY <1>1, <1>2
<1>9. \A j \in 1 .. n - m : K[j] \in B
  <2> TAKE j \in 1 .. n - m
  <2>1. up < keys[m + j] /\ keys[m + j] \in Int /\ keys[m + j] \in S  BY <1>8
  <2> HIDE DEF up
  <2>2. keys[m + j] >= up  BY <1>6, <2>1
  <2> QED BY <1>3, <2>1, <2>2 DEF From
<1>10. \A x, j : x \in Slice(S, keys, j) <=>
              x \in S /\ (j > 1 => keys[j - 1] <= x) /\ (j <= n => x < keys[j])
  BY SliceIs
<1>11. \A x, j : x \in Slice(B, K, j) <=>
              x \in B /\ (j > 1 => K[j - 1] <= x) /\ (j <= n - m => x < K[j])
  BY <1>3, SliceIs
<1>12. \A x : x \in B <=> x \in S /\ up <= x  BY <1>6 DEF From
<1> HIDE DEF B, n
<1>13. ASSUME NEW j \in 1 .. (n - m) + 1 PROVE s[C[j]] = Slice(B, K, j)
  <2> DEFINE l == m + j
  <2>1. s[C[j]] = Slice(S, keys, l)  BY <1>1, <1>2, <1>4
  <2>2. l > 1 /\ (j <= n - m <=> l <= n) /\ (j <= n - m => j \in 1 .. n - m)  BY <1>1, <1>2
  <2>3. j <= n - m => K[j] = keys[l]  BY <1>3, <2>2
  <2>4. CASE j = 1
    <3>1. ~ (j > 1) /\ keys[l - 1] = up  BY <1>2, <2>4
    <3> HIDE DEF up, l
    <3>2. \A x : x \in Slice(B, K, j) <=> x \in Slice(S, keys, l)
      BY <1>10, <1>11, <1>12, <2>2, <2>3, <3>1
    <3>3. Slice(B, K, j) = Slice(S, keys, l)  BY <3>2
    <3> QED BY <2>1, <3>3
  <2>5. CASE j > 1
    <3> DEFINE i == j - 1
    <3>1. i \in 1 .. n - m /\ l - 1 = m + i /\ j - 1 = i  BY <1>2, <2>5
    <3> HIDE DEF i, l
    <3>2. K[i] = keys[m + i] /\ up < keys[m + i] /\ keys[m + i] \in Int  BY <1>3, <1>8, <3>1
    <3>3. \A x \in S : keys[m + i] <= x => up <= x  BY <1>6, <3>2
    <3>4. ASSUME NEW x PROVE x \in Slice(B, K, j) <=> x \in Slice(S, keys, l)
      <4>1. x \in Slice(B, K, j)
              <=> x \in S /\ up <= x /\ keys[m + i] <= x /\ (l <= n => x < keys[l])
        BY <1>11, <1>12, <2>2, <2>3, <2>5, <3>1, <3>2
      <4>2. x \in Slice(S, keys, l) <=> x \in S /\ keys[m + i] <= x /\ (l <= n => x < keys[l])
        BY <1>10, <2>2, <3>1
      <4> QED BY <3>3, <4>1, <4>2
    <3>5. Slice(B, K, j) = Slice(S, keys, l)  BY <3>4
    <3> QED BY <2>1, <3>5
  <2>6. j = 1 \/ j > 1  BY <1>2
  <2> QED BY <2>4, <2>5, <2>6
<1>14. Parts(K, C, B, s)  BY <1>3, <1>4, <1>7, <1>9, <1>13 DEF Parts
<1> QED BY <1>14 DEF B

(* Children lie in the span of their parent, apart from one another, and   *)
(* a value of the span leads to one of them.                               *)
LEMMA ChildSpans ==
    ASSUME NEW keys, NEW kids, NEW S \in SUBSET Int, NEW s, Parts(keys, kids, S, s)
    PROVE  /\ \A j \in 1 .. Len(kids) : s[kids[j]] \subseteq S
           /\ \A i, j \in 1 .. Len(kids) : i < j => \A x \in s[kids[i]], y \in s[kids[j]] : x < y
           /\ \A k \in S : /\ FirstAbove(keys, k) \in 1 .. Len(kids)
                           /\ k \in s[kids[FirstAbove(keys, k)]]
<1> DEFINE n == Len(keys)
<1>1. /\ keys \in Seq(Int) /\ Sorted(keys) /\ n \in Nat /\ Len(kids) = n + 1
      /\ DOMAIN keys = 1 .. n
      /\ \A j \in 1 .. n : keys[j] \in S /\ keys[j] \in Int
      /\ \A j, l \in 1 .. n : j < l => keys[j] < keys[l]
      /\ \A j \in 1 .. n + 1 : s[kids[j]] = Slice(S, keys, j)
  BY PartsFacts
<1>2. \A x, j : x \in Slice(S, keys, j) <=>
              x \in S /\ (j > 1 => keys[j - 1] <= x) /\ (j <= n => x < keys[j])
  BY SliceIs
<1>3. \A x \in S : x \in Int  OBVIOUS
<1> HIDE DEF n
<1>4. \A j \in 1 .. Len(kids) : s[kids[j]] \subseteq S  BY <1>1, <1>2
<1>5. ASSUME NEW i \in 1 .. n + 1, NEW j \in 1 .. n + 1, i < j,
             NEW x \in s[kids[i]], NEW y \in s[kids[j]]
      PROVE  x < y
  <2>1. i \in 1 .. n /\ i <= n /\ j - 1 \in 1 .. n /\ j > 1 /\ (i = j - 1 \/ i < j - 1)
    BY <1>1, <1>5
  <2>2. x \in Slice(S, keys, i) /\ y \in Slice(S, keys, j)  BY <1>1, <1>5
  <2>3. x \in Int /\ y \in Int /\ x < keys[i] /\ keys[j - 1] <= y  BY <1>2, <1>3, <2>1, <2>2
  <2>4. keys[i] \in Int /\ keys[j - 1] \in Int /\ keys[i] <= keys[j - 1]  BY <1>1, <2>1
  <2> QED BY <2>3, <2>4
<1>6. ASSUME NEW k \in S
      PROVE  FirstAbove(keys, k) \in 1 .. Len(kids) /\ k \in s[kids[FirstAbove(keys, k)]]
  <2> DEFINE f == FirstAbove(keys, k)
  <2>1. f \in 1 .. n + 1 /\ \A j \in 1 .. n : keys[j] > k <=> j >= f
    BY <1>1, <1>3, FirstAboveIs DEF n
  <2> HIDE DEF f
  <2>2. f > 1 => keys[f - 1] <= k
    <3> SUFFICES ASSUME f > 1 PROVE keys[f - 1] <= k  OBVIOUS
    <3>1. f - 1 \in 1 .. n /\ ~ (f - 1 >= f)  BY <1>1, <2>1
    <3> QED BY <1>1, <1>3, <2>1, <3>1
  <2>3. f <= n => k < keys[f]
    <3> SUFFICES ASSUME f <= n PROVE k < keys[f]  OBVIOUS
    <3>1. f \in 1 .. n /\ f >= f  BY <1>1, <2>1
    <3> QED BY <1>1, <1>3, <2>1, <3>1
  <2>4. k \in Slice(S, keys, f)  BY <1>2, <2>2, <2>3
  <2> QED BY <1>1, <2>1, <2>4 DEF f
<1> QED BY <1>1, <1>4, <1>5, <1>6

----------------------------------------------------------------------------
(* One level up.                                                           *)
LEMMA InnerSame ==
    ASSUME NEW n, NEW h, NEW s, NEW p, InnerOK(n, h, s, p), NEW g, NEW u,
           DOMAIN s \subseteq DOMAIN u, u[p] = s[p], g[p] = h[p],
           \A j \in 1 .. Len(n.children) :
             u[n.children[j]] = s[n.children[j]] /\ g[n.children[j]] = h[n.children[j]]
    PROVE  InnerOK(n, g, u, p)
<1>1. /\ n.type = "inner" /\ Parts(n.keys, n.children, s[p], s)
      /\ Len(n.children) \in 2 .. b
      /\ \A j \in 1 .. Len(n.children) : h[n.children[j]] = h[p] - 1
  BY DEF InnerOK
<1>2. Parts(n.keys, n.children, u[p], u)
  <2> DEFINE keys == n.keys
             kids == n.children
             S == s[p]
  <2>1. Parts(keys, kids, S, s) /\ \A j \in 1 .. Len(kids) : u[kids[j]] = s[kids[j]]
    BY <1>1
  <2> HIDE DEF keys, kids, S
  <2>2. Parts(keys, kids, S, u)  BY <2>1, PartsKept
  <2> QED BY <2>2 DEF keys, kids, S
<1>3. \A j \in 1 .. Len(n.children) : g[n.children[j]] = g[p] - 1  BY <1>1
<1> QED BY <1>1, <1>2, <1>3 DEF InnerOK

(* From t1 to t2 nothing changes but nodes at height L, which are in order *)
(* afterwards.                                                             *)
Raised(t1, g, u, t2, g2, u2, L) ==
    /\ Numbered(t2) /\ g2 \in [DOMAIN t2 -> Nat] /\ u2 \in [DOMAIN t2 -> SUBSET Int]
    /\ Apart(g2, u2)
    /\ DOMAIN t1 \subseteq DOMAIN t2 /\ \A x \in DOMAIN t1 : g2[x] = g[x]
    /\ \A x \in DOMAIN t1 : g[x] # L => t2[x] = t1[x] /\ u2[x] = u[x]
    /\ \A x \in DOMAIN t2 \ DOMAIN t1 : g2[x] = L
    /\ \A x \in DOMAIN t2 : g2[x] = L => InnerOK(t2[x], g2, u2, x)

LEMMA Raise ==
    ASSUME NEW t1, NEW g, NEW u, NEW d, NEW H \in Nat, Well(t1, g, u, d, H),
           NEW L, L = H + 1, NEW t2, NEW g2, NEW u2, Raised(t1, g, u, t2, g2, u2, L),
           NEW p \in DOMAIN t1, NEW q \in DOMAIN t1, p # q
    PROVE  Well(t2, g2, u2, d, L) /\ EntriesIn(t2) = EntriesIn(t1)
<1>1. /\ Numbered(t2) /\ g2 \in [DOMAIN t2 -> Nat] /\ u2 \in [DOMAIN t2 -> SUBSET Int]
      /\ Apart(g2, u2)
      /\ DOMAIN t1 \subseteq DOMAIN t2 /\ \A x \in DOMAIN t1 : g2[x] = g[x]
      /\ \A x \in DOMAIN t1 : g[x] # L => t2[x] = t1[x] /\ u2[x] = u[x]
      /\ \A x \in DOMAIN t2 \ DOMAIN t1 : g2[x] = L
      /\ \A x \in DOMAIN t2 : g2[x] = L => InnerOK(t2[x], g2, u2, x)
  BY DEF Raised
<1>2. L \in Nat /\ L > 0 /\ L # 0  OBVIOUS
<1>3. /\ g \in [DOMAIN t1 -> Nat] /\ u \in [DOMAIN t1 -> SUBSET Int]
      /\ \A x \in DOMAIN t1 :
           g[x] = 0 => LeafOK(t1[x], u[x]) /\ (t1[x].keys # <<>> \/ DOMAIN t1 = {x})
      /\ \A x \in DOMAIN t1 : g[x] > 0 => t1[x].type = "inner"
      /\ \A x \in DOMAIN t1 : g[x] > 0 /\ g[x] <= H => InnerOK(t1[x], g, u, x)
      /\ ChainOK(t1, g, u, d)
  BY DEF Well
<1>4. \A x \in DOMAIN t2 : g2[x] # L =>
        x \in DOMAIN t1 /\ g2[x] = g[x] /\ g[x] # L /\ t2[x] = t1[x] /\ u2[x] = u[x]
  BY <1>1
<1>5. ASSUME NEW x \in DOMAIN t2, g2[x] = 0
      PROVE  LeafOK(t2[x], u2[x]) /\ (t2[x].keys # <<>> \/ DOMAIN t2 = {x})
  <2>1. x \in DOMAIN t1 /\ g[x] = 0 /\ t2[x] = t1[x] /\ u2[x] = u[x]  BY <1>2, <1>4, <1>5
  <2>2. DOMAIN t1 # {x}  OBVIOUS
  <2> QED BY <1>3, <2>1, <2>2
<1>6. ASSUME NEW x \in DOMAIN t2, g2[x] > 0 PROVE t2[x].type = "inner"
  <2>1. CASE g2[x] = L  BY <1>1, <2>1 DEF InnerOK
  <2>2. CASE g2[x] # L
    <3>1. x \in DOMAIN t1 /\ g[x] > 0 /\ t2[x] = t1[x]  BY <1>4, <1>6, <2>2
    <3> QED BY <1>3, <3>1
  <2> QED BY <2>1, <2>2
<1>7. ASSUME NEW x \in DOMAIN t2, g2[x] > 0, g2[x] <= L PROVE InnerOK(t2[x], g2, u2, x)
  <2>1. CASE g2[x] = L  BY <1>1, <2>1
  <2>2. CASE g2[x] # L
    <3>1. /\ x \in DOMAIN t1 /\ g2[x] = g[x] /\ t2[x] = t1[x] /\ u2[x] = u[x]
          /\ g[x] > 0 /\ g[x] \in Nat
      BY <1>3, <1>4, <1>7, <2>2
    <3>2. g[x] <= H  BY <1>7, <2>2, <3>1
    <3> DEFINE n == t1[x]
    <3>3. InnerOK(n, g, u, x)  BY <1>3, <3>1, <3>2
    <3> HIDE DEF n
    <3>4. ASSUME NEW j \in 1 .. Len(n.children)
          PROVE  u2[n.children[j]] = u[n.children[j]] /\ g2[n.children[j]] = g[n.children[j]]
      <4> DEFINE y == n.children[j]
      <4>1. g[y] = g[x] - 1  BY <3>3 DEF InnerOK
      <4>2. y \in DOMAIN t1
        <5> DEFINE kids == n.children
        <5>1. kids \in Seq(DOMAIN u)  BY <3>3 DEF InnerOK, Parts
        <5>2. j \in 1 .. Len(kids)  OBVIOUS
        <5> HIDE DEF kids
        <5>3. kids[j] \in DOMAIN u  BY <5>1, <5>2
        <5> QED BY <1>3, <5>3 DEF kids
      <4> HIDE DEF y
      <4>3. g[y] # L  BY <3>1, <3>2, <4>1
      <4>4. u2[y] = u[y] /\ g2[y] = g[y]  BY <1>1, <4>2, <4>3
      <4> QED BY <4>4 DEF y
    <3>5. DOMAIN u \subseteq DOMAIN u2  BY <1>1, <1>3
    <3>6. InnerOK(n, g2, u2, x)  BY <3>1, <3>3, <3>4, <3>5, InnerSame
    <3> QED BY <3>1, <3>6 DEF n
  <2> QED BY <2>1, <2>2
<1>8. ChainOK(t2, g2, u2, d)
  <2>1. /\ d \in Seq(DOMAIN t1) /\ Len(d) \in Nat
        /\ \A x \in DOMAIN t1 : g[x] = 0 <=> \E i \in 1 .. Len(d) : d[i] = x
        /\ \A i \in 1 .. Len(d) : t1[d[i]].next = IF i < Len(d) THEN d[i + 1] ELSE kNullNode
        /\ \A i, j \in 1 .. Len(d) : i < j => \A x \in u[d[i]], y \in u[d[j]] : x < y
    <3>1. ChainOK(t1, g, u, d)  BY <1>3
    <3>2. d \in Seq(DOMAIN t1)  BY <3>1 DEF ChainOK
    <3>3. Len(d) \in Nat  BY <3>2
    <3>4. \A x \in DOMAIN t1 : g[x] = 0 <=> \E i \in 1 .. Len(d) : d[i] = x
      BY <3>1, Zenon DEF ChainOK
    <3>5. \A i \in 1 .. Len(d) :
            t1[d[i]].next = IF i < Len(d) THEN d[i + 1] ELSE kNullNode
      BY <3>1, Zenon DEF ChainOK
    <3>6. \A i, j \in 1 .. Len(d) : i < j => \A x \in u[d[i]], y \in u[d[j]] : x < y
      BY <3>1, Zenon DEF ChainOK
    <3> QED BY <3>2, <3>3, <3>4, <3>5, <3>6
  <2>2. \A i \in 1 .. Len(d) : d[i] \in DOMAIN t1 /\ g[d[i]] = 0  BY <2>1
  <2>3. \A i \in 1 .. Len(d) : t2[d[i]] = t1[d[i]] /\ u2[d[i]] = u[d[i]]  BY <1>1, <1>2, <2>2
  <2>4. d \in Seq(DOMAIN t2)  BY <1>1, <2>1, SeqSub
  <2>5. \A x \in DOMAIN t2 : g2[x] = 0 <=> \E i \in 1 .. Len(d) : d[i] = x
    <3> TAKE x \in DOMAIN t2
    <3>1. CASE x \in DOMAIN t1  BY <1>1, <2>1, <3>1
    <3>2. CASE x \notin DOMAIN t1  BY <1>1, <1>2, <2>2, <3>2
    <3> QED BY <3>1, <3>2
  <2> QED BY <2>1, <2>3, <2>4, <2>5 DEF ChainOK
<1>9. Well(t2, g2, u2, d, L)  BY <1>1, <1>5, <1>6, <1>7, <1>8 DEF Well
<1>10. LeavesIn(t2) = LeavesIn(t1)
  <2>1. LeavesIn(t2) = {x \in DOMAIN t2 : g2[x] = 0}  BY <1>9, LeafIff
  <2>2. LeavesIn(t1) = {x \in DOMAIN t1 : g[x] = 0}  BY LeafIff
  <2> QED BY <1>1, <1>2, <1>4, <2>1, <2>2
<1>11. \A x \in LeavesIn(t1) : t2[x] = t1[x]
  <2>1. LeavesIn(t1) = {x \in DOMAIN t1 : g[x] = 0}  BY LeafIff
  <2> QED BY <1>1, <1>2, <2>1
<1> QED BY <1>9, <1>10, <1>11, EntriesSame

(* Children of height l that part S.                                       *)
Family(keys, kids, S, s, g, l) ==
    Parts(keys, kids, S, s) /\ \A j \in 1 .. Len(kids) : g[kids[j]] = l

LEMMA FamilyInsert ==
    ASSUME NEW keys, NEW kids, NEW S \in SUBSET Int, NEW s, NEW g, NEW l,
           Family(keys, kids, S, s, g, l),
           NEW i \in 1 .. Len(kids), NEW key, NEW new, NEW u, ChildSplit(kids, i, key, new, s, u),
           g[new] = l
    PROVE  /\ Family(InsertAt(keys, i, key), InsertAt(kids, i + 1, new), S, u, g, l)
           /\ Len(InsertAt(kids, i + 1, new)) = Len(kids) + 1
<1> DEFINE C == InsertAt(kids, i + 1, new)
           N == Len(kids)
<1>1. Parts(keys, kids, S, s) /\ \A j \in 1 .. N : g[kids[j]] = l  BY DEF Family
<1>2. Parts(InsertAt(keys, i, key), C, S, u)  BY <1>1, InsertParted
<1>3. /\ Len(C) = N + 1
      /\ \A j \in 1 .. N : j < i + 1 => C[j] = kids[j]
      /\ C[i + 1] = new
      /\ \A j \in 1 .. N : j >= i + 1 => C[j + 1] = kids[j]
  <2> DEFINE X == DOMAIN s \cup {new}
             a == i + 1
  <2>1. kids \in Seq(X) /\ new \in X  BY <1>1, SeqSub DEF Parts
  <2>2. a \in 1 .. N + 1 /\ Len(kids) = N /\ C = InsertAt(kids, a, new)  BY <2>1
  <2> HIDE DEF X, N, a, C
  <2>3. IsInserted(X, kids, N, a, new, InsertAt(kids, a, new))  BY <2>1, <2>2, InsertIs
  <2>4. IsInserted(X, kids, N, a, new, C)  BY <2>2, <2>3
  <2>5. /\ Len(C) = N + 1
        /\ \A j \in 1 .. N : j < a => C[j] = kids[j]
        /\ C[a] = new
        /\ \A j \in 1 .. N : j >= a => C[j + 1] = kids[j]
    BY <2>4 DEF IsInserted
  <2> QED BY <2>5 DEF a
<1>4. N \in Nat /\ i \in 1 .. N
  <2>1. Len(kids) = Len(keys) + 1 /\ Len(keys) \in Nat  BY <1>1, PartsFacts
  <2> QED BY <2>1
<1> HIDE DEF C, N
<1>5. ASSUME NEW j \in 1 .. N + 1 PROVE g[C[j]] = l
  <2>1. i + 1 \in 1 .. N + 1  BY <1>4
  <2>2. CASE j \in 1 .. N /\ j < i + 1  BY <1>1, <1>3, <2>2
  <2>3. CASE j = i + 1  BY <1>3, <2>3
  <2>4. CASE j - 1 \in 1 .. N /\ j - 1 >= i + 1 /\ (j - 1) + 1 = j
    <3>1. C[(j - 1) + 1] = kids[j - 1]  BY <1>3, <2>4
    <3> QED BY <1>1, <2>4, <3>1
  <2> QED BY <1>4, <2>1, <2>2, <2>3, <2>4, InsertPlaces
<1>6. Family(InsertAt(keys, i, key), C, S, u, g, l)  BY <1>2, <1>3, <1>5 DEF Family
<1> QED BY <1>3, <1>6 DEF C, N

(* The child that has been split is j of these, or none of them.           *)
SplitAmong(C, N, j, key, new, s, u) ==
    /\ j \in 1 .. N => ChildSplit(C, j, key, new, s, u)
    /\ j \notin 1 .. N => \A z \in 1 .. N : u[C[z]] = s[C[z]]

LEMMA PartSplit ==
    ASSUME NEW X, NEW kids, NEW a \in Nat, NEW N \in Nat, a + N <= Len(kids), Len(kids) \in Nat,
           NEW C, IsPart(X, kids, a, N, C),
           NEW i \in 1 .. Len(kids), NEW key, NEW new, NEW s, NEW u,
           ChildSplit(kids, i, key, new, s, u)
    PROVE  SplitAmong(C, N, i - a, key, new, s, u)
<1>1. Len(C) = N /\ \A j \in 1 .. N : C[j] = kids[a + j]  BY DEF IsPart
<1>2. \A j \in 1 .. N : a + j \in 1 .. Len(kids) /\ (a + j = i <=> j = i - a)  OBVIOUS
<1>3. \A j \in 1 .. N : j # i - a => u[C[j]] = s[C[j]]  BY <1>1, <1>2 DEF ChildSplit
<1>4. ASSUME i - a \in 1 .. N PROVE ChildSplit(C, i - a, key, new, s, u)
  <2>1. C[i - a] = kids[i]
    <3>1. a + (i - a) = i  OBVIOUS
    <3> QED BY <1>1, <1>4, <3>1
  <2> QED BY <1>1, <1>3, <2>1 DEF ChildSplit
<1>5. i - a \notin 1 .. N => \A j \in 1 .. N : u[C[j]] = s[C[j]]  BY <1>3
<1> QED BY <1>4, <1>5 DEF SplitAmong

LEMMA FamilyKept ==
    ASSUME NEW keys, NEW kids, NEW S, NEW s, NEW g, NEW l, Family(keys, kids, S, s, g, l), NEW u,
           DOMAIN s \subseteq DOMAIN u, \A j \in 1 .. Len(kids) : u[kids[j]] = s[kids[j]]
    PROVE  Family(keys, kids, S, u, g, l)
  BY PartsKept DEF Family

(* The halves of an inner node.                                            *)
LEMMA FamilyHalves ==
    ASSUME NEW keys, NEW kids, NEW S \in SUBSET Int, NEW s, NEW g, NEW l,
           Family(keys, kids, S, s, g, l), s[kids[1]] # {},
           NEW c, c = Len(kids), NEW m \in 0 .. c - 2
    PROVE  LET up == keys[m + 1]
               lc == SubSeq(kids, 1, m + 1)
               hc == SubSeq(kids, m + 2, c)
           IN  /\ Family(SubSeq(keys, 1, m), lc, Below(S, up), s, g, l)
               /\ Family(SubSeq(keys, m + 2, c - 1), hc, From(S, up), s, g, l)
               /\ IsPart(DOMAIN s, kids, 0, m + 1, lc)
               /\ IsPart(DOMAIN s, kids, m + 1, c - (m + 1), hc)
               /\ up \in Keys /\ up \in S /\ \E x \in S : x < up
<1> DEFINE up == keys[m + 1]
           n == Len(keys)
           lk == SubSeq(keys, 1, m)
           lc == SubSeq(kids, 1, m + 1)
           hk == SubSeq(keys, m + 2, c - 1)
           hc == SubSeq(kids, m + 2, c)
           a == m + 1
           X == DOMAIN s
<1>1. Parts(keys, kids, S, s) /\ \A j \in 1 .. Len(kids) : g[kids[j]] = l  BY DEF Family
<1>2. /\ keys \in Seq(Keys) /\ n \in Nat /\ kids \in Seq(X) /\ Len(kids) = n + 1
      /\ \A j \in 1 .. n : keys[j] \in S /\ keys[j] \in Keys
      /\ \A j \in 1 .. n + 1 : s[kids[j]] = Slice(S, keys, j)
  BY <1>1, PartsFacts
<1>3. /\ m \in Nat /\ m \in 0 .. n /\ m + 1 \in 0 .. n + 1 /\ m + 1 \in 1 .. n /\ m \in 0 .. n - 1
      /\ c = n + 1 /\ c - 1 = n /\ c - (m + 1) \in Nat /\ m + 2 = (m + 1) + 1 /\ a \in 1 .. n
      /\ a \in 0 .. n /\ a \in 0 .. c /\ m + 2 = a + 1 /\ a \in Nat
  BY <1>2
<1>4. IsPart(Keys, keys, 0, m, lk) /\ IsPart(X, kids, 0, a, lc)
  <2>1. m \in 0 .. Len(keys) /\ a \in 0 .. Len(kids)  BY <1>2, <1>3
  <2> HIDE DEF a, X, n
  <2>2. IsPart(Keys, keys, 0, m, SubSeq(keys, 1, m))  BY <1>2, <2>1, PrefixIs
  <2>3. IsPart(X, kids, 0, a, SubSeq(kids, 1, a))  BY <1>2, <2>1, PrefixIs
  <2> QED BY <2>2, <2>3 DEF a
<1>5. IsPart(Keys, keys, a, n - a, hk) /\ IsPart(X, kids, a, c - a, hc)
  <2> DEFINE C == c
  <2>1. hk = SubSeq(keys, a + 1, n) /\ hc = SubSeq(kids, a + 1, C) /\ Len(keys) = n
        /\ Len(kids) = C /\ a \in 0 .. n /\ a \in 0 .. C
    BY <1>3
  <2> HIDE DEF a, X, n, hk, hc, C
  <2>2. IsPart(Keys, keys, a, n - a, SubSeq(keys, a + 1, n))  BY <1>2, <2>1, SuffixIs
  <2>3. IsPart(X, kids, a, C - a, SubSeq(kids, a + 1, C))  BY <1>2, <2>1, SuffixIs
  <2> QED BY <2>1, <2>2, <2>3 DEF C
<1>6. Parts(lk, lc, Below(S, up), s)
  <2> HIDE DEF lk, lc
  <2> QED BY <1>1, <1>3, <1>4, LowParted
<1>7. Parts(hk, hc, From(S, up), s)
  <2>1. c - a = (n + 1) - a  BY <1>3
  <2>2. IsPart(X, kids, a, (n + 1) - a, hc)  BY <1>5, <2>1
  <2>3. a \in 1 .. n  BY <1>3
  <2> HIDE DEF a, hk, hc
  <2>4. Parts(hk, hc, From(S, keys[a]), s)  BY <1>1, <1>5, <2>2, <2>3, HighParted
  <2> QED BY <2>4 DEF a
<1>8. \A j \in 1 .. Len(lc) : g[lc[j]] = l
  <2>1. Len(lc) = m + 1 /\ \A j \in 1 .. m + 1 : lc[j] = kids[0 + j]  BY <1>4 DEF IsPart
  <2>2. \A j \in 1 .. m + 1 : 0 + j \in 1 .. Len(kids)  BY <1>2, <1>3
  <2> HIDE DEF lc
  <2> QED BY <1>1, <2>1, <2>2
<1>9. \A j \in 1 .. Len(hc) : g[hc[j]] = l
  <2>1. Len(hc) = c - a /\ \A j \in 1 .. c - a : hc[j] = kids[a + j]  BY <1>5 DEF IsPart
  <2>2. \A j \in 1 .. c - a : a + j \in 1 .. Len(kids)  BY <1>2, <1>3
  <2> HIDE DEF hc
  <2> QED BY <1>1, <2>1, <2>2
<1>10. up \in Keys /\ up \in S /\ up \in Int  BY <1>2, <1>3, KeysInt
<1>11. Family(lk, lc, Below(S, up), s, g, l)
  <2> HIDE DEF lk, lc, up
  <2> QED BY <1>6, <1>8 DEF Family
<1>12. Family(hk, hc, From(S, up), s, g, l)
  <2> HIDE DEF hk, hc, up
  <2> QED BY <1>7, <1>9 DEF Family
<1>13. \E x \in S : x < up
  <2>1. 1 \in 1 .. n /\ 1 \in 1 .. n + 1 /\ (m + 1 = 1 \/ 1 < m + 1)  BY <1>2, <1>3
  <2>2. PICK x \in Slice(S, keys, 1) : TRUE  BY <1>2, <2>1
  <2>3. x \in S /\ x < keys[1]  BY <2>1, <2>2, SliceIs
  <2>4. keys[1] \in Int /\ (1 < m + 1 => keys[1] < up)
    <3>1. \A j, i \in 1 .. n : j < i => keys[j] < keys[i]  BY <1>1, PartsFacts
    <3>2. keys[1] \in Int  BY <1>2, <2>1, KeysInt
    <3> QED BY <1>3, <2>1, <3>1, <3>2
  <2>5. x \in Int  BY <2>3
  <2>6. x < up
    <3>1. CASE m + 1 = 1  BY <2>3, <3>1
    <3>2. CASE 1 < m + 1  BY <1>10, <2>3, <2>4, <2>5, <3>2
    <3> QED BY <2>1, <3>1, <3>2
  <2> QED BY <2>3, <2>6
<1> QED BY <1>4, <1>5, <1>10, <1>11, <1>12, <1>13

(* Child i of p is q, and what is below q has changed t into t1: what p    *)
(* and its siblings see of it.                                             *)
Around(t, h, s, p, i, q, t1, g, u) ==
    /\ q \in DOMAIN t /\ h[q] \in Nat /\ h[p] \in Nat /\ h[p] = h[q] + 1 /\ p # q
    /\ p \in DOMAIN t1 /\ q \in DOMAIN t1
    /\ t1[p] = t[p] /\ u[p] = s[p] /\ g[p] = h[p] /\ g[q] = h[q] /\ s[p] \in SUBSET Int
    /\ DOMAIN s = DOMAIN t /\ DOMAIN u = DOMAIN t1 /\ DOMAIN t \subseteq DOMAIN t1
    /\ t[p].type = "inner" /\ Len(t[p].children) \in 2 .. b
    /\ Family(t[p].keys, t[p].children, s[p], s, g, h[q]) /\ s[t[p].children[1]] # {}
    /\ \A j \in 1 .. Len(t[p].children) : j # i => u[t[p].children[j]] = s[t[p].children[j]]
    /\ \A x \in DOMAIN t : x # p /\ h[x] >= h[p] => t1[x] = t[x] /\ u[x] = s[x]
    /\ \A x \in DOMAIN t : x # p /\ h[x] = h[p] => InnerOK(t1[x], g, u, x)
    /\ \A x \in DOMAIN t1 \ DOMAIN t : g[x] <= h[q]
    /\ \A x \in DOMAIN t : g[x] = h[x]

LEMMA AroundIs ==
    ASSUME NEW t, NEW h, NEW s, NEW c, NEW H, Well(t, h, s, c, H),
           NEW p \in DOMAIN t, h[p] > 0, h[p] <= H,
           NEW i \in 1 .. Len(t[p].children), NEW q, q = t[p].children[i],
           NEW t1, NEW g, NEW u, NEW d, Well(t1, g, u, d, h[q]), Extends(t, h, s, q, t1, g, u)
    PROVE  Around(t, h, s, p, i, q, t1, g, u)
<1>1. /\ h \in [DOMAIN t -> Nat] /\ s \in [DOMAIN t -> SUBSET Int]
      /\ \A x \in DOMAIN t : s[x] # {}
      /\ \A x, y \in DOMAIN t : x # y /\ h[x] = h[y] => s[x] \cap s[y] = {}
      /\ \A x \in DOMAIN t : h[x] > 0 /\ h[x] <= H => InnerOK(t[x], h, s, x)
      /\ g \in [DOMAIN t1 -> Nat] /\ u \in [DOMAIN t1 -> SUBSET Int]
  BY DEF Well, Apart
<1>2. /\ DOMAIN t \subseteq DOMAIN t1
      /\ \A x \in DOMAIN t : g[x] = h[x]
      /\ \A x \in DOMAIN t1 \ DOMAIN t : g[x] <= h[q]
      /\ \A x \in DOMAIN t : h[x] >= h[q] /\ x # q => t1[x] = t[x] /\ u[x] = s[x]
  BY DEF Extends
<1>3. \A x \in DOMAIN t : h[x] > 0 /\ h[x] <= H =>
        /\ t[x].type = "inner" /\ Parts(t[x].keys, t[x].children, s[x], s)
        /\ Len(t[x].children) \in 2 .. b
        /\ \A j \in 1 .. Len(t[x].children) :
             /\ h[t[x].children[j]] = h[x] - 1
             /\ t[x].children[j] \in DOMAIN t
             /\ s[t[x].children[j]] \subseteq s[x]
  <2> TAKE x \in DOMAIN t
  <2> HAVE h[x] > 0 /\ h[x] <= H
  <2>1. InnerOK(t[x], h, s, x)  BY <1>1
  <2> DEFINE keys == t[x].keys
             kids == t[x].children
             S == s[x]
  <2>2. Parts(keys, kids, S, s)  BY <2>1 DEF InnerOK
  <2>3. S \in SUBSET Int /\ DOMAIN s = DOMAIN t  BY <1>1
  <2> HIDE DEF keys, kids, S
  <2>4. \A j \in 1 .. Len(kids) : s[kids[j]] \subseteq S  BY <2>2, <2>3, ChildSpans
  <2>5. \A j \in 1 .. Len(kids) : kids[j] \in DOMAIN t  BY <2>2, <2>3 DEF Parts
  <2> QED BY <2>1, <2>4, <2>5 DEF InnerOK, keys, kids, S
<1> DEFINE kids == t[p].children
           l == h[q]
<1>4. /\ t[p].type = "inner" /\ Parts(t[p].keys, kids, s[p], s) /\ Len(kids) \in 2 .. b
      /\ \A j \in 1 .. Len(kids) :
           h[kids[j]] = h[p] - 1 /\ kids[j] \in DOMAIN t /\ s[kids[j]] \subseteq s[p]
  BY <1>3
<1>5. i \in 1 .. Len(kids) /\ q = kids[i] /\ 1 \in 1 .. Len(kids)  BY <1>4
<1>6. l = h[p] - 1 /\ q \in DOMAIN t /\ l \in Nat /\ h[p] \in Nat /\ h[p] = l + 1 /\ p # q
      /\ s[p] \in SUBSET Int /\ s[q] \subseteq s[p]
  <2> HIDE DEF kids
  <2> QED BY <1>1, <1>4, <1>5
<1>7. \A j \in 1 .. Len(kids) : j # i => kids[j] # q
  <2> DEFINE keys == t[p].keys
             S == s[p]
  <2>1. Parts(keys, kids, S, s) /\ S \in SUBSET Int  BY <1>4, <1>6
  <2>2. Len(kids) \in Nat  BY <1>4
  <2> HIDE DEF kids, keys, S
  <2> TAKE j \in 1 .. Len(kids)
  <2> HAVE j # i
  <2> SUFFICES ASSUME kids[j] = q PROVE FALSE  OBVIOUS
  <2>3. \A a, z \in 1 .. Len(kids) : a < z => \A x \in s[kids[a]], y \in s[kids[z]] : x < y
    BY <2>1, ChildSpans
  <2>4. PICK x \in s[q] : x \in Int  BY <1>1, <1>6
  <2>5. i < j \/ j < i  BY <1>5, <2>2
  <2>6. x < x  BY <1>5, <2>3, <2>4, <2>5
  <2> QED BY <2>4, <2>6
<1>8. \A j \in 1 .. Len(kids) : j # i => u[kids[j]] = s[kids[j]]
  <2> TAKE j \in 1 .. Len(kids)
  <2> HAVE j # i
  <2>1. kids[j] \in DOMAIN t /\ h[kids[j]] = l /\ kids[j] # q  BY <1>4, <1>6, <1>7
  <2> HIDE DEF kids
  <2> QED BY <1>2, <1>6, <2>1
<1>9. Family(t[p].keys, kids, s[p], s, g, l)
  <2>1. \A j \in 1 .. Len(kids) : g[kids[j]] = l  BY <1>2, <1>4, <1>6
  <2> QED BY <1>4, <2>1 DEF Family
<1>10. /\ p \in DOMAIN t1 /\ q \in DOMAIN t1 /\ t1[p] = t[p] /\ u[p] = s[p]
       /\ g[p] = h[p] /\ g[q] = h[q]
  <2>1. h[p] >= h[q] /\ p # q /\ q \in DOMAIN t /\ p \in DOMAIN t  BY <1>6
  <2> HIDE DEF l
  <2> QED BY <1>2, <2>1
<1>11. \A x \in DOMAIN t : x # p /\ h[x] >= h[p] => t1[x] = t[x] /\ u[x] = s[x]
  <2> TAKE x \in DOMAIN t
  <2> HAVE x # p /\ h[x] >= h[p]
  <2>1. h[x] \in Nat  BY <1>1
  <2>2. h[x] >= h[q] /\ h[x] # h[q]  BY <1>6, <2>1
  <2> QED BY <1>2, <2>2
<1>12. ASSUME NEW x \in DOMAIN t, x # p, h[x] = h[p] PROVE InnerOK(t1[x], g, u, x)
  <2> DEFINE n == t[x]
             C == n.children
  <2>1. InnerOK(n, h, s, x)  BY <1>1, <1>12
  <2>2. \A j \in 1 .. Len(C) : h[C[j]] = l /\ C[j] \in DOMAIN t /\ s[C[j]] \subseteq s[x]
    BY <1>3, <1>6, <1>12
  <2>3. t1[x] = n /\ u[x] = s[x] /\ g[x] = h[x] /\ DOMAIN s \subseteq DOMAIN u
    BY <1>1, <1>2, <1>6, <1>11, <1>12
  <2>4. s[x] \cap s[p] = {} /\ s[q] # {}  BY <1>1, <1>6, <1>12
  <2> HIDE DEF C
  <2>5. \A j \in 1 .. Len(C) : u[C[j]] = s[C[j]] /\ g[C[j]] = h[C[j]]
    <3> TAKE j \in 1 .. Len(C)
    <3>1. C[j] # q  BY <1>6, <2>2, <2>4
    <3> QED BY <1>2, <1>6, <2>2, <3>1
  <2>6. \A j \in 1 .. Len(n.children) :
          u[n.children[j]] = s[n.children[j]] /\ g[n.children[j]] = h[n.children[j]]
    BY <2>5 DEF C
  <2> HIDE DEF n
  <2>7. InnerOK(n, g, u, x)  BY <2>1, <2>3, <2>6, InnerSame
  <2> QED BY <2>3, <2>7
<1>13. s[kids[1]] # {}
  <2>1. kids[1] \in DOMAIN t  BY <1>4, <1>5
  <2> QED BY <1>1, <2>1
<1>14. DOMAIN s = DOMAIN t /\ DOMAIN u = DOMAIN t1 /\ p \in DOMAIN t  BY <1>1
<1> QED BY <1>2, <1>4, <1>6, <1>8, <1>9, <1>10, <1>11, <1>12, <1>13, <1>14 DEF Around

SiblingsKept(t, h, p, t1, u, t2, u2) ==
    \A x \in DOMAIN t : x # p /\ h[x] = h[p] => t2[x] = t1[x] /\ u2[x] = u[x]

BelowDone(t, h, s, p, i, q, t1, g, u, d) ==
    /\ Well(t1, g, u, d, h[q]) /\ Extends(t, h, s, q, t1, g, u)
    /\ Around(t, h, s, p, i, q, t1, g, u)

Stepped(t, h, s, p, t1, t2, g2, u2, d) ==
    /\ Well(t2, g2, u2, d, h[p]) /\ Extends(t, h, s, p, t2, g2, u2)
    /\ EntriesIn(t2) = EntriesIn(t1)

(* The step up from t1 to t2, at node p.                                   *)
LEMMA StepUp ==
    ASSUME NEW t, NEW h, NEW s, NEW p, NEW i, NEW q,
           NEW t1, NEW g, NEW u, NEW d, BelowDone(t, h, s, p, i, q, t1, g, u, d),
           NEW t2, NEW g2, NEW u2, Raised(t1, g, u, t2, g2, u2, h[p]),
           SiblingsKept(t, h, p, t1, u, t2, u2)
    PROVE  Stepped(t, h, s, p, t1, t2, g2, u2, d)
<1>0. /\ Well(t1, g, u, d, h[q]) /\ Extends(t, h, s, q, t1, g, u)
      /\ Around(t, h, s, p, i, q, t1, g, u)
  BY DEF BelowDone
<1>1. /\ q \in DOMAIN t /\ h[q] \in Nat /\ h[p] \in Nat /\ h[p] = h[q] + 1 /\ p # q
      /\ p \in DOMAIN t1 /\ q \in DOMAIN t1 /\ DOMAIN t \subseteq DOMAIN t1
      /\ \A x \in DOMAIN t : x # p /\ h[x] >= h[p] => t1[x] = t[x] /\ u[x] = s[x]
      /\ \A x \in DOMAIN t1 \ DOMAIN t : g[x] <= h[q]
      /\ \A x \in DOMAIN t : g[x] = h[x]
  BY <1>0 DEF Around
<1>2. Well(t2, g2, u2, d, h[p]) /\ EntriesIn(t2) = EntriesIn(t1)  BY <1>0, <1>1, Raise
<1>3. /\ DOMAIN t1 \subseteq DOMAIN t2 /\ \A x \in DOMAIN t1 : g2[x] = g[x]
      /\ \A x \in DOMAIN t1 : g[x] # h[p] => t2[x] = t1[x] /\ u2[x] = u[x]
      /\ \A x \in DOMAIN t2 \ DOMAIN t1 : g2[x] = h[p]
  BY DEF Raised
<1>4. \A x \in DOMAIN t2 \ DOMAIN t : g2[x] <= h[p]
  <2> TAKE x \in DOMAIN t2 \ DOMAIN t
  <2>1. CASE x \in DOMAIN t1
    <3>1. g2[x] = g[x] /\ g[x] <= h[q] /\ g[x] \in Nat  BY <1>0, <1>1, <1>3, <2>1 DEF Well
    <3> QED BY <1>1, <3>1
  <2>2. CASE x \notin DOMAIN t1  BY <1>1, <1>3, <2>2
  <2> QED BY <2>1, <2>2
<1>5. \A x \in DOMAIN t : h[x] >= h[p] /\ x # p => t2[x] = t[x] /\ u2[x] = s[x]
  <2> TAKE x \in DOMAIN t
  <2> HAVE h[x] >= h[p] /\ x # p
  <2>1. t1[x] = t[x] /\ u[x] = s[x] /\ g[x] = h[x] /\ x \in DOMAIN t1  BY <1>1
  <2>2. t2[x] = t1[x] /\ u2[x] = u[x]  BY <1>3, <2>1 DEF SiblingsKept
  <2> QED BY <2>1, <2>2
<1>6. Extends(t, h, s, p, t2, g2, u2)  BY <1>1, <1>3, <1>4, <1>5 DEF Extends
<1> QED BY <1>2, <1>6 DEF Stepped

LEMMA FamilyInner ==
    ASSUME NEW n, n.type = "inner", Len(n.children) \in 2 .. b,
           NEW S, NEW u, NEW g, NEW l \in Nat, Family(n.keys, n.children, S, u, g, l),
           NEW p, u[p] = S, g[p] = l + 1
    PROVE  InnerOK(n, g, u, p)
<1>1. g[p] - 1 = l  OBVIOUS
<1>2. /\ Parts(n.keys, n.children, u[p], u)
      /\ \A j \in 1 .. Len(n.children) : g[n.children[j]] = g[p] - 1
  BY <1>1 DEF Family
<1> QED BY <1>2 DEF InnerOK

(* From t1 to t2 the insertion goes from below p to p, which may have been *)
(* split too.                                                              *)
Done(t, h, s, p, t1, t2, split, key) ==
    /\ \E g, u, d : /\ Well(t2, g, u, d, h[p]) /\ Extends(t, h, s, p, t2, g, u)
                    /\ Divided(t, h, s, p, t2, split, key, g, u)
    /\ EntriesIn(t2) = EntriesIn(t1)

(* Where no sibling of p is new.                                           *)
LEMMA HeightOf ==
    ASSUME NEW t, NEW h, NEW s, NEW p, NEW i, NEW q, NEW t1, NEW g, NEW u,
           Around(t, h, s, p, i, q, t1, g, u), g \in [DOMAIN t1 -> Nat],
           NEW x \in DOMAIN t1, g[x] = h[p]
    PROVE  x \in DOMAIN t /\ h[x] = h[p]
<1>1. /\ h[q] \in Nat /\ h[p] = h[q] + 1
      /\ x \in DOMAIN t1 \ DOMAIN t => g[x] <= h[q]
      /\ x \in DOMAIN t => g[x] = h[x]
  BY DEF Around
<1>2. x \in DOMAIN t  BY <1>1
<1> QED BY <1>1, <1>2

LEMMA UpKept ==
    ASSUME NEW t, NEW h, NEW s, NEW p, NEW i, NEW q,
           NEW t1, NEW g, NEW u, NEW d, BelowDone(t, h, s, p, i, q, t1, g, u, d),
           NEW n, n.type = "inner", Len(n.children) \in 2 .. b,
           Family(n.keys, n.children, s[p], u, g, h[q]),
           NEW t2, DOMAIN t2 = DOMAIN t1, t2[p] = n,
           \A x \in DOMAIN t1 : x # p => t2[x] = t1[x], NEW key
    PROVE  Done(t, h, s, p, t1, t2, kNullNode, key)
<1>0. Well(t1, g, u, d, h[q]) /\ Around(t, h, s, p, i, q, t1, g, u)  BY DEF BelowDone
<1>1. /\ h[q] \in Nat /\ h[p] = h[q] + 1 /\ u[p] = s[p] /\ g[p] = h[p] /\ p \in DOMAIN t1
      /\ \A x \in DOMAIN t : x # p /\ h[x] = h[p] => InnerOK(t1[x], g, u, x)
      /\ DOMAIN t \subseteq DOMAIN t1
  BY <1>0 DEF Around
<1>2. /\ Numbered(t1) /\ g \in [DOMAIN t1 -> Nat] /\ u \in [DOMAIN t1 -> SUBSET Int]
      /\ Apart(g, u)
  BY <1>0 DEF Well
<1>3. g[p] = h[q] + 1  BY <1>1
<1>4. InnerOK(n, g, u, p)  BY <1>1, <1>3, FamilyInner
<1>5. \A x \in DOMAIN t2 : g[x] = h[p] => InnerOK(t2[x], g, u, x)
  <2> TAKE x \in DOMAIN t2
  <2> HAVE g[x] = h[p]
  <2>1. CASE x = p  BY <1>4, <2>1
  <2>2. CASE x # p
    <3>1. x \in DOMAIN t1 /\ t2[x] = t1[x]  BY <2>2
    <3>2. x \in DOMAIN t /\ h[x] = h[p]  BY <1>2, <3>1, <1>0, HeightOf
    <3> QED BY <1>1, <2>2, <3>1, <3>2
  <2> QED BY <2>1, <2>2
<1>6. Raised(t1, g, u, t2, g, u, h[p])
  <2>1. Numbered(t2)  BY <1>2 DEF Numbered
  <2>2. \A x \in DOMAIN t1 : g[x] # h[p] => t2[x] = t1[x]  BY <1>1
  <2> QED BY <1>2, <1>5, <2>1, <2>2 DEF Raised
<1>7. SiblingsKept(t, h, p, t1, u, t2, u)  BY <1>1 DEF SiblingsKept
<1>8. /\ Well(t2, g, u, d, h[p]) /\ Extends(t, h, s, p, t2, g, u)
      /\ EntriesIn(t2) = EntriesIn(t1)
  <2>1. Stepped(t, h, s, p, t1, t2, g, u, d)  BY <1>6, <1>7, StepUp
  <2> QED BY <2>1 DEF Stepped
<1>9. Divided(t, h, s, p, t2, kNullNode, key, g, u)  BY <1>1 DEF Divided
<1> QED BY <1>8, <1>9 DEF Done

LEMMA UpSplit ==
    ASSUME NEW t, NEW h, NEW s, NEW p, NEW i, NEW q,
           NEW t1, NEW g, NEW u, NEW d, BelowDone(t, h, s, p, i, q, t1, g, u, d),
           NEW up, up \in Keys, up \in s[p], \E x \in s[p] : x < up,
           NEW low, low.type = "inner", Len(low.children) \in 2 .. b,
           Family(low.keys, low.children, Below(s[p], up), u, g, h[q]),
           NEW high, high.type = "inner", Len(high.children) \in 2 .. b,
           Family(high.keys, high.children, From(s[p], up), u, g, h[q]),
           NEW t2, NEW new, TreeSplit(t1, p, low, new, high, t2)
    PROVE  Done(t, h, s, p, t1, t2, new, up)
<1>0. Well(t1, g, u, d, h[q]) /\ Around(t, h, s, p, i, q, t1, g, u)  BY DEF BelowDone
<1>1. /\ h[q] \in Nat /\ h[p] = h[q] + 1 /\ u[p] = s[p] /\ g[p] = h[p] /\ p \in DOMAIN t1
      /\ \A x \in DOMAIN t : x # p /\ h[x] = h[p] => InnerOK(t1[x], g, u, x)
      /\ DOMAIN t \subseteq DOMAIN t1
  BY <1>0 DEF Around
<1>2. /\ g \in [DOMAIN t1 -> Nat] /\ u \in [DOMAIN t1 -> SUBSET Int] /\ Apart(g, u)
  BY <1>0 DEF Well
<1>3. /\ DOMAIN t2 = DOMAIN t1 \cup {new} /\ t2[p] = low /\ t2[new] = high
      /\ \A x \in DOMAIN t1 : x # p => t2[x] = t1[x]
      /\ new \notin DOMAIN t1 /\ p # new /\ Numbered(t2) /\ new # kNullNode
  BY DEF TreeSplit
<1> DEFINE D == DOMAIN t1
<1>4. \E g2, u2 : SplitView(D, g, u, p, new, up, g2, u2)
  <2> DEFINE g2 == [x \in D \cup {new} |-> IF x = new THEN g[p] ELSE g[x]]
             u2 == [x \in D \cup {new} |->
                         IF x = new THEN From(u[p], up)
                         ELSE IF x = p THEN Below(u[p], up) ELSE u[x]]
  <2>1. g \in [D -> Nat] /\ u \in [D -> SUBSET Int] /\ p \in D /\ new \notin D
    BY <1>1, <1>2, <1>3
  <2>2. up \in Int /\ up \in u[p] /\ \E x \in u[p] : x < up  BY <1>1, KeysInt
  <2> HIDE DEF D
  <2>3. PICK x \in u[p] : x < up  BY <2>2
  <2>4. SplitView(D, g, u, p, new, up, g2, u2)  BY <1>2, <2>1, <2>2, <2>3, SpansApart
  <2> QED BY <2>4
<1>5. PICK g2, u2 : SplitView(DOMAIN t1, g, u, p, new, up, g2, u2)  BY <1>4
<1>6. /\ g2 \in [DOMAIN t2 -> Nat] /\ u2 \in [DOMAIN t2 -> SUBSET Int] /\ Apart(g2, u2)
      /\ \A x \in DOMAIN t1 : g2[x] = g[x] /\ (x # p => u2[x] = u[x])
      /\ g2[new] = h[p] /\ g2[p] = h[p]
      /\ u2[new] = From(s[p], up) /\ u2[p] = Below(s[p], up)
  BY <1>1, <1>3, <1>5 DEF SplitView
<1>7. DOMAIN u = DOMAIN t1 /\ DOMAIN u \subseteq DOMAIN u2  BY <1>2, <1>3, <1>6
<1>8. ASSUME NEW keys, NEW kids, NEW S, Family(keys, kids, S, u, g, h[q])
      PROVE  Family(keys, kids, S, u2, g2, h[q])
  <2>1. /\ kids \in Seq(DOMAIN u) /\ \A j \in 1 .. Len(kids) : g[kids[j]] = h[q]
    BY <1>8 DEF Family, Parts
  <2>2. \A j \in 1 .. Len(kids) : kids[j] \in DOMAIN t1  BY <1>7, <2>1
  <2>3. \A j \in 1 .. Len(kids) : u2[kids[j]] = u[kids[j]] /\ g2[kids[j]] = h[q]
    <3> TAKE j \in 1 .. Len(kids)
    <3>1. kids[j] # p  BY <1>1, <2>1
    <3> QED BY <1>6, <2>1, <2>2, <3>1
  <2>4. Family(keys, kids, S, u2, g, h[q])  BY <1>7, <1>8, <2>3, FamilyKept
  <2> QED BY <2>3, <2>4 DEF Family
<1>9. InnerOK(low, g2, u2, p)
  <2>1. Family(low.keys, low.children, Below(s[p], up), u2, g2, h[q])  BY <1>8
  <2>2. g2[p] = h[q] + 1  BY <1>1, <1>6
  <2> QED BY <1>1, <1>6, <2>1, <2>2, FamilyInner
<1>10. InnerOK(high, g2, u2, new)
  <2>1. Family(high.keys, high.children, From(s[p], up), u2, g2, h[q])  BY <1>8
  <2>2. g2[new] = h[q] + 1  BY <1>1, <1>6
  <2> QED BY <1>1, <1>6, <2>1, <2>2, FamilyInner
<1>11. ASSUME NEW x \in DOMAIN t, x # p, h[x] = h[p] PROVE InnerOK(t1[x], g2, u2, x)
  <2> DEFINE n == t1[x]
  <2>1. InnerOK(n, g, u, x) /\ x \in DOMAIN t1  BY <1>1, <1>11
  <2>2. g[x] = h[p]
    <3>1. \A y \in DOMAIN t : g[y] = h[y]  BY <1>0 DEF Around
    <3> QED BY <1>11, <3>1
  <2> HIDE DEF n
  <2>3. n.type = "inner" /\ Len(n.children) \in 2 .. b /\ Parts(n.keys, n.children, u[x], u)
        /\ \A j \in 1 .. Len(n.children) : g[n.children[j]] = g[x] - 1
    BY <2>1 DEF InnerOK
  <2>4. g[x] - 1 = h[q]  BY <1>1, <2>2
  <2>5. Family(n.keys, n.children, u[x], u, g, h[q])  BY <2>3, <2>4 DEF Family
  <2>6. Family(n.keys, n.children, u[x], u2, g2, h[q])  BY <1>8, <2>5
  <2>7. u2[x] = u[x] /\ g2[x] = h[q] + 1  BY <1>1, <1>6, <1>11, <2>1, <2>2
  <2>8. InnerOK(n, g2, u2, x)  BY <1>1, <2>3, <2>6, <2>7, FamilyInner
  <2> QED BY <2>8 DEF n
<1>12. ASSUME NEW x \in DOMAIN t2, g2[x] = h[p] PROVE InnerOK(t2[x], g2, u2, x)
  <2>1. CASE x = p  BY <1>3, <1>9, <2>1
  <2>2. CASE x = new  BY <1>3, <1>10, <2>2
  <2>3. CASE x # p /\ x # new
    <3>1. x \in DOMAIN t1 /\ t2[x] = t1[x] /\ g[x] = h[p]  BY <1>3, <1>6, <1>12, <2>3
    <3>2. x \in DOMAIN t /\ h[x] = h[p]  BY <1>2, <3>1, <1>0, HeightOf
    <3> QED BY <1>11, <2>3, <3>1, <3>2
  <2> QED BY <2>1, <2>2, <2>3
<1>13. Raised(t1, g, u, t2, g2, u2, h[p])
  <2>1. \A x \in DOMAIN t1 : g[x] # h[p] => t2[x] = t1[x] /\ u2[x] = u[x]
    BY <1>1, <1>3, <1>6
  <2>2. \A x \in DOMAIN t2 \ DOMAIN t1 : g2[x] = h[p]  BY <1>3, <1>6
  <2> QED BY <1>3, <1>6, <1>12, <2>1, <2>2 DEF Raised
<1>14. SiblingsKept(t, h, p, t1, u, t2, u2)
  <2>1. \A x \in DOMAIN t : x # p /\ h[x] = h[p] => t2[x] = t1[x] /\ u2[x] = u[x]
    BY <1>1, <1>3, <1>6
  <2> QED BY <2>1 DEF SiblingsKept
<1>15. /\ Well(t2, g2, u2, d, h[p]) /\ Extends(t, h, s, p, t2, g2, u2)
       /\ EntriesIn(t2) = EntriesIn(t1)
  <2>1. Stepped(t, h, s, p, t1, t2, g2, u2, d)  BY <1>13, <1>14, StepUp
  <2> QED BY <2>1 DEF Stepped
<1>16. Divided(t, h, s, p, t2, new, up, g2, u2)
  <2>1. new \in DOMAIN t2 \ DOMAIN t  BY <1>1, <1>3
  <2> QED BY <1>3, <1>6, <2>1 DEF Divided
<1> QED BY <1>15, <1>16 DEF Done

LEMMA DoneGrown ==
    ASSUME NEW t, NEW h, NEW s, NEW p, NEW t1, NEW o, Done(t, h, s, p, t1, o.tree, o.split, o.key),
           NEW k, NEW r, Grew(EntriesIn(t), EntriesIn(t1), <<k, r>>, o.ret),
           Answered(WithKey(EntriesIn(t), k), <<k, r>>, o.ret)
    PROVE  \E g, u, d : Grown(t, h, s, p, k, r, o, g, u, d)
<1> DEFINE t2 == o.tree
           split == o.split
           key == o.key
           ret == o.ret
           e == <<k, r>>
<1>1. Done(t, h, s, p, t1, t2, split, key)  OBVIOUS
<1>2. Grew(EntriesIn(t), EntriesIn(t1), e, ret) /\ Answered(WithKey(EntriesIn(t), k), e, ret)
  OBVIOUS
<1> HIDE DEF t2, split, key, ret, e
<1>3. EntriesIn(t2) = EntriesIn(t1)  BY <1>1 DEF Done
<1>4. PICK g, u, d : /\ Well(t2, g, u, d, h[p]) /\ Extends(t, h, s, p, t2, g, u)
                     /\ Divided(t, h, s, p, t2, split, key, g, u)
  BY <1>1 DEF Done
<1>5. Grew(EntriesIn(t), EntriesIn(t2), e, ret)  BY <1>2, <1>3
<1> QED BY <1>2, <1>4, <1>5 DEF Grown, t2, split, key, ret, e

LEMMA InnerFields ==
    ASSUME NEW x, NEW y
    PROVE  Inner(x, y).type = "inner" /\ Inner(x, y).keys = x /\ Inner(x, y).children = y
  BY DEF Inner

(* A child that has been split is to be linked.                            *)
LEMMA ChildSplitIs ==
    ASSUME NEW t, NEW h, NEW s, NEW p, NEW i, NEW q, NEW t1, NEW g, NEW u, NEW d,
           BelowDone(t, h, s, p, i, q, t1, g, u, d), q = t[p].children[i],
           NEW split, split # kNullNode, NEW key, Divided(t, h, s, q, t1, split, key, g, u)
    PROVE  ChildSplit(t[p].children, i, key, split, s, u) /\ g[split] = h[q]
<1> DEFINE kids == t[p].children
<1>1. /\ split \in DOMAIN t1 /\ g[split] = h[q] /\ key \in Keys /\ key \in s[q]
      /\ u[q] = Below(s[q], key) /\ u[split] = From(s[q], key)
  BY DEF Divided
<1>2. /\ DOMAIN s = DOMAIN t /\ DOMAIN u = DOMAIN t1 /\ DOMAIN t \subseteq DOMAIN t1
      /\ \A j \in 1 .. Len(kids) : j # i => u[kids[j]] = s[kids[j]]
      /\ q \in DOMAIN t1
  BY DEF BelowDone, Around
<1>3. u[q] # {}  BY <1>2 DEF BelowDone, Well, Apart
<1>4. \E x \in s[q] : x < key  BY <1>1, <1>3 DEF Below
<1>5. q = kids[i]  OBVIOUS
<1> HIDE DEF kids
<1>6. ChildSplit(kids, i, key, split, s, u)  BY <1>1, <1>2, <1>4, <1>5 DEF ChildSplit
<1> QED BY <1>1, <1>6 DEF kids

(* The three ways of insert_internal.                                      *)
LEMMA InternalKept ==
    ASSUME NEW t, NEW h, NEW s, NEW p, NEW i, NEW q, NEW t1, NEW g, NEW u, NEW d,
           BelowDone(t, h, s, p, i, q, t1, g, u, d), q = t[p].children[i], u[q] = s[q], NEW key
    PROVE  Done(t, h, s, p, t1, t1, kNullNode, key)
<1> DEFINE n == t[p]
           S == s[p]
           keys == n.keys
           kids == n.children
           l == h[q]
<1>1. /\ t1[p] = n /\ n.type = "inner" /\ Len(kids) \in 2 .. b
      /\ Family(keys, kids, S, s, g, l)
      /\ \A j \in 1 .. Len(kids) : j # i => u[kids[j]] = s[kids[j]]
      /\ DOMAIN s \subseteq DOMAIN u
  BY DEF BelowDone, Around
<1>2. q = kids[i] /\ u[q] = s[q]  OBVIOUS
<1> HIDE DEF kids, keys, S, l
<1>3. \A j \in 1 .. Len(kids) : u[kids[j]] = s[kids[j]]  BY <1>1, <1>2
<1>4. Family(keys, kids, S, u, g, l)  BY <1>1, <1>3, FamilyKept
<1>5. Family(n.keys, n.children, s[p], u, g, h[q]) /\ Len(n.children) \in 2 .. b
  BY <1>1, <1>4 DEF keys, kids, S, l
<1> HIDE DEF n
<1> QED BY <1>1, <1>5, UpKept

LEMMA InternalRoom ==
    ASSUME NEW t, NEW h, NEW s, NEW p, NEW i, NEW q, NEW t1, NEW g, NEW u, NEW d,
           BelowDone(t, h, s, p, i, q, t1, g, u, d), i \in 1 .. Len(t[p].children),
           NEW key, NEW split, ChildSplit(t[p].children, i, key, split, s, u), g[split] = h[q],
           Len(t[p].children) # b, NEW key2
    PROVE  Done(t, h, s, p, t1,
                [t1 EXCEPT ![p] = insert_internal_entry(t1[p], i, key, split)], kNullNode, key2)
<1> DEFINE n == t[p]
           S == s[p]
           keys == n.keys
           kids == n.children
           l == h[q]
           K == InsertAt(keys, i, key)
           C == InsertAt(kids, i + 1, split)
           v == insert_internal_entry(n, i, key, split)
           t2 == [t1 EXCEPT ![p] = v]
<1>1. /\ t1[p] = n /\ Len(kids) \in 2 .. b /\ Len(kids) # b /\ b \in Nat
      /\ Family(keys, kids, S, s, g, l) /\ S \in SUBSET Int
      /\ p \in DOMAIN t1 /\ DOMAIN s \subseteq DOMAIN u
  BY IndexTreeAssumption DEF BelowDone, Around
<1>2. i \in 1 .. Len(kids) /\ ChildSplit(kids, i, key, split, s, u) /\ g[split] = l
  OBVIOUS
<1>3. v = Inner(K, C)  BY DEF insert_internal_entry
<1> HIDE DEF kids, keys, S, l
<1>4. Family(K, C, S, u, g, l) /\ Len(C) = Len(kids) + 1  BY <1>1, <1>2, FamilyInsert
<1> HIDE DEF K, C, v
<1>5. v.type = "inner" /\ v.keys = K /\ v.children = C  BY <1>3, InnerFields
<1>6. Family(v.keys, v.children, s[p], u, g, h[q])  BY <1>4, <1>5 DEF S, l
<1>7. Len(v.children) \in 2 .. b  BY <1>1, <1>4, <1>5
<1>8. DOMAIN t2 = DOMAIN t1 /\ t2[p] = v /\ \A x \in DOMAIN t1 : x # p => t2[x] = t1[x]
  <2>1. PICK N \in Nat : DOMAIN t1 = 1 .. N  BY DEF BelowDone, Well, Numbered
  <2> QED BY <1>1, <2>1
<1>9. [t1 EXCEPT ![p] = insert_internal_entry(t1[p], i, key, split)] = t2  BY <1>1 DEF v
<1> HIDE DEF t2
<1>10. Done(t, h, s, p, t1, t2, kNullNode, key2)  BY <1>5, <1>6, <1>7, <1>8, UpKept
<1> QED BY <1>9, <1>10

(* The halves of a node, of which one takes the new child.                 *)
ChildrenHalved(keys, kids, c, m, i, key, split, S, u, g, l) ==
    LET up == keys[m + 1]
        lk == SubSeq(keys, 1, m)
        lc == SubSeq(kids, 1, m + 1)
        hk == SubSeq(keys, m + 2, c - 1)
        hc == SubSeq(kids, m + 2, c)
        j == i - (m + 1)
    IN  /\ up \in Keys /\ up \in S /\ \E x \in S : x < up
        /\ Len(lc) = m + 1 /\ Len(hc) = c - (m + 1)
        /\ i <= m + 1 => /\ Family(InsertAt(lk, i, key), InsertAt(lc, i + 1, split),
                                    Below(S, up), u, g, l)
                         /\ Len(InsertAt(lc, i + 1, split)) = m + 2
                         /\ Family(hk, hc, From(S, up), u, g, l)
        /\ i > m + 1 => /\ Family(lk, lc, Below(S, up), u, g, l)
                        /\ Family(InsertAt(hk, j, key), InsertAt(hc, j + 1, split),
                                  From(S, up), u, g, l)
                        /\ Len(InsertAt(hc, j + 1, split)) = c - m

LEMMA HalfBounds ==
    ASSUME NEW c \in Nat, NEW m \in 1 .. c - 3, NEW i \in 1 .. c
    PROVE  /\ m \in Nat /\ m \in 0 .. c - 2 /\ m + 1 \in Nat /\ c - (m + 1) \in Nat /\ i \in Nat
           /\ 0 + (m + 1) <= c /\ (m + 1) + (c - (m + 1)) <= c /\ i - 0 = i
  OBVIOUS

LEMMA InternalHalves ==
    ASSUME NEW t, NEW h, NEW s, NEW p, NEW i, NEW q, NEW t1, NEW g, NEW u, NEW d,
           BelowDone(t, h, s, p, i, q, t1, g, u, d), i \in 1 .. Len(t[p].children),
           NEW key, NEW split, ChildSplit(t[p].children, i, key, split, s, u), g[split] = h[q],
           NEW keys, keys = t[p].keys, NEW kids, kids = t[p].children,
           NEW c, c = Len(kids), NEW m \in 1 .. c - 3
    PROVE  ChildrenHalved(keys, kids, c, m, i, key, split, s[p], u, g, h[q])
<1> DEFINE S == s[p]
           l == h[q]
           up == keys[m + 1]
           lk == SubSeq(keys, 1, m)
           lc == SubSeq(kids, 1, m + 1)
           hk == SubSeq(keys, m + 2, c - 1)
           hc == SubSeq(kids, m + 2, c)
           a == m + 1
           j == i - a
           X == DOMAIN s
           B == Below(S, up)
           F == From(S, up)
<1>1. /\ Family(keys, kids, S, s, g, l) /\ S \in SUBSET Int /\ s[kids[1]] # {}
      /\ X \subseteq DOMAIN u
  BY DEF BelowDone, Around
<1>2. c \in Nat /\ m \in Nat /\ m \in 0 .. c - 2 /\ a \in Nat /\ c - a \in Nat /\ i \in 1 .. c
      /\ 0 + a <= Len(kids) /\ a + (c - a) <= Len(kids) /\ c = Len(kids) /\ i \in Nat
      /\ i - 0 = i
  <2> DEFINE n == Len(keys)
             z == Len(kids)
  <2>1. z = n + 1 /\ n \in Nat  BY <1>1, PartsFacts DEF Family
  <2>2. c = z /\ i \in 1 .. z  OBVIOUS
  <2> HIDE DEF n, z
  <2>3. c \in Nat /\ i \in 1 .. c  BY <2>1, <2>2
  <2>4. /\ m \in Nat /\ m \in 0 .. c - 2 /\ a \in Nat /\ c - a \in Nat /\ i \in Nat
        /\ 0 + a <= c /\ a + (c - a) <= c /\ i - 0 = i
    BY <2>3, HalfBounds
  <2> QED BY <2>2, <2>3, <2>4 DEF z
<1>3. /\ Family(lk, lc, B, s, g, l) /\ Family(hk, hc, F, s, g, l)
      /\ IsPart(X, kids, 0, a, lc) /\ IsPart(X, kids, a, c - a, hc)
      /\ up \in Keys /\ up \in S /\ \E x \in S : x < up
  <2> HIDE DEF S, l
  <2> QED BY <1>1, <1>2, FamilyHalves
<1>4. ChildSplit(kids, i, key, split, s, u) /\ g[split] = l  OBVIOUS
<1>5. B \in SUBSET Int /\ F \in SUBSET Int  BY <1>1 DEF Below, From
<1>6. Len(lc) = a /\ Len(hc) = c - a  BY <1>3 DEF IsPart
<1> HIDE DEF S, l, up, lk, lc, hk, hc, B, F, X
<1>7. /\ i \in 1 .. a => ChildSplit(lc, i, key, split, s, u)
      /\ i \notin 1 .. a => \A z \in 1 .. a : u[lc[z]] = s[lc[z]]
  <2> DEFINE y == 0
  <2>1. y \in Nat /\ y + a <= Len(kids) /\ i - y = i /\ IsPart(X, kids, y, a, lc)
        /\ i \in 1 .. Len(kids) /\ Len(kids) \in Nat
    BY <1>2, <1>3
  <2> HIDE DEF a, y
  <2>2. SplitAmong(lc, a, i - y, key, split, s, u)  BY <1>2, <1>4, <2>1, PartSplit
  <2> QED BY <2>1, <2>2 DEF SplitAmong
<1>8. /\ j \in 1 .. c - a => ChildSplit(hc, j, key, split, s, u)
      /\ j \notin 1 .. c - a => \A z \in 1 .. c - a : u[hc[z]] = s[hc[z]]
  <2> DEFINE N == c - a
  <2>1. N \in Nat /\ a + N <= Len(kids) /\ Len(kids) \in Nat /\ IsPart(X, kids, a, N, hc)
        /\ i \in 1 .. Len(kids)
    BY <1>2, <1>3
  <2> HIDE DEF a, N
  <2>2. SplitAmong(hc, N, i - a, key, split, s, u)  BY <1>2, <1>4, <2>1, PartSplit
  <2> QED BY <2>2 DEF SplitAmong, N
<1>9. ASSUME i <= a
      PROVE  /\ Family(InsertAt(lk, i, key), InsertAt(lc, i + 1, split), B, u, g, l)
             /\ Len(InsertAt(lc, i + 1, split)) = a + 1
             /\ Family(hk, hc, F, u, g, l)
  <2>1. i \in 1 .. a /\ j \notin 1 .. c - a  BY <1>2, <1>9
  <2>2. ChildSplit(lc, i, key, split, s, u) /\ i \in 1 .. Len(lc)  BY <1>2, <1>6, <1>7, <2>1
  <2>3. \A z \in 1 .. Len(hc) : u[hc[z]] = s[hc[z]]  BY <1>6, <1>8, <2>1
  <2> HIDE DEF a, j
  <2>4. Family(hk, hc, F, u, g, l)  BY <1>1, <1>3, <2>3, FamilyKept DEF X
  <2>5. /\ Family(InsertAt(lk, i, key), InsertAt(lc, i + 1, split), B, u, g, l)
        /\ Len(InsertAt(lc, i + 1, split)) = Len(lc) + 1
    BY <1>3, <1>4, <1>5, <2>2, FamilyInsert
  <2> QED BY <1>6, <2>4, <2>5
<1>10. ASSUME i > a
       PROVE  /\ Family(lk, lc, B, u, g, l)
              /\ Family(InsertAt(hk, j, key), InsertAt(hc, j + 1, split), F, u, g, l)
              /\ Len(InsertAt(hc, j + 1, split)) = (c - a) + 1
  <2>1. i \notin 1 .. a /\ j \in 1 .. c - a  BY <1>2, <1>10
  <2>2. ChildSplit(hc, j, key, split, s, u) /\ j \in 1 .. Len(hc)  BY <1>6, <1>8, <2>1
  <2>3. \A z \in 1 .. Len(lc) : u[lc[z]] = s[lc[z]]  BY <1>2, <1>6, <1>7, <2>1
  <2> HIDE DEF a, j
  <2>4. Family(lk, lc, B, u, g, l)  BY <1>1, <1>3, <2>3, FamilyKept DEF X
  <2>5. /\ Family(InsertAt(hk, j, key), InsertAt(hc, j + 1, split), F, u, g, l)
        /\ Len(InsertAt(hc, j + 1, split)) = Len(hc) + 1
    BY <1>3, <1>4, <1>5, <2>2, FamilyInsert
  <2> QED BY <1>6, <2>4, <2>5
<1>11. a + 1 = m + 2 /\ (c - a) + 1 = c - m  BY <1>2
<1> QED BY <1>3, <1>6, <1>9, <1>10, <1>11
        DEF S, l, up, lk, lc, hk, hc, B, F, ChildrenHalved

(* A full node p: its children are halved at m, and the new one goes into  *)
(* either half.                                                            *)
HalvedAt(kids, keys, i, m, key, split, low, high) ==
    LET c == Len(kids)
        l == Inner(SubSeq(keys, 1, m), SubSeq(kids, 1, m + 1))
        h == Inner(SubSeq(keys, m + 2, c - 1), SubSeq(kids, m + 2, c))
    IN  \/ i <= m + 1 /\ low = insert_internal_entry(l, i, key, split) /\ high = h
        \/ i > m + 1 /\ low = l /\ high = insert_internal_entry(h, i - (m + 1), key, split)

LEMMA InternalFull ==
    ASSUME NEW t, NEW h, NEW s, NEW p, NEW i, NEW q, NEW t1, NEW g, NEW u, NEW d,
           BelowDone(t, h, s, p, i, q, t1, g, u, d), i \in 1 .. Len(t[p].children),
           NEW key, NEW split, ChildSplit(t[p].children, i, key, split, s, u), g[split] = h[q],
           Len(t[p].children) = b,
           NEW m \in 1 .. b - 3, NEW low, NEW high,
           HalvedAt(t[p].children, t[p].keys, i, m, key, split, low, high)
    PROVE  Done(t, h, s, p, t1,
                WithNode([t1 EXCEPT ![p] = low], NextPage(t1), high),
                NextPage(t1), t[p].keys[m + 1])
<1> DEFINE keys == t[p].keys
           kids == t[p].children
           S == s[p]
           l == h[q]
           up == keys[m + 1]
           lk == SubSeq(keys, 1, m)
           lc == SubSeq(kids, 1, m + 1)
           hk == SubSeq(keys, m + 2, b - 1)
           hc == SubSeq(kids, m + 2, b)
           j == i - (m + 1)
           lk2 == InsertAt(lk, i, key)
           lc2 == InsertAt(lc, i + 1, split)
           hk2 == InsertAt(hk, j, key)
           hc2 == InsertAt(hc, j + 1, split)
           B == Below(S, up)
           F == From(S, up)
           new == NextPage(t1)
           t2 == WithNode([t1 EXCEPT ![p] = low], new, high)
<1>1. /\ up \in Keys /\ up \in S /\ \E x \in S : x < up
      /\ Len(lc) = m + 1 /\ Len(hc) = b - (m + 1)
      /\ i <= m + 1 => /\ Family(lk2, lc2, B, u, g, l)
                       /\ Len(lc2) = m + 2
                       /\ Family(hk, hc, F, u, g, l)
      /\ i > m + 1 => /\ Family(lk, lc, B, u, g, l)
                      /\ Family(hk2, hc2, F, u, g, l)
                      /\ Len(hc2) = b - m
  <2>1. m \in 1 .. b - 3 /\ b = Len(kids) /\ keys = t[p].keys /\ kids = t[p].children  OBVIOUS
  <2>2. i \in 1 .. Len(kids) /\ ChildSplit(kids, i, key, split, s, u)  OBVIOUS
  <2> HIDE DEF keys, kids
  <2>3. ChildrenHalved(keys, kids, b, m, i, key, split, s[p], u, g, h[q])
    BY <2>1, <2>2, InternalHalves
  <2> QED BY <2>3 DEF ChildrenHalved
<1>2. b \in Nat /\ b >= 4 /\ m \in Nat /\ m <= b - 3 /\ m >= 1 /\ Len(kids) = b
  BY IndexTreeAssumption
<1>3. \/ /\ i <= m + 1
         /\ low = insert_internal_entry(Inner(lk, lc), i, key, split) /\ high = Inner(hk, hc)
      \/ /\ i > m + 1
         /\ low = Inner(lk, lc) /\ high = insert_internal_entry(Inner(hk, hc), j, key, split)
  BY DEF HalvedAt
<1> HIDE DEF keys, kids, S, l, up, lk, lc, hk, hc, lk2, lc2, hk2, hc2, B, F
<1>4. /\ low.type = "inner" /\ Len(low.children) \in 2 .. b
      /\ Family(low.keys, low.children, B, u, g, l)
      /\ high.type = "inner" /\ Len(high.children) \in 2 .. b
      /\ Family(high.keys, high.children, F, u, g, l)
  <2>1. CASE i <= m + 1
    <3>1. low = Inner(lk2, lc2)
      <4>1. low = insert_internal_entry(Inner(lk, lc), i, key, split)  BY <1>3, <2>1
      <4> QED BY <4>1, InnerFields DEF insert_internal_entry, lk2, lc2
    <3>2. high = Inner(hk, hc)  BY <1>3, <2>1
    <3>3. low.type = "inner" /\ low.keys = lk2 /\ low.children = lc2  BY <3>1, InnerFields
    <3>4. high.type = "inner" /\ high.keys = hk /\ high.children = hc  BY <3>2, InnerFields
    <3>5. Len(lc2) \in 2 .. b /\ Len(hc) \in 2 .. b  BY <1>1, <1>2, <2>1
    <3> QED BY <1>1, <2>1, <3>3, <3>4, <3>5
  <2>2. CASE i > m + 1
    <3>1. high = Inner(hk2, hc2)
      <4>1. high = insert_internal_entry(Inner(hk, hc), j, key, split)  BY <1>3, <2>2
      <4> HIDE DEF j
      <4> QED BY <4>1, InnerFields DEF insert_internal_entry, hk2, hc2
    <3>2. low = Inner(lk, lc)  BY <1>3, <2>2
    <3>3. low.type = "inner" /\ low.keys = lk /\ low.children = lc  BY <3>2, InnerFields
    <3>4. high.type = "inner" /\ high.keys = hk2 /\ high.children = hc2  BY <3>1, InnerFields
    <3>5. Len(lc) \in 2 .. b /\ Len(hc2) \in 2 .. b  BY <1>1, <1>2, <2>2
    <3> QED BY <1>1, <2>2, <3>3, <3>4, <3>5
  <2> QED BY <1>3, <2>1, <2>2
<1>5. TreeSplit(t1, p, low, new, high, t2)
  <2>1. Numbered(t1) /\ p \in DOMAIN t1  BY DEF BelowDone, Well, Around
  <2> QED BY <2>1, TreeSplitIs
<1> HIDE DEF new, t2
<1>6. Done(t, h, s, p, t1, t2, new, up)
  BY <1>1, <1>4, <1>5, UpSplit DEF S, l, B, F
<1> QED BY <1>6 DEF t2, new, up, keys

LEMMA HalfRange ==
    ASSUME NEW i \in Nat
    PROVE  LET half == b \div 2 - 1
           IN  (IF half + 1 < b - half - 1 /\ half + 2 <= i THEN half + 1 ELSE half) \in 1 .. b - 3
<1>1. b \in Nat /\ b >= 4  BY IndexTreeAssumption
<1> DEFINE z == b \div 2
<1>2. z \in Nat /\ 2 * z <= b /\ b < 2 * z + 2 /\ z >= 2  BY <1>1
<1> HIDE DEF z
<1>3. z - 1 \in 1 .. b - 3  BY <1>1, <1>2
<1>4. (z - 1) + 1 < b - (z - 1) - 1 => (z - 1) + 1 \in 1 .. b - 3  BY <1>1, <1>2
<1>5. (IF (z - 1) + 1 < b - (z - 1) - 1 /\ (z - 1) + 2 <= i THEN (z - 1) + 1 ELSE z - 1)
         \in 1 .. b - 3
  BY <1>3, <1>4
<1> QED BY <1>5 DEF z

(* Whatever the insertion below p has come to, insert_internal brings it   *)
(* up to p.                                                                *)
LEMMA InternalUp ==
    ASSUME NEW t, NEW h, NEW s, NEW c, NEW H, Well(t, h, s, c, H),
           NEW p \in DOMAIN t, h[p] > 0, h[p] <= H, NEW k \in Keys, k \in s[p], NEW r,
           NEW q, q = t[p].children[FirstAbove(t[p].keys, k)],
           NEW below, NEW g, NEW u, NEW d, Grown(t, h, s, q, k, r, below, g, u, d)
    PROVE  \E g2, u2, d2 : Grown(t, h, s, p, k, r, insert_internal(p, k, below), g2, u2, d2)
<1> DEFINE t1 == below.tree
           split == below.split
           key == below.key
           ret == below.ret
           n == t[p]
           i == FirstAbove(n.keys, k)
           kids == n.children
           o == insert_internal(p, k, below)
<1>1. /\ Well(t1, g, u, d, h[q]) /\ Extends(t, h, s, q, t1, g, u)
      /\ Divided(t, h, s, q, t1, split, key, g, u)
      /\ Grew(EntriesIn(t), EntriesIn(t1), <<k, r>>, ret)
      /\ Answered(WithKey(EntriesIn(t), k), <<k, r>>, ret)
  BY DEF Grown
<1>2. q = kids[i] /\ i \in 1 .. Len(kids)
  <2>1. InnerOK(n, h, s, p) /\ s[p] \in SUBSET Int  BY DEF Well
  <2>2. Parts(n.keys, kids, s[p], s)  BY <2>1 DEF InnerOK
  <2> HIDE DEF n, kids
  <2>3. i \in 1 .. Len(kids)  BY <2>1, <2>2, ChildSpans
  <2> QED BY <2>3 DEF n, kids
<1> HIDE DEF t1
<1>3. Around(t, h, s, p, i, q, t1, g, u)
  <2> HIDE DEF i
  <2> QED BY <1>1, <1>2, AroundIs
<1>4. BelowDone(t, h, s, p, i, q, t1, g, u, d)  BY <1>1, <1>3 DEF BelowDone
<1>5. t1[p] = n  BY <1>3 DEF Around
<1> SUFFICES Done(t, h, s, p, t1, o.tree, o.split, o.key) /\ o.ret = ret
  <2> HIDE DEF o, ret
  <2> QED BY <1>1, DoneGrown DEF o
<1>6. CASE split = kNullNode
  <2>1. o = below  BY <1>6 DEF insert_internal
  <2>2. u[q] = s[q]  BY <1>1, <1>6 DEF Divided
  <2> HIDE DEF i, o
  <2>3. Done(t, h, s, p, t1, t1, kNullNode, key)  BY <1>2, <1>4, <2>2, InternalKept
  <2> QED BY <1>6, <2>1, <2>3 DEF t1
<1>7. CASE split # kNullNode
  <2>1. ChildSplit(kids, i, key, split, s, u) /\ g[split] = h[q]
    <3> DEFINE j == i
    <3>1. Divided(t, h, s, q, t1, split, key, g, u)  BY <1>1
    <3>2. q = t[p].children[j] /\ BelowDone(t, h, s, p, j, q, t1, g, u, d)  BY <1>2, <1>4
    <3> HIDE DEF j, split, key
    <3>3. ChildSplit(t[p].children, j, key, split, s, u)  BY <1>7, <3>1, <3>2, ChildSplitIs
    <3>4. g[split] = h[q]  BY <1>7, <3>1 DEF Divided
    <3> QED BY <3>3, <3>4 DEF j
  <2>2. CASE Len(kids) # b
    <3> DEFINE t2 == [t1 EXCEPT ![p] = insert_internal_entry(t1[p], i, key, split)]
    <3>1. o = Outcome(t2, kNullNode, 0, ret)
      BY <1>5, <1>7, <2>2 DEF insert_internal, t1, MustSplit
    <3>2. Done(t, h, s, p, t1, t2, kNullNode, o.key)
      <4> DEFINE okey == o.key
      <4> HIDE DEF i, key, split, o, okey
      <4>1. Done(t, h, s, p, t1, t2, kNullNode, okey)
        BY <1>2, <1>4, <2>1, <2>2, InternalRoom
      <4> QED BY <4>1 DEF okey
    <3> HIDE DEF t2, o, ret
    <3> QED BY <3>1, <3>2, OutcomeFields
  <2>3. CASE Len(kids) = b
    <3> DEFINE half == b \div 2 - 1
               m == IF half + 1 < b - half - 1 /\ half + 2 <= i THEN half + 1 ELSE half
               lo == Inner(SubSeq(n.keys, 1, m), SubSeq(kids, 1, m + 1))
               hi == Inner(SubSeq(n.keys, m + 2, b - 1), SubSeq(kids, m + 2, b))
               low == IF i <= m + 1 THEN insert_internal_entry(lo, i, key, split) ELSE lo
               high == IF i <= m + 1 THEN hi
                       ELSE insert_internal_entry(hi, i - (m + 1), key, split)
               new == NextPage(t1)
               up == n.keys[m + 1]
               t2 == WithNode([t1 EXCEPT ![p] = low], new, high)
    <3>1. i \in Nat /\ b \in Nat
      <4> HIDE DEF i
      <4> QED BY <1>2, IndexTreeAssumption
    <3>2. m \in 1 .. b - 3
      <4> HIDE DEF i
      <4> QED BY <3>1, HalfRange
    <3>3. o = Outcome(t2, new, up, ret)
      <4>1. i <= m + 1 => o = Outcome(t2, new, up, ret)
        BY <1>5, <1>7, <2>3 DEF insert_internal, t1, MustSplit, KeyUp
      <4>2. ~(i <= m + 1) => o = Outcome(t2, new, up, ret)
        BY <1>5, <1>7, <2>3 DEF insert_internal, t1, MustSplit, KeyUp
      <4> QED BY <4>1, <4>2
    <3>4. HalvedAt(kids, n.keys, i, m, key, split, low, high)
      <4>1. i <= m + 1 \/ i > m + 1
        <5> HIDE DEF i, m
        <5> QED BY <3>1, <3>2
      <4> QED BY <2>3, <4>1 DEF HalvedAt
    <3>5. Done(t, h, s, p, t1, t2, new, up)
      <4> HIDE DEF i, key, split, m, low, high
      <4> QED BY <1>2, <1>4, <2>1, <2>3, <3>2, <3>4, InternalFull
    <3> HIDE DEF t2, new, up, o, ret
    <3> QED BY <3>3, <3>5, OutcomeFields
  <2> QED BY <2>2, <2>3
<1> QED BY <1>6, <1>7

----------------------------------------------------------------------------
(* The recursive functions of the model have values: what they are called  *)
(* for is lower, or earlier, at every step.                                *)
LEMMA AllNumbers ==
    ASSUME NEW T \in SUBSET Nat, 0 \in T, \A n \in T : n + 1 \in T
    PROVE  T = Nat
<1> SUFFICES ASSUME Nat \ T # {} PROVE FALSE  OBVIOUS
<1>1. PICK m \in Nat \ T : \A x \in Nat \ T : m <= x
  <2>1. Nat \ T \in SUBSET Nat  OBVIOUS
  <2> QED BY <2>1, LeastNat
<1>2. m # 0 /\ m - 1 \in Nat /\ (m - 1) + 1 = m  BY <1>1
<1>3. m - 1 \in T  BY <1>1, <1>2
<1> QED BY <1>1, <1>2, <1>3

(* From a node above the leaves, kid goes one level down.                  *)
Descends(D, h, kid) ==
    /\ h \in [D -> Nat]
    /\ \A q \in D : h[q] > 0 => kid[q] \in D /\ h[kid[q]] = h[q] - 1

Prepend(q, path) == <<q>> \o path

(* The way down, for nodes up to height n.                                 *)
PathsUpTo(D, h, kid, n, f) ==
    \A q \in D : h[q] <= n => f[q] = IF h[q] = 0 THEN <<q>> ELSE Prepend(q, f[kid[q]])

LEMMA PathsExist ==
    ASSUME NEW D, NEW h, NEW kid, Descends(D, h, kid), NEW H \in Nat, \A q \in D : h[q] <= H
    PROVE  \E f : f = [q \in D |-> IF h[q] = 0 THEN <<q>> ELSE Prepend(q, f[kid[q]])]
<1> DEFINE T == {n \in Nat : \E f : PathsUpTo(D, h, kid, n, f)}
<1>1. h \in [D -> Nat] /\ \A q \in D : h[q] > 0 => kid[q] \in D /\ h[kid[q]] = h[q] - 1
  BY DEF Descends
<1>2. 0 \in T
  <2> DEFINE f == [q \in D |-> <<q>>]
  <2>1. \A q \in D : h[q] <= 0 => h[q] = 0  BY <1>1
  <2>2. PathsUpTo(D, h, kid, 0, f)  BY <2>1 DEF PathsUpTo
  <2> QED BY <2>2
<1>3. ASSUME NEW n \in T PROVE n + 1 \in T
  <2>1. n \in Nat /\ \E f : PathsUpTo(D, h, kid, n, f)  BY <1>3
  <2>2. PICK f : PathsUpTo(D, h, kid, n, f)  BY <2>1
  <2> DEFINE f2 == [q \in D |-> IF h[q] <= n THEN f[q] ELSE Prepend(q, f[kid[q]])]
  <2>3. ASSUME NEW q \in D, h[q] <= n + 1
        PROVE  f2[q] = IF h[q] = 0 THEN <<q>> ELSE Prepend(q, f2[kid[q]])
    <3>1. h[q] \in Nat  BY <1>1
    <3>0. h[q] <= n => f[q] = IF h[q] = 0 THEN <<q>> ELSE Prepend(q, f[kid[q]])
      BY <2>2 DEF PathsUpTo
    <3>2. CASE h[q] = 0
      <4>2. h[q] <= n  BY <2>1, <3>2
      <4>1. f[q] = <<q>>  BY <3>0, <3>2, <4>2
      <4> QED BY <3>2, <4>1, <4>2
    <3>3. CASE h[q] > 0
      <4>1. kid[q] \in D /\ h[kid[q]] <= n  BY <1>1, <2>1, <2>3, <3>1, <3>3
      <4>2. f2[kid[q]] = f[kid[q]]  BY <4>1
      <4>3. f2[q] = Prepend(q, f[kid[q]])
        <5>1. CASE h[q] <= n
          <6>1. f[q] = Prepend(q, f[kid[q]])  BY <3>0, <3>1, <3>3, <5>1
          <6> QED BY <5>1, <6>1
        <5>2. CASE ~(h[q] <= n)  BY <5>2
        <5> QED BY <5>1, <5>2
      <4> HIDE DEF f2
      <4> QED BY <3>3, <4>2, <4>3
    <3> QED BY <3>1, <3>2, <3>3
  <2>4. PathsUpTo(D, h, kid, n + 1, f2)
    <3> HIDE DEF f2
    <3> QED BY <2>3 DEF PathsUpTo
  <2> QED BY <2>1, <2>4
<1>4. H \in T
  <2>1. T \in SUBSET Nat  OBVIOUS
  <2> HIDE DEF T
  <2>2. T = Nat  BY <1>2, <1>3, <2>1, AllNumbers
  <2> QED BY <2>2
<1>5. PICK f : PathsUpTo(D, h, kid, H, f)  BY <1>4
<1> DEFINE F == [q \in D |-> f[q]]
<1>6. ASSUME NEW q \in D PROVE F[q] = IF h[q] = 0 THEN <<q>> ELSE Prepend(q, F[kid[q]])
  <2>1. F[q] = IF h[q] = 0 THEN <<q>> ELSE Prepend(q, f[kid[q]])  BY <1>5 DEF PathsUpTo
  <2>2. h[q] # 0 => F[kid[q]] = f[kid[q]]  BY <1>1
  <2> QED BY <2>1, <2>2
<1>7. F = [q \in D |-> IF h[q] = 0 THEN <<q>> ELSE Prepend(q, F[kid[q]])]
  <2>1. F = [q \in D |-> F[q]]  OBVIOUS
  <2> HIDE DEF F
  <2> QED BY <1>6, <2>1
<1> QED BY <1>7

(* The node in which a value below inner node q is looked for next.        *)
Toward(t, q, k) == t[q].children[FirstAbove(t[q].keys, k)]

LEMMA TowardIs ==
    ASSUME NEW t, NEW h, NEW s, NEW c, NEW H, Well(t, h, s, c, H), NEW k \in Int,
           NEW q \in DOMAIN t, h[q] > 0, h[q] <= H
    PROVE  /\ Toward(t, q, k) \in DOMAIN t /\ h[Toward(t, q, k)] = h[q] - 1
           /\ k \in s[q] => k \in s[Toward(t, q, k)]
<1> DEFINE keys == t[q].keys
           kids == t[q].children
           i == FirstAbove(keys, k)
<1>1. /\ Parts(keys, kids, s[q], s) /\ \A j \in 1 .. Len(kids) : h[kids[j]] = h[q] - 1
      /\ s[q] \in SUBSET Int /\ DOMAIN s = DOMAIN t /\ Toward(t, q, k) = kids[i]
  BY DEF Well, InnerOK, Toward
<1> HIDE DEF keys, kids
<1>2. keys \in Seq(Int) /\ Sorted(keys) /\ Len(kids) = Len(keys) + 1
      /\ \A j \in 1 .. Len(keys) + 1 : kids[j] \in DOMAIN s
  BY <1>1, PartsFacts
<1>3. i \in 1 .. Len(kids)  BY <1>2, FirstAboveIs
<1>4. k \in s[q] => k \in s[kids[i]]  BY <1>1, ChildSpans
<1> QED BY <1>1, <1>2, <1>3, <1>4

PathIs(t, k, f) ==
    \A q \in DOMAIN t : f[q] = IF t[q].type = "leaf" THEN <<q>> ELSE Prepend(q, f[Toward(t, q, k)])

LEMMA PathInIs ==
    ASSUME NEW t, NEW h, NEW s, NEW c, NEW H \in Nat, Well(t, h, s, c, H),
           \A q \in DOMAIN t : h[q] <= H, NEW k \in Int
    PROVE  \E f : PathIs(t, k, f) /\ \A p : PathIn(t, p, k) = f[p]
<1> DEFINE D == DOMAIN t
           kid == [q \in D |-> Toward(t, q, k)]
           F(f) == [q \in D |-> IF t[q].type = "leaf" THEN <<q>>
                               ELSE <<q>> \o f[t[q].children[FirstAbove(t[q].keys, k)]]]
           down == CHOOSE f : f = F(f)
<1>1. Descends(D, h, kid)
  <2>1. h \in [D -> Nat]  BY DEF Well
  <2>2. ASSUME NEW q \in D, h[q] > 0 PROVE kid[q] \in D /\ h[kid[q]] = h[q] - 1
    <3>1. kid[q] = Toward(t, q, k) /\ h[q] <= H  OBVIOUS
    <3>2. Toward(t, q, k) \in D /\ h[Toward(t, q, k)] = h[q] - 1  BY <2>2, <3>1, TowardIs
    <3> HIDE DEF kid
    <3> QED BY <3>1, <3>2
  <2> HIDE DEF kid, D
  <2> QED BY <2>1, <2>2 DEF Descends
<1>2. PICK f : f = [q \in D |-> IF h[q] = 0 THEN <<q>> ELSE Prepend(q, f[kid[q]])]
  <2> HIDE DEF kid
  <2> QED BY <1>1, PathsExist
<1>3. f = F(f)
  <2>1. \A q \in D : t[q].type = "leaf" <=> h[q] = 0  BY LeafIff
  <2>2. \A q \in D : kid[q] = t[q].children[FirstAbove(t[q].keys, k)]  BY DEF Toward
  <2> HIDE DEF kid
  <2>3. F(f) = [q \in D |-> IF h[q] = 0 THEN <<q>> ELSE Prepend(q, f[kid[q]])]
    BY <2>1, <2>2 DEF Prepend
  <2> QED BY <1>2, <2>3
<1>4. down = F(down)  BY <1>3
<1>5. \A p : PathIn(t, p, k) = down[p]  BY DEF PathIn
<1>6. PathIs(t, k, down)
  <2> HIDE DEF down
  <2> QED BY <1>4 DEF PathIs, Toward, Prepend
<1> QED BY <1>5, <1>6

IsPrepended(X, q, w, v) ==
    /\ v \in Seq(X) /\ Len(v) = Len(w) + 1 /\ v[1] = q
    /\ \A i \in 1 .. Len(w) + 1 : i # 1 => i - 1 \in 1 .. Len(w) /\ v[i] = w[i - 1]

LEMMA PrependIs ==
    ASSUME NEW X, NEW q \in X, NEW w \in Seq(X)
    PROVE  IsPrepended(X, q, w, Prepend(q, w))
<1> DEFINE v == <<q>> \o w
<1>1. v = Prepend(q, w)  BY DEF Prepend
<1>2. <<q>> \in Seq(X) /\ Len(<<q>>) = 1 /\ <<q>>[1] = q /\ Len(w) \in Nat  OBVIOUS
<1>3. v \in Seq(X) /\ Len(v) = Len(w) + 1  BY <1>2
<1>4. v[1] = q  BY <1>2
<1>5. \A i \in 1 .. Len(w) : v[i + 1] = w[i]  BY <1>2
<1>6. \A i \in 1 .. Len(w) + 1 : i # 1 => i - 1 \in 1 .. Len(w) /\ v[i] = w[i - 1]
  <2> TAKE i \in 1 .. Len(w) + 1
  <2> HAVE i # 1
  <2>1. i - 1 \in 1 .. Len(w) /\ (i - 1) + 1 = i  BY <1>2
  <2>2. v[(i - 1) + 1] = w[i - 1]  BY <1>5, <2>1
  <2> QED BY <2>1, <2>2
<1> HIDE DEF v
<1> QED BY <1>1, <1>3, <1>4, <1>6 DEF IsPrepended

(* The nodes w lead from q down to a leaf, each within the span that has   *)
(* k.                                                                      *)
Leads(t, h, s, q, k, w) ==
    /\ w \in Seq(DOMAIN t) /\ Len(w) = h[q] + 1 /\ w[1] = q
    /\ \A i \in 1 .. Len(w) : h[w[i]] = h[q] + 1 - i /\ k \in s[w[i]]
    /\ \A i \in 1 .. Len(w) : i # 1 => w[i] = Toward(t, w[i - 1], k)

LEMMA LeadsDown ==
    ASSUME NEW t, NEW h \in [DOMAIN t -> Nat], NEW s, NEW q \in DOMAIN t, NEW k, k \in s[q],
           NEW v \in DOMAIN t, v = Toward(t, q, k), h[v] = h[q] - 1,
           NEW w, Leads(t, h, s, v, k, w)
    PROVE  Leads(t, h, s, q, k, Prepend(q, w))
<1> DEFINE y == Prepend(q, w)
           a == h[q]
           l == Len(w)
<1>1. /\ w \in Seq(DOMAIN t) /\ l = h[v] + 1 /\ w[1] = v
      /\ \A i \in 1 .. l : h[w[i]] = h[v] + 1 - i /\ k \in s[w[i]]
      /\ \A i \in 1 .. l : i # 1 => w[i] = Toward(t, w[i - 1], k)
  BY DEF Leads
<1>2. /\ y \in Seq(DOMAIN t) /\ Len(y) = l + 1 /\ y[1] = q
      /\ \A i \in 1 .. l + 1 : i # 1 => i - 1 \in 1 .. l /\ y[i] = w[i - 1]
  <2>1. IsPrepended(DOMAIN t, q, w, y)  BY <1>1, PrependIs
  <2> QED BY <2>1 DEF IsPrepended
<1>3. a \in Nat /\ l = a /\ l \in Nat /\ h[v] = a - 1  BY <1>1
<1> HIDE DEF y, a, l
<1>4. ASSUME NEW i \in 1 .. l + 1 PROVE h[y[i]] = a + 1 - i /\ k \in s[y[i]]
  <2>1. CASE i = 1  BY <1>2, <1>3, <2>1 DEF a
  <2>2. CASE i # 1
    <3>1. i - 1 \in 1 .. l /\ y[i] = w[i - 1]  BY <1>2, <2>2
    <3>2. h[w[i - 1]] = h[v] + 1 - (i - 1) /\ k \in s[w[i - 1]]  BY <1>1, <3>1
    <3> QED BY <1>3, <3>1, <3>2
  <2> QED BY <2>1, <2>2
<1>5. ASSUME NEW i \in 1 .. l + 1, i # 1 PROVE y[i] = Toward(t, y[i - 1], k)
  <2>1. i - 1 \in 1 .. l /\ y[i] = w[i - 1] /\ i - 1 \in 1 .. l + 1  BY <1>2, <1>3, <1>5
  <2>2. CASE i - 1 = 1
    <3>1. y[i - 1] = q /\ y[i] = v  BY <1>1, <1>2, <2>1, <2>2
    <3> QED BY <3>1
  <2>3. CASE i - 1 # 1
    <3>1. y[i - 1] = w[(i - 1) - 1]  BY <1>2, <2>1, <2>3
    <3>2. w[i - 1] = Toward(t, w[(i - 1) - 1], k)  BY <1>1, <2>1, <2>3
    <3> QED BY <2>1, <3>1, <3>2
  <2> QED BY <2>2, <2>3
<1> QED BY <1>2, <1>3, <1>4, <1>5 DEF Leads, y, a

LEMMA PathLeads ==
    ASSUME NEW t, NEW h, NEW s, NEW c, NEW H \in Nat, Well(t, h, s, c, H),
           \A q \in DOMAIN t : h[q] <= H, NEW k \in Int, NEW q \in DOMAIN t, k \in s[q]
    PROVE  Leads(t, h, s, q, k, PathIn(t, q, k))
<1>1. PICK f : PathIs(t, k, f) /\ \A p : PathIn(t, p, k) = f[p]  BY PathInIs
<1>2. h \in [DOMAIN t -> Nat]  BY DEF Well
<1> DEFINE T == {n \in Nat : \A p \in DOMAIN t :
                                h[p] = n /\ k \in s[p] => Leads(t, h, s, p, k, f[p])}
<1>3. ASSUME NEW p \in DOMAIN t
      PROVE  /\ h[p] = 0 => f[p] = <<p>>
             /\ h[p] > 0 => f[p] = Prepend(p, f[Toward(t, p, k)])
  <2>1. f[p] = IF t[p].type = "leaf" THEN <<p>> ELSE Prepend(p, f[Toward(t, p, k)])
    BY <1>1 DEF PathIs
  <2>2. t[p].type = "leaf" <=> h[p] = 0  BY LeafIff
  <2>3. h[p] > 0 => h[p] # 0  BY <1>2
  <2> QED BY <2>1, <2>2, <2>3
<1>4. 0 \in T
  <2>1. ASSUME NEW p \in DOMAIN t, h[p] = 0, k \in s[p] PROVE Leads(t, h, s, p, k, f[p])
    <3>1. f[p] = <<p>>  BY <1>3, <2>1
    <3>2. <<p>> \in Seq(DOMAIN t) /\ Len(<<p>>) = 1 /\ <<p>>[1] = p  OBVIOUS
    <3>3. \A i \in 1 .. 1 : i = 1 /\ h[p] = 0 + 1 - i  BY <2>1
    <3> QED BY <2>1, <3>1, <3>2, <3>3 DEF Leads
  <2> QED BY <2>1
<1>5. ASSUME NEW n \in T PROVE n + 1 \in T
  <2>1. n \in Nat /\ \A p \in DOMAIN t : h[p] = n /\ k \in s[p] => Leads(t, h, s, p, k, f[p])
    BY <1>5
  <2>2. ASSUME NEW p \in DOMAIN t, h[p] = n + 1, k \in s[p] PROVE Leads(t, h, s, p, k, f[p])
    <3> DEFINE v == Toward(t, p, k)
    <3>1. h[p] > 0 /\ h[p] <= H  BY <2>1, <2>2
    <3>2. v \in DOMAIN t /\ h[v] = h[p] - 1 /\ k \in s[v]  BY <2>2, <3>1, TowardIs
    <3>3. Leads(t, h, s, v, k, f[v])
      <4>1. h[v] = n  BY <2>1, <2>2, <3>2
      <4> QED BY <2>1, <3>2, <4>1
    <3>4. f[p] = Prepend(p, f[v])  BY <1>3, <3>1
    <3> DEFINE w == f[v]
    <3>5. v = Toward(t, p, k) /\ Leads(t, h, s, v, k, w)  BY <3>3
    <3> HIDE DEF v, w
    <3>6. Leads(t, h, s, p, k, Prepend(p, w))  BY <1>2, <2>2, <3>2, <3>5, LeadsDown
    <3> QED BY <3>4, <3>6 DEF w
  <2> HIDE DEF Leads
  <2> QED BY <2>1, <2>2
<1>6. h[q] \in T
  <2>1. T \in SUBSET Nat  OBVIOUS
  <2> HIDE DEF T
  <2>2. T = Nat  BY <1>4, <1>5, <2>1, AllNumbers
  <2> QED BY <1>2, <2>2
<1>7. Leads(t, h, s, q, k, f[q])  BY <1>6
<1> QED BY <1>1, <1>7

(* The way down to the left.                                               *)
DownUpTo(D, h, kid, n, f) ==
    \A q \in D : h[q] <= n => f[q] = IF h[q] = 0 THEN q ELSE f[kid[q]]

LEMMA DownExists ==
    ASSUME NEW D, NEW h, NEW kid, Descends(D, h, kid), NEW H \in Nat, \A q \in D : h[q] <= H
    PROVE  \E f : f = [q \in D |-> IF h[q] = 0 THEN q ELSE f[kid[q]]]
<1> DEFINE T == {n \in Nat : \E f : DownUpTo(D, h, kid, n, f)}
<1>1. h \in [D -> Nat] /\ \A q \in D : h[q] > 0 => kid[q] \in D /\ h[kid[q]] = h[q] - 1
  BY DEF Descends
<1>2. 0 \in T
  <2> DEFINE f == [q \in D |-> q]
  <2>1. \A q \in D : h[q] <= 0 => h[q] = 0  BY <1>1
  <2>2. DownUpTo(D, h, kid, 0, f)  BY <2>1 DEF DownUpTo
  <2> QED BY <2>2
<1>3. ASSUME NEW n \in T PROVE n + 1 \in T
  <2>1. n \in Nat /\ \E f : DownUpTo(D, h, kid, n, f)  BY <1>3
  <2>2. PICK f : DownUpTo(D, h, kid, n, f)  BY <2>1
  <2> DEFINE f2 == [q \in D |-> IF h[q] = 0 THEN q ELSE IF h[q] <= n THEN f[q] ELSE f[kid[q]]]
  <2>3. ASSUME NEW q \in D, h[q] <= n + 1
        PROVE  f2[q] = IF h[q] = 0 THEN q ELSE f2[kid[q]]
    <3>1. h[q] \in Nat  BY <1>1
    <3>2. CASE h[q] = 0  BY <3>2
    <3>3. CASE h[q] > 0
      <4> DEFINE v == kid[q]
      <4>1. v \in D /\ h[v] <= n  BY <1>1, <2>1, <2>3, <3>1, <3>3
      <4>2. f[v] = IF h[v] = 0 THEN v ELSE f[kid[v]]  BY <2>2, <4>1 DEF DownUpTo
      <4> HIDE DEF v
      <4>3. f2[v] = f[v]  BY <4>1, <4>2
      <4>4. f2[q] = f[v]
        <5>0. h[q] <= n => f[q] = f[v]  BY <2>2, <3>3 DEF DownUpTo, v
        <5>1. CASE h[q] <= n  BY <3>3, <5>0, <5>1
        <5>2. CASE ~(h[q] <= n)  BY <3>3, <5>2 DEF v
        <5> QED BY <5>1, <5>2
      <4> HIDE DEF f2
      <4> QED BY <3>3, <4>3, <4>4 DEF v
    <3> QED BY <3>1, <3>2, <3>3
  <2>4. DownUpTo(D, h, kid, n + 1, f2)
    <3> HIDE DEF f2
    <3> QED BY <2>3 DEF DownUpTo
  <2> QED BY <2>1, <2>4
<1>4. H \in T
  <2>1. T \in SUBSET Nat  OBVIOUS
  <2> HIDE DEF T
  <2>2. T = Nat  BY <1>2, <1>3, <2>1, AllNumbers
  <2> QED BY <2>2
<1>5. PICK f : DownUpTo(D, h, kid, H, f)  BY <1>4
<1> DEFINE F == [q \in D |-> f[q]]
<1>6. ASSUME NEW q \in D PROVE F[q] = IF h[q] = 0 THEN q ELSE F[kid[q]]
  <2>1. F[q] = IF h[q] = 0 THEN q ELSE f[kid[q]]  BY <1>5 DEF DownUpTo
  <2>2. h[q] # 0 => F[kid[q]] = f[kid[q]]  BY <1>1
  <2> QED BY <2>1, <2>2
<1>7. F = [q \in D |-> IF h[q] = 0 THEN q ELSE F[kid[q]]]
  <2>1. F = [q \in D |-> F[q]]  OBVIOUS
  <2> HIDE DEF F
  <2> QED BY <1>6, <2>1
<1> QED BY <1>7

DownClosed(S) == \A x \in S, y \in Int : y <= x => y \in S

(* A tree from its root: all that has been lost lies above the values that *)
(* lead from there.                                                        *)
WellRooted(t, r, l, h, s, c) ==
    /\ r \in DOMAIN t /\ h[r] \in Nat /\ Well(t, h, s, c, h[r]) /\ \A p \in DOMAIN t : h[p] <= h[r]
    /\ DownClosed(s[r]) /\ (~l => s[r] = Int)

LEMMA FirstChild ==
    ASSUME NEW t, NEW h, NEW s, NEW c, NEW H, Well(t, h, s, c, H),
           NEW q \in DOMAIN t, h[q] > 0, h[q] <= H
    PROVE  /\ t[q].children[1] \in DOMAIN t /\ h[t[q].children[1]] = h[q] - 1
           /\ DownClosed(s[q]) => DownClosed(s[t[q].children[1]])
<1> DEFINE keys == t[q].keys
           kids == t[q].children
           S == s[q]
<1>1. /\ Parts(keys, kids, S, s) /\ \A j \in 1 .. Len(kids) : h[kids[j]] = h[q] - 1
      /\ S \in SUBSET Int /\ DOMAIN s = DOMAIN t
  BY DEF Well, InnerOK
<1> HIDE DEF keys, kids, S
<1>2. /\ keys \in Seq(Int) /\ Len(keys) \in Nat /\ Len(kids) = Len(keys) + 1
      /\ \A j \in 1 .. Len(keys) + 1 : kids[j] \in DOMAIN s /\ s[kids[j]] = Slice(S, keys, j)
  BY <1>1, PartsFacts
<1>3. 1 \in 1 .. Len(kids) /\ kids[1] \in DOMAIN t /\ s[kids[1]] = Slice(S, keys, 1)
  <2>1. 1 \in 1 .. Len(keys) + 1  BY <1>2
  <2> QED BY <1>1, <1>2, <2>1
<1>4. ASSUME DownClosed(S) PROVE DownClosed(s[kids[1]])
  <2> SUFFICES ASSUME NEW x \in Slice(S, keys, 1), NEW y \in Int, y <= x
               PROVE  y \in Slice(S, keys, 1)
    BY <1>3 DEF DownClosed
  <2>1. x \in S /\ (1 <= Len(keys) => x < keys[1])  BY DEF Slice
  <2>2. y \in S  BY <1>4, <2>1 DEF DownClosed
  <2>3. 1 <= Len(keys) => y < keys[1]
    <3>1. x \in Int  BY <1>1, <2>1
    <3>2. 1 <= Len(keys) => keys[1] \in Int  BY <1>2
    <3> QED BY <2>1, <3>1, <3>2
  <2> QED BY <2>2, <2>3 DEF Slice
<1> QED BY <1>1, <1>3, <1>4 DEF keys, kids, S

LEMMA LeftmostLeafIs ==
    ASSUME NEW h, NEW s, NEW c, WellRooted(tree, root, lost, h, s, c)
    PROVE  Len(c) \in Nat /\ 1 \in 1 .. Len(c) /\ LeftmostLeaf = c[1]
<1> DEFINE D == DOMAIN tree
           H == h[root]
           kid == [q \in D |-> tree[q].children[1]]
           F(f) == [q \in D |-> IF tree[q].type = "leaf" THEN q ELSE f[tree[q].children[1]]]
           down == CHOOSE f : f = F(f)
<1>1. /\ root \in D /\ H \in Nat /\ Well(tree, h, s, c, H) /\ \A q \in D : h[q] <= H
      /\ DownClosed(s[root])
  BY DEF WellRooted
<1>2. /\ h \in [D -> Nat] /\ s \in [D -> SUBSET Int] /\ Apart(h, s) /\ ChainOK(tree, h, s, c)
  BY <1>1 DEF Well
<1> HIDE DEF H
<1>3. ASSUME NEW q \in D, h[q] > 0
      PROVE  /\ tree[q].children[1] \in D /\ h[tree[q].children[1]] = h[q] - 1
             /\ DownClosed(s[q]) => DownClosed(s[tree[q].children[1]])
  <2>1. h[q] <= H  BY <1>1
  <2> QED BY <1>1, <1>3, <2>1, FirstChild
<1>4. PICK f : f = [q \in D |-> IF h[q] = 0 THEN q ELSE f[kid[q]]]
  <2>1. Descends(D, h, kid)  BY <1>2, <1>3 DEF Descends
  <2> HIDE DEF kid, D
  <2> QED BY <1>1, <2>1, DownExists
<1>5. \A q \in D : tree[q].type = "leaf" <=> h[q] = 0  BY <1>1, LeafIff
<1>6. down = F(down)
  <2>1. \A q \in D : kid[q] = tree[q].children[1]  OBVIOUS
  <2> HIDE DEF kid
  <2>2. F(f) = [q \in D |-> IF h[q] = 0 THEN q ELSE f[kid[q]]]  BY <1>5, <2>1
  <2>3. f = F(f)  BY <1>4, <2>2
  <2> QED BY <2>3
<1>7. LeftmostLeaf = down[root]  BY DEF LeftmostLeaf
<1>8. ASSUME NEW q \in D
      PROVE  /\ h[q] = 0 => down[q] = q
             /\ h[q] > 0 => down[q] = down[tree[q].children[1]]
  <2> HIDE DEF down
  <2>1. down[q] = IF tree[q].type = "leaf" THEN q ELSE down[tree[q].children[1]]  BY <1>6
  <2>2. h[q] > 0 => h[q] # 0  BY <1>2
  <2> QED BY <1>5, <2>1, <2>2
<1> HIDE DEF down
<1> DEFINE T == {n \in Nat : \A q \in D : h[q] = n /\ DownClosed(s[q]) =>
                                down[q] \in D /\ h[down[q]] = 0 /\ DownClosed(s[down[q]])}
<1>9. 0 \in T  BY <1>8
<1>10. ASSUME NEW n \in T PROVE n + 1 \in T
  <2>1. n \in Nat /\ \A q \in D : h[q] = n /\ DownClosed(s[q]) =>
                       down[q] \in D /\ h[down[q]] = 0 /\ DownClosed(s[down[q]])
    BY <1>10
  <2>2. ASSUME NEW q \in D, h[q] = n + 1, DownClosed(s[q])
        PROVE  down[q] \in D /\ h[down[q]] = 0 /\ DownClosed(s[down[q]])
    <3>1. h[q] > 0  BY <2>1, <2>2
    <3> DEFINE v == tree[q].children[1]
    <3>2. v \in D /\ h[v] = n /\ DownClosed(s[v]) /\ down[q] = down[v]
      <4>1. v \in D /\ h[v] = h[q] - 1 /\ DownClosed(s[v]) /\ down[q] = down[v]
        BY <1>3, <1>8, <2>2, <3>1
      <4> QED BY <2>1, <2>2, <4>1
    <3> HIDE DEF v
    <3> QED BY <2>1, <3>2
  <2> QED BY <2>1, <2>2
<1>11. H \in T
  <2>1. T \in SUBSET Nat  OBVIOUS
  <2> HIDE DEF T
  <2>2. T = Nat  BY <1>9, <1>10, <2>1, AllNumbers
  <2> QED BY <1>1, <2>2
<1> DEFINE p == down[root]
<1>12. p \in D /\ h[p] = 0 /\ DownClosed(s[p])  BY <1>1, <1>11 DEF H
<1> HIDE DEF p
<1>13. /\ c \in Seq(D) /\ \E i \in 1 .. Len(c) : c[i] = p
       /\ \A q \in D : (\E i \in 1 .. Len(c) : c[i] = q) => h[q] = 0
       /\ \A i, j \in 1 .. Len(c) : i < j => \A x \in s[c[i]], y \in s[c[j]] : x < y
  BY <1>2, <1>12 DEF ChainOK
<1>14. PICK i \in 1 .. Len(c) : c[i] = p  BY <1>13
<1>15. Len(c) \in Nat /\ 1 \in 1 .. Len(c) /\ c[1] \in D /\ h[c[1]] = 0  BY <1>13, <1>14
<1>16. i = 1
  <2> SUFFICES ASSUME i # 1 PROVE FALSE  OBVIOUS
  <2>1. 1 < i  BY <1>15
  <2>2. s[c[1]] # {} /\ s[p] # {} /\ s[c[1]] \subseteq Int /\ s[p] \subseteq Int
    BY <1>2, <1>12, <1>15 DEF Apart
  <2>3. PICK x \in s[c[1]], y \in s[p] : TRUE  BY <2>2
  <2>4. x < y  BY <1>13, <1>14, <1>15, <2>1
  <2>5. x \in Int /\ y \in Int /\ x <= y  BY <2>2, <2>4
  <2>6. x \in s[p]  BY <1>12, <2>5 DEF DownClosed
  <2>7. x < x  BY <1>13, <1>14, <1>15, <2>1, <2>6
  <2> QED BY <2>5, <2>7
<1> QED BY <1>7, <1>14, <1>15, <1>16 DEF p

----------------------------------------------------------------------------
(* Insertion, from the leaf up to the root and above it.                   *)
UpFrom(t, w, k, r, n, m, f) ==
    \A i \in 1 .. n : n - i <= m =>
        f[i] = IF i = n THEN insert_leaf(t, w[i], k, r) ELSE insert_internal(w[i], k, f[i + 1])

UpIs(t, w, k, r, n, f) ==
    f = [i \in 1 .. n |-> IF i = n THEN insert_leaf(t, w[i], k, r)
                          ELSE insert_internal(w[i], k, f[i + 1])]

LEMMA UpExists ==
    ASSUME NEW t, NEW w, NEW k, NEW r, NEW n \in Nat
    PROVE  \E f : UpIs(t, w, k, r, n, f)
<1> DEFINE T == {m \in Nat : \E f : UpFrom(t, w, k, r, n, m, f)}
<1>1. 0 \in T
  <2> DEFINE f == [i \in 1 .. n |-> insert_leaf(t, w[i], k, r)]
  <2>1. \A i \in 1 .. n : n - i <= 0 => i = n  OBVIOUS
  <2>2. UpFrom(t, w, k, r, n, 0, f)  BY <2>1 DEF UpFrom
  <2> QED BY <2>2
<1>2. ASSUME NEW m \in T PROVE m + 1 \in T
  <2>1. m \in Nat /\ \E f : UpFrom(t, w, k, r, n, m, f)  BY <1>2
  <2>2. PICK f : UpFrom(t, w, k, r, n, m, f)  BY <2>1
  <2> DEFINE f2 == [i \in 1 .. n |->
                      IF n - i <= m THEN f[i] ELSE insert_internal(w[i], k, f[i + 1])]
  <2>3. ASSUME NEW i \in 1 .. n, n - i <= m + 1
        PROVE  f2[i] = IF i = n THEN insert_leaf(t, w[i], k, r)
                       ELSE insert_internal(w[i], k, f2[i + 1])
    <3>1. n - i <= m => f[i] = IF i = n THEN insert_leaf(t, w[i], k, r)
                               ELSE insert_internal(w[i], k, f[i + 1])
      BY <2>2 DEF UpFrom
    <3>2. CASE i = n
      <4>1. n - i <= m  BY <2>1, <3>2
      <4> QED BY <3>1, <3>2, <4>1
    <3>3. CASE i # n
      <4>1. i + 1 \in 1 .. n /\ n - (i + 1) <= m  BY <2>1, <2>3, <3>3
      <4>2. f2[i + 1] = f[i + 1]  BY <4>1
      <4>3. f2[i] = insert_internal(w[i], k, f[i + 1])
        <5>1. CASE n - i <= m  BY <3>1, <3>3, <5>1
        <5>2. CASE ~(n - i <= m)  BY <5>2
        <5> QED BY <5>1, <5>2
      <4> HIDE DEF f2
      <4> QED BY <3>3, <4>2, <4>3
    <3> QED BY <3>2, <3>3
  <2>4. UpFrom(t, w, k, r, n, m + 1, f2)
    <3> HIDE DEF f2
    <3> QED BY <2>3 DEF UpFrom
  <2> QED BY <2>1, <2>4
<1>3. n \in T
  <2>1. T \in SUBSET Nat  OBVIOUS
  <2> HIDE DEF T
  <2>2. T = Nat  BY <1>1, <1>2, <2>1, AllNumbers
  <2> QED BY <2>2
<1>4. PICK f : UpFrom(t, w, k, r, n, n, f)  BY <1>3
<1> DEFINE F == [i \in 1 .. n |-> f[i]]
<1>5. ASSUME NEW i \in 1 .. n
      PROVE  F[i] = IF i = n THEN insert_leaf(t, w[i], k, r) ELSE insert_internal(w[i], k, F[i + 1])
  <2>1. n - i <= n  OBVIOUS
  <2>2. F[i] = IF i = n THEN insert_leaf(t, w[i], k, r) ELSE insert_internal(w[i], k, f[i + 1])
    BY <1>4, <2>1 DEF UpFrom
  <2>3. i # n => F[i + 1] = f[i + 1]
    <3>1. i # n => i + 1 \in 1 .. n  OBVIOUS
    <3> QED BY <3>1
  <2> HIDE DEF F
  <2> QED BY <2>2, <2>3
<1>6. F = [i \in 1 .. n |-> IF i = n THEN insert_leaf(t, w[i], k, r)
                            ELSE insert_internal(w[i], k, F[i + 1])]
  <2>1. F = [i \in 1 .. n |-> F[i]]  OBVIOUS
  <2> HIDE DEF F
  <2> QED BY <1>5, <2>1
<1>7. UpIs(t, w, k, r, n, F)
  <2> HIDE DEF F
  <2> QED BY <1>6 DEF UpIs
<1> QED BY <1>7

LEMMA InsertLeafGrown ==
    ASSUME NEW t, NEW h, NEW s, NEW c, NEW H, Well(t, h, s, c, H),
           NEW p \in DOMAIN t, h[p] = 0, NEW k \in Keys, k \in s[p], NEW r \in Rids
    PROVE  \E g, u, d : Grown(t, h, s, p, k, r, insert_leaf(t, p, k, r), g, u, d)
<1>1. CASE Len(t[p].keys) # b - 1  BY <1>1, InsertLeafRoom
<1>2. CASE Len(t[p].keys) = b - 1  BY <1>2, InsertLeafFull
<1> QED BY <1>1, <1>2

(* What Insertion makes of the outcome of inserting below the root.        *)
Finished(from, done) ==
    LET new == NextPage(done.tree)
        grows == done.split # kNullNode /\ done.ret = "OK"
    IN  [tree |-> IF grows THEN WithNode(done.tree, new, Inner(<<done.key>>, <<from, done.split>>))
                  ELSE done.tree,
         root |-> IF grows THEN new ELSE from,
         ret |-> done.ret,
         lost |-> done.split # kNullNode /\ ~grows]

GrownBelow(t, h, s, from, k, r, x) ==
    \E done, g, u, d : /\ Grown(t, h, s, from, k, r, done, g, u, d)
                       /\ x = Finished(from, done)

LEMMA InsertionGrown ==
    ASSUME NEW t, NEW h, NEW s, NEW c, NEW from \in DOMAIN t, NEW l,
           WellRooted(t, from, l, h, s, c),
           NEW k \in Keys, k \in s[from], NEW r \in Rids
    PROVE  GrownBelow(t, h, s, from, k, r, Insertion(t, from, k, r))
<1> DEFINE H == h[from]
           w == PathIn(t, from, k)
           n == Len(w)
           F(f) == [i \in DOMAIN w |-> IF i = n THEN insert_leaf(t, w[i], k, r)
                                       ELSE insert_internal(w[i], k, f[i + 1])]
           up == CHOOSE f : f = F(f)
<1>1. Well(t, h, s, c, H) /\ H \in Nat /\ \A p \in DOMAIN t : h[p] <= H  BY DEF WellRooted
<1>2. k \in Int  BY IndexTreeAssumption
<1>3. Leads(t, h, s, from, k, w)
  <2> HIDE DEF w, H
  <2> QED BY <1>1, <1>2, PathLeads DEF w
<1>4. /\ w \in Seq(DOMAIN t) /\ n = H + 1 /\ w[1] = from /\ DOMAIN w = 1 .. n /\ n \in Nat
      /\ \A i \in 1 .. n : w[i] \in DOMAIN t /\ h[w[i]] = H + 1 - i /\ k \in s[w[i]]
      /\ \A i \in 1 .. n : i # 1 => w[i] = Toward(t, w[i - 1], k)
  <2> HIDE DEF w
  <2>1. /\ w \in Seq(DOMAIN t) /\ n = H + 1 /\ w[1] = from
        /\ \A i \in 1 .. n : h[w[i]] = H + 1 - i /\ k \in s[w[i]]
        /\ \A i \in 1 .. n : i # 1 => w[i] = Toward(t, w[i - 1], k)
    BY <1>3 DEF Leads
  <2> QED BY <2>1
<1>5. Insertion(t, from, k, r) = Finished(from, up[1])  BY DEF Insertion, Finished
<1> HIDE DEF w, n
<1>6. up = F(up)
  <2>0. n \in Nat /\ DOMAIN w = 1 .. n  BY <1>4
  <2>1. \E f : UpIs(t, w, k, r, n, f)  BY <2>0, UpExists
  <2>2. \E f : f = F(f)  BY <2>0, <2>1 DEF UpIs
  <2> QED BY <2>2
<1> HIDE DEF up, H
<1>7. \A i \in 1 .. n : up[i] = IF i = n THEN insert_leaf(t, w[i], k, r)
                                ELSE insert_internal(w[i], k, up[i + 1])
  BY <1>4, <1>6
<1> DEFINE Good(i) == \E g, u, d : Grown(t, h, s, w[i], k, r, up[i], g, u, d)
           T == {m \in Nat : m < n => Good(n - m)}
<1>8. 0 \in T
  <2> SUFFICES ASSUME 0 < n PROVE Good(n)  BY <1>4
  <2>1. w[n] \in DOMAIN t /\ h[w[n]] = 0 /\ k \in s[w[n]]  BY <1>1, <1>4
  <2>2. up[n] = insert_leaf(t, w[n], k, r)  BY <1>4, <1>7
  <2> DEFINE p == w[n]
  <2> HIDE DEF p
  <2>3. \E g, u, d : Grown(t, h, s, p, k, r, insert_leaf(t, p, k, r), g, u, d)
    BY <1>1, <2>1, InsertLeafGrown DEF p
  <2> QED BY <2>2, <2>3 DEF p
<1>9. ASSUME NEW m \in T PROVE m + 1 \in T
  <2>1. m \in Nat /\ (m < n => Good(n - m))  BY <1>9
  <2> SUFFICES ASSUME m + 1 < n PROVE Good(n - (m + 1))  BY <2>1
  <2> DEFINE i == n - (m + 1)
             p == w[i]
             q == w[i + 1]
             below == up[i + 1]
  <2>2. i \in 1 .. n /\ i + 1 \in 1 .. n /\ i # n /\ i + 1 = n - m /\ m < n /\ i + 1 # 1
        /\ (i + 1) - 1 = i /\ i < H + 1
    BY <1>4, <2>1
  <2> HIDE DEF i
  <2>3. \E g, u, d : Grown(t, h, s, q, k, r, below, g, u, d)  BY <2>1, <2>2
  <2>4. p \in DOMAIN t /\ h[p] > 0 /\ h[p] <= H /\ k \in s[p] /\ q = Toward(t, p, k)
    <3>1. p \in DOMAIN t /\ h[p] = H + 1 - i /\ k \in s[p]  BY <1>4, <2>2
    <3>2. q = Toward(t, w[(i + 1) - 1], k)  BY <1>4, <2>2
    <3> QED BY <1>1, <2>2, <3>1, <3>2
  <2>5. up[i] = insert_internal(p, k, below)  BY <1>7, <2>2
  <2> HIDE DEF p, q, below
  <2>6. q = t[p].children[FirstAbove(t[p].keys, k)]  BY <2>4 DEF Toward
  <2>7. \E g, u, d : Grown(t, h, s, p, k, r, insert_internal(p, k, below), g, u, d)
    <3>1. PICK g, u, d : Grown(t, h, s, q, k, r, below, g, u, d)  BY <2>3
    <3> QED BY <1>1, <2>4, <2>6, <3>1, InternalUp
  <2> QED BY <2>5, <2>7 DEF p, i
<1>10. Good(1)
  <2>1. T \in SUBSET Nat  OBVIOUS
  <2>2. n - 1 \in Nat /\ n - 1 < n /\ n - (n - 1) = 1  BY <1>1, <1>4
  <2> HIDE DEF T, Good
  <2>3. T = Nat  BY <1>8, <1>9, <2>1, AllNumbers
  <2>4. Good(n - (n - 1))  BY <2>2, <2>3 DEF T
  <2> QED BY <2>2, <2>4
<1> QED BY <1>4, <1>5, <1>10 DEF GrownBelow

(* A root above from and the node split off it.                            *)
RootParted(t1, g, u, d, H, from, split, key) ==
    /\ H \in Nat /\ Well(t1, g, u, d, H) /\ \A x \in DOMAIN t1 : g[x] <= H
    /\ from \in DOMAIN t1 /\ split \in DOMAIN t1 /\ from # split
    /\ g[from] = H /\ g[split] = H
    /\ key \in Keys /\ u[from] = Below(Int, key) /\ u[split] = From(Int, key)

RootGrown(t1, t2, new, d) ==
    \E g2, u2 : WellRooted(t2, new, FALSE, g2, u2, d) /\ EntriesIn(t2) = EntriesIn(t1)

LEMMA NewRoot ==
    ASSUME NEW t1, NEW g, NEW u, NEW d, NEW H, NEW from, NEW split, NEW key,
           RootParted(t1, g, u, d, H, from, split, key),
           NEW new, new = NextPage(t1),
           NEW node, node = Inner(<<key>>, <<from, split>>)
    PROVE  RootGrown(t1, WithNode(t1, new, node), new, d)
<1>0. /\ H \in Nat /\ Well(t1, g, u, d, H) /\ \A x \in DOMAIN t1 : g[x] <= H
      /\ from \in DOMAIN t1 /\ split \in DOMAIN t1 /\ from # split
      /\ g[from] = H /\ g[split] = H
      /\ key \in Keys /\ u[from] = Below(Int, key) /\ u[split] = From(Int, key)
  BY DEF RootParted
<1> DEFINE L == H + 1
           t2 == WithNode(t1, new, node)
           g2 == [x \in DOMAIN t1 \cup {new} |-> IF x = new THEN L ELSE g[x]]
           u2 == [x \in DOMAIN t1 \cup {new} |-> IF x = new THEN Int ELSE u[x]]
<1>1. /\ Numbered(t1) /\ g \in [DOMAIN t1 -> Nat] /\ u \in [DOMAIN t1 -> SUBSET Int]
      /\ Apart(g, u)
  BY <1>0 DEF Well
<1>2. PICK N \in Nat : DOMAIN t1 = 1 .. N  BY <1>1 DEF Numbered
<1>3. new \notin DOMAIN t1 /\ DOMAIN t1 \cup {new} = 1 .. N + 1  BY <1>2, NextPageIs
<1>4. DOMAIN t2 = DOMAIN t1 \cup {new} /\ t2[new] = node
      /\ \A x \in DOMAIN t1 : t2[x] = t1[x]
  BY <1>3 DEF WithNode
<1>5. /\ g2 \in [DOMAIN t2 -> Nat] /\ u2 \in [DOMAIN t2 -> SUBSET Int]
      /\ g2[new] = L /\ u2[new] = Int
      /\ \A x \in DOMAIN t1 : g2[x] = g[x] /\ u2[x] = u[x]
      /\ DOMAIN u2 = DOMAIN t2 /\ DOMAIN g2 = DOMAIN t2
  <2> HIDE DEF t2
  <2>1. L \in Nat  BY <1>0
  <2> HIDE DEF L
  <2>2. g2 \in [DOMAIN t2 -> Nat] /\ u2 \in [DOMAIN t2 -> SUBSET Int]
    BY <1>1, <1>3, <1>4, <2>1
  <2>3. DOMAIN u2 = DOMAIN t2 /\ DOMAIN g2 = DOMAIN t2  BY <1>4
  <2>4. g2[new] = L /\ u2[new] = Int  OBVIOUS
  <2>5. \A x \in DOMAIN t1 : g2[x] = g[x] /\ u2[x] = u[x]  BY <1>3
  <2> QED BY <2>2, <2>3, <2>4, <2>5
<1> HIDE DEF g2, u2, t2
<1>6. \A x \in DOMAIN t1 : g[x] # L /\ g[x] \in Nat  BY <1>0, <1>1
<1>7. Apart(g2, u2)
  <2>1. \A x \in DOMAIN g2 : u2[x] # {}  BY <1>1, <1>4, <1>5 DEF Apart
  <2>2. ASSUME NEW x \in DOMAIN g2, NEW y \in DOMAIN g2, x # y, g2[x] = g2[y]
        PROVE  u2[x] \cap u2[y] = {}
    <3>1. x # new /\ y # new  BY <1>4, <1>5, <1>6, <2>2
    <3>2. x \in DOMAIN t1 /\ y \in DOMAIN t1  BY <1>4, <1>5, <3>1
    <3> QED BY <1>1, <1>5, <2>2, <3>2 DEF Apart
  <2> QED BY <2>1, <2>2 DEF Apart
<1>8. InnerOK(t2[new], g2, u2, new)
  <2> DEFINE keys == <<key>>
             kids == <<from, split>>
  <2>1. node.type = "inner" /\ node.keys = keys /\ node.children = kids
    <3> HIDE DEF keys, kids
    <3> QED BY InnerFields DEF keys, kids
  <2>2. key \in Int  BY <1>0, IndexTreeAssumption
  <2>3. /\ keys \in Seq(Keys) /\ Len(keys) = 1 /\ keys[1] = key
        /\ kids \in Seq(DOMAIN u2) /\ Len(kids) = 2 /\ kids[1] = from /\ kids[2] = split
        /\ DOMAIN keys = 1 .. 1
    BY <1>0, <1>4, <1>5
  <2> HIDE DEF keys, kids
  <2>4. Sorted(keys)
    <3>1. \A i, j \in 1 .. 1 : ~(i < j)  OBVIOUS
    <3> QED BY <2>3, <3>1 DEF Sorted
  <2>5. u2[from] = Slice(Int, keys, 1)
    <3>1. \A x : x \in Below(Int, key) <=> x \in Slice(Int, keys, 1)
      BY <2>3 DEF Below, Slice
    <3>2. Below(Int, key) = Slice(Int, keys, 1)  BY <3>1
    <3> QED BY <1>0, <1>5, <3>2
  <2>6. u2[split] = Slice(Int, keys, 2)
    <3>1. \A x : x \in From(Int, key) <=> x \in Slice(Int, keys, 2)
      BY <2>3, <2>2 DEF From, Slice
    <3>2. From(Int, key) = Slice(Int, keys, 2)  BY <3>1
    <3> QED BY <1>0, <1>5, <3>2
  <2>7. ASSUME NEW j \in 1 .. 2 PROVE u2[kids[j]] = Slice(Int, keys, j) /\ g2[kids[j]] = L - 1
    <3>1. g2[from] = H /\ g2[split] = H /\ L - 1 = H  BY <1>0, <1>5
    <3>2. CASE j = 1  BY <2>3, <2>5, <3>1, <3>2
    <3>3. CASE j = 2  BY <2>3, <2>6, <3>1, <3>3
    <3> QED BY <3>2, <3>3
  <2>8. Parts(keys, kids, Int, u2)
    <3>1. \A i \in 1 .. Len(keys) : keys[i] \in Int  BY <2>2, <2>3
    <3> QED BY <2>3, <2>4, <2>7, <3>1 DEF Parts
  <2>9. b >= 4 /\ b \in Nat  BY IndexTreeAssumption
  <2>10. Len(kids) \in 2 .. b  BY <2>3, <2>9
  <2>11. \A j \in 1 .. Len(kids) : g2[kids[j]] = g2[new] - 1  BY <1>5, <2>3, <2>7
  <2> HIDE DEF L
  <2> QED BY <1>4, <1>5, <2>1, <2>8, <2>10, <2>11 DEF InnerOK
<1>9. Numbered(t2)
  <2>1. N + 1 \in Nat /\ DOMAIN t2 = 1 .. N + 1  BY <1>2, <1>3, <1>4
  <2> QED BY <2>1 DEF Numbered
<1>10. Raised(t1, g, u, t2, g2, u2, L)
  <2>1. \A x \in DOMAIN t2 : g2[x] = L => x = new  BY <1>4, <1>5, <1>6
  <2>2. \A x \in DOMAIN t2 \ DOMAIN t1 : g2[x] = L  BY <1>4, <1>5
  <2> HIDE DEF L
  <2> QED BY <1>4, <1>5, <1>7, <1>8, <1>9, <2>1, <2>2 DEF Raised
<1>11. Well(t2, g2, u2, d, L) /\ EntriesIn(t2) = EntriesIn(t1)
  <2>1. L = H + 1  OBVIOUS
  <2> HIDE DEF L
  <2> QED BY <1>0, <1>10, <2>1, Raise
<1>12. WellRooted(t2, new, FALSE, g2, u2, d)
  <2>1. new \in DOMAIN t2 /\ L \in Nat  BY <1>0, <1>4
  <2>2. \A x \in DOMAIN t2 : g2[x] <= L
    <3> TAKE x \in DOMAIN t2
    <3>1. CASE x = new  BY <1>5, <2>1, <3>1
    <3>2. CASE x \in DOMAIN t1
      <4>1. g[x] <= H /\ g[x] \in Nat /\ g2[x] = g[x]  BY <1>0, <1>5, <1>6, <3>2
      <4> QED BY <1>0, <4>1
    <3> QED BY <1>4, <3>1, <3>2
  <2>3. DownClosed(u2[new])  BY <1>5 DEF DownClosed
  <2> HIDE DEF L
  <2> QED BY <1>5, <1>11, <2>1, <2>2, <2>3 DEF WellRooted
<1> QED BY <1>11, <1>12 DEF RootGrown, t2

(* What inserting <<k, r>> makes of an index in order.                     *)
IndexGrown(t, k, r, x, g, u, d) ==
    /\ WellRooted(x.tree, x.root, x.lost, g, u, d) /\ DOMAIN t \subseteq DOMAIN x.tree
    /\ x.lost \in BOOLEAN /\ (x.lost => x.ret # "OK")
    /\ Grew(EntriesIn(t), EntriesIn(x.tree), <<k, r>>, x.ret)
    /\ Answered(WithKey(EntriesIn(t), k), <<k, r>>, x.ret)

LEMMA FinishedFields ==
    ASSUME NEW from, NEW done
    PROVE  LET x == Finished(from, done)
               grows == done.split # kNullNode /\ done.ret = "OK"
           IN  /\ x.tree = IF grows THEN WithNode(done.tree, NextPage(done.tree),
                                                  Inner(<<done.key>>, <<from, done.split>>))
                           ELSE done.tree
               /\ x.root = IF grows THEN NextPage(done.tree) ELSE from
               /\ x.ret = done.ret
               /\ x.lost = (done.split # kNullNode /\ ~grows)
  BY DEF Finished

LEMMA InsertionIs ==
    ASSUME NEW t, NEW h, NEW s, NEW c, NEW from, WellRooted(t, from, FALSE, h, s, c),
           NEW k \in Keys, NEW r \in Rids
    PROVE  \E g, u, d : IndexGrown(t, k, r, Insertion(t, from, k, r), g, u, d)
<1> DEFINE x == Insertion(t, from, k, r)
           H == h[from]
           e == <<k, r>>
<1>1. /\ from \in DOMAIN t /\ H \in Nat /\ Well(t, h, s, c, H) /\ \A p \in DOMAIN t : h[p] <= H
      /\ s[from] = Int
  BY DEF WellRooted
<1>2. k \in s[from]  BY <1>1, IndexTreeAssumption
<1>3. PICK done, g, u, d : /\ Grown(t, h, s, from, k, r, done, g, u, d)
                           /\ x = Finished(from, done)
  <2> HIDE DEF x, H
  <2>1. GrownBelow(t, h, s, from, k, r, x)  BY <1>1, <1>2, InsertionGrown DEF x
  <2> QED BY <2>1 DEF GrownBelow
<1> DEFINE t1 == done.tree
           split == done.split
           key == done.key
           ret == done.ret
           grows == split # kNullNode /\ ret = "OK"
           new == NextPage(t1)
           t2 == WithNode(t1, new, Inner(<<key>>, <<from, split>>))
<1>4. /\ x.tree = IF grows THEN t2 ELSE t1
      /\ x.root = IF grows THEN new ELSE from
      /\ x.ret = ret /\ x.lost = (split # kNullNode /\ ~grows)
  <2> HIDE DEF x
  <2> QED BY <1>3, FinishedFields
<1>5. /\ Well(t1, g, u, d, H) /\ Extends(t, h, s, from, t1, g, u)
      /\ Divided(t, h, s, from, t1, split, key, g, u)
      /\ Grew(EntriesIn(t), EntriesIn(t1), e, ret)
      /\ Answered(WithKey(EntriesIn(t), k), e, ret)
  BY <1>3 DEF Grown
<1> HIDE DEF t1, split, key, ret, x, H, e
<1>6. /\ DOMAIN t \subseteq DOMAIN t1 /\ from \in DOMAIN t1 /\ g[from] = H
      /\ \A y \in DOMAIN t1 : g[y] <= H
  <2>1. /\ DOMAIN t \subseteq DOMAIN t1 /\ \A y \in DOMAIN t : g[y] = h[y]
        /\ \A y \in DOMAIN t1 \ DOMAIN t : g[y] <= H
    BY <1>5 DEF Extends, H
  <2>2. \A y \in DOMAIN t1 : g[y] <= H  BY <1>1, <2>1
  <2> QED BY <1>1, <2>1, <2>2 DEF H
<1>7. CASE split = kNullNode
  <2>1. u[from] = Int  BY <1>1, <1>5, <1>7 DEF Divided
  <2>2. x.tree = t1 /\ x.root = from /\ x.lost = FALSE /\ x.ret = ret  BY <1>4, <1>7
  <2>3. DownClosed(u[from])  BY <2>1 DEF DownClosed
  <2>4. WellRooted(t1, from, FALSE, g, u, d)
    BY <1>1, <1>5, <1>6, <2>1, <2>3 DEF WellRooted
  <2>5. IndexGrown(t, k, r, x, g, u, d)
    BY <1>5, <1>6, <2>2, <2>4 DEF IndexGrown, e
  <2> QED BY <2>5 DEF x
<1>8. CASE split # kNullNode
  <2>1. /\ split \in DOMAIN t1 \ DOMAIN t /\ g[split] = H /\ key \in Keys
        /\ u[from] = Below(Int, key) /\ u[split] = From(Int, key)
    BY <1>1, <1>5, <1>8 DEF Divided, H
  <2>2. CASE ret = "OK"
    <3>1. x.tree = t2 /\ x.root = new /\ x.lost = FALSE /\ x.ret = ret  BY <1>4, <1>8, <2>2
    <3>2. DOMAIN t2 = DOMAIN t1 \cup {new}  BY WithNodeIs
    <3>3. \E g2, u2 : WellRooted(t2, new, FALSE, g2, u2, d) /\ EntriesIn(t2) = EntriesIn(t1)
      <4>1. from # split  BY <1>1, <2>1
      <4>2. RootParted(t1, g, u, d, H, from, split, key)
        BY <1>1, <1>5, <1>6, <2>1, <4>1 DEF RootParted
      <4> DEFINE node == Inner(<<key>>, <<from, split>>)
      <4>3. new = NextPage(t1) /\ t2 = WithNode(t1, new, node)  OBVIOUS
      <4> HIDE DEF new, t2, node
      <4>4. RootGrown(t1, WithNode(t1, new, node), new, d)  BY <4>2, <4>3, NewRoot DEF node
      <4> QED BY <4>3, <4>4 DEF RootGrown
    <3> HIDE DEF new, t2
    <3>4. PICK g2, u2 : WellRooted(t2, new, FALSE, g2, u2, d) /\ EntriesIn(t2) = EntriesIn(t1)
      BY <3>3
    <3>5. IndexGrown(t, k, r, x, g2, u2, d)
      BY <1>5, <1>6, <3>1, <3>2, <3>4 DEF IndexGrown, e
    <3> QED BY <3>5 DEF x
  <2>3. CASE ret # "OK"
    <3>1. x.tree = t1 /\ x.root = from /\ x.lost = TRUE /\ x.ret = ret  BY <1>4, <1>8, <2>3
    <3>2. DownClosed(u[from])
      <4>1. key \in Int  BY <2>1, IndexTreeAssumption
      <4> QED BY <2>1, <4>1 DEF DownClosed, Below
    <3>3. WellRooted(t1, from, TRUE, g, u, d)
      BY <1>1, <1>5, <1>6, <3>2 DEF WellRooted
    <3>4. IndexGrown(t, k, r, x, g, u, d)
      BY <1>5, <1>6, <2>3, <3>1, <3>3 DEF IndexGrown, e
    <3> QED BY <3>4 DEF x
  <2> QED BY <2>2, <2>3
<1> QED BY <1>7, <1>8

----------------------------------------------------------------------------
(* The index as its file is made.                                          *)
LEMMA EmptyIndexIs ==
    \E h, s, c : /\ WellRooted(EmptyIndex.tree, EmptyIndex.root, FALSE, h, s, c)
                 /\ EntriesIn(EmptyIndex.tree) = {} /\ EmptyIndex.ret = "OK"
<1> DEFINE node == Leaf(<<>>, <<>>, kNullNode)
           t == [p \in {1} |-> node]
           h == [p \in {1} |-> 0]
           s == [p \in {1} |-> Int]
           c == <<1>>
<1>1. EmptyIndex.tree = t /\ EmptyIndex.root = 1 /\ EmptyIndex.ret = "OK"  BY DEF EmptyIndex
<1>2. node.type = "leaf" /\ node.keys = <<>> /\ node.rids = <<>> /\ node.next = kNullNode
  BY DEF Leaf
<1>3. node = Leaf(<<>>, <<>>, kNullNode)  OBVIOUS
<1> HIDE DEF node
<1>4. DOMAIN t = {1} /\ t[1] = node  OBVIOUS
<1>5. /\ DOMAIN h = {1} /\ h[1] = 0 /\ h \in [{1} -> Nat]
      /\ DOMAIN s = {1} /\ s[1] = Int /\ s \in [{1} -> SUBSET Int]
  OBVIOUS
<1>6. c \in Seq({1}) /\ Len(c) = 1 /\ c[1] = 1  OBVIOUS
<1> HIDE DEF t, h, s, c
<1>7. LeafOK(node, Int)
  <2>1. LeafShape(node, Int)
    <3>1. node = Leaf(node.keys, node.rids, node.next)  BY <1>2, <1>3
    <3> DEFINE e == <<>>
    <3>2. /\ e \in Seq(Keys) /\ e \in Seq(Bucket) /\ Len(e) = 0 /\ DOMAIN e = {}
          /\ \A i \in 1 .. Len(e) : FALSE
      OBVIOUS
    <3>3. node.keys = e /\ node.rids = e  BY <1>2
    <3> HIDE DEF e
    <3>4. Sorted(e)  BY <3>2 DEF Sorted
    <3> QED BY <3>1, <3>2, <3>3, <3>4 DEF LeafShape
  <2>2. b \in Nat /\ b >= 4  BY IndexTreeAssumption
  <2>3. Len(node.keys) = 0  BY <1>2
  <2> QED BY <2>1, <2>2, <2>3 DEF LeafOK
<1>8. Numbered(t)
  <2>1. DOMAIN t = 1 .. 1  BY <1>4
  <2> QED BY <2>1 DEF Numbered
<1>9. Apart(h, s)  BY <1>5 DEF Apart
<1>10. ChainOK(t, h, s, c)
  <2>1. \A i \in 1 .. Len(c) : i = 1 /\ c[i] = 1  BY <1>6
  <2>2. \A p \in DOMAIN t : h[p] = 0 <=> \E i \in 1 .. Len(c) : c[i] = p
    <3>1. 1 \in 1 .. Len(c)  BY <1>6
    <3> QED BY <1>4, <1>5, <1>6, <3>1
  <2>3. \A i \in 1 .. Len(c) : t[c[i]].next = IF i < Len(c) THEN c[i + 1] ELSE kNullNode
    BY <1>2, <1>4, <1>6, <2>1
  <2>4. \A i, j \in 1 .. Len(c) : ~(i < j)  BY <2>1
  <2> QED BY <1>4, <1>6, <2>2, <2>3, <2>4 DEF ChainOK
<1>11. Well(t, h, s, c, 0)
  BY <1>4, <1>5, <1>7, <1>8, <1>9, <1>10 DEF Well
<1>12. WellRooted(t, 1, FALSE, h, s, c)
  <2>1. DownClosed(s[1])  BY <1>5 DEF DownClosed
  <2>2. \A p \in DOMAIN t : h[p] <= h[1]  BY <1>4, <1>5
  <2> QED BY <1>4, <1>5, <1>11, <2>1, <2>2 DEF WellRooted
<1>13. EntriesIn(t) = {}
  <2>1. \A p \in LeavesIn(t) : EntriesOf(t[p]) = {}
    <3> TAKE p \in LeavesIn(t)
    <3>1. t[p].keys = <<>>  BY <1>2, <1>4 DEF LeavesIn
    <3>2. DOMAIN t[p].keys = {}  BY <3>1
    <3> QED BY <3>2 DEF EntriesOf
  <2> QED BY <2>1 DEF EntriesIn
<1> QED BY <1>1, <1>12, <1>13

(* The next entry goes in, unless one was refused.                         *)
NextFilled(x, e) == IF x.ret # "OK" THEN x ELSE Insertion(x.tree, x.root, e[1], e[2])

FilledUpTo(w, n, m, f) ==
    \A i \in 0 .. n : i <= m => f[i] = IF i = 0 THEN EmptyIndex ELSE NextFilled(f[i - 1], w[i])

FillIs(w, n, f) ==
    f = [i \in 0 .. n |-> IF i = 0 THEN EmptyIndex ELSE NextFilled(f[i - 1], w[i])]

LEMMA FillExists ==
    ASSUME NEW w, NEW n \in Nat
    PROVE  \E f : FillIs(w, n, f)
<1> DEFINE T == {m \in Nat : \E f : FilledUpTo(w, n, m, f)}
<1>1. 0 \in T
  <2> DEFINE f == [i \in 0 .. n |-> EmptyIndex]
  <2>1. \A i \in 0 .. n : i <= 0 => i = 0 /\ f[i] = EmptyIndex  OBVIOUS
  <2> HIDE DEF f
  <2>2. FilledUpTo(w, n, 0, f)  BY <2>1 DEF FilledUpTo
  <2> QED BY <2>2
<1>2. ASSUME NEW m \in T PROVE m + 1 \in T
  <2>1. m \in Nat /\ \E f : FilledUpTo(w, n, m, f)  BY <1>2
  <2>2. PICK f : FilledUpTo(w, n, m, f)  BY <2>1
  <2> DEFINE f2 == [i \in 0 .. n |-> IF i <= m THEN f[i] ELSE NextFilled(f[i - 1], w[i])]
  <2>3. ASSUME NEW i \in 0 .. n, i <= m + 1
        PROVE  f2[i] = IF i = 0 THEN EmptyIndex ELSE NextFilled(f2[i - 1], w[i])
    <3>1. i <= m => f[i] = IF i = 0 THEN EmptyIndex ELSE NextFilled(f[i - 1], w[i])
      BY <2>2 DEF FilledUpTo
    <3>2. CASE i = 0
      <4>1. i <= m  BY <2>1, <3>2
      <4> QED BY <3>1, <3>2, <4>1
    <3>3. CASE i # 0
      <4>1. i - 1 \in 0 .. n /\ i - 1 <= m  BY <2>1, <2>3, <3>3
      <4>2. f2[i - 1] = f[i - 1]  BY <4>1
      <4>3. f2[i] = NextFilled(f[i - 1], w[i])
        <5>1. CASE i <= m  BY <3>1, <3>3, <5>1
        <5>2. CASE ~(i <= m)  BY <5>2
        <5> QED BY <5>1, <5>2
      <4> HIDE DEF f2
      <4> QED BY <3>3, <4>2, <4>3
    <3> QED BY <3>2, <3>3
  <2>4. FilledUpTo(w, n, m + 1, f2)
    <3> HIDE DEF f2
    <3> QED BY <2>3 DEF FilledUpTo
  <2> QED BY <2>1, <2>4
<1>3. n \in T
  <2>1. T \in SUBSET Nat  OBVIOUS
  <2> HIDE DEF T
  <2>2. T = Nat  BY <1>1, <1>2, <2>1, AllNumbers
  <2> QED BY <2>2
<1>4. PICK f : FilledUpTo(w, n, n, f)  BY <1>3
<1> DEFINE F == [i \in 0 .. n |-> f[i]]
<1>5. ASSUME NEW i \in 0 .. n
      PROVE  F[i] = IF i = 0 THEN EmptyIndex ELSE NextFilled(F[i - 1], w[i])
  <2>1. i <= n  OBVIOUS
  <2>2. F[i] = IF i = 0 THEN EmptyIndex ELSE NextFilled(f[i - 1], w[i])
    BY <1>4, <2>1 DEF FilledUpTo
  <2>3. i # 0 => F[i - 1] = f[i - 1]
    <3>1. i # 0 => i - 1 \in 0 .. n  OBVIOUS
    <3> QED BY <3>1
  <2> HIDE DEF F
  <2> QED BY <2>2, <2>3
<1>6. FillIs(w, n, F)
  <2>1. F = [i \in 0 .. n |-> F[i]]  OBVIOUS
  <2> HIDE DEF F
  <2> QED BY <1>5, <2>1 DEF FillIs
<1> QED BY <1>6

(* The index x has the entries E and is in order.                          *)
Holds(x, E) ==
    \E h, s, c : WellRooted(x.tree, x.root, FALSE, h, s, c) /\ EntriesIn(x.tree) = E

LEMMA NextHolds ==
    ASSUME NEW x, NEW E, Holds(x, E), NEW k \in Keys, NEW r \in Rids,
           NEW y, y = Insertion(x.tree, x.root, k, r), y.ret = "OK"
    PROVE  Holds(y, E \cup {<<k, r>>})
<1>1. PICK h, s, c : WellRooted(x.tree, x.root, FALSE, h, s, c) /\ EntriesIn(x.tree) = E
  BY DEF Holds
<1> DEFINE t == x.tree
           from == x.root
<1>2. y = Insertion(t, from, k, r) /\ WellRooted(t, from, FALSE, h, s, c) /\ EntriesIn(t) = E
  BY <1>1
<1> HIDE DEF t, from
<1>3. \E g, u, d : IndexGrown(t, k, r, y, g, u, d)
  <2>1. WellRooted(t, from, FALSE, h, s, c)  BY <1>2
  <2>2. \E g, u, d : IndexGrown(t, k, r, Insertion(t, from, k, r), g, u, d)
    BY <2>1, InsertionIs
  <2> QED BY <1>2, <2>2
<1>4. PICK g, u, d : IndexGrown(t, k, r, y, g, u, d)  BY <1>3
<1>5. /\ WellRooted(y.tree, y.root, y.lost, g, u, d)
      /\ y.lost \in BOOLEAN /\ (y.lost => y.ret # "OK")
      /\ Grew(EntriesIn(t), EntriesIn(y.tree), <<k, r>>, y.ret)
  BY <1>4 DEF IndexGrown
<1>6. y.lost = FALSE  BY <1>5
<1>7. EntriesIn(y.tree) = E \cup {<<k, r>>}  BY <1>2, <1>5 DEF Grew
<1>8. WellRooted(y.tree, y.root, FALSE, g, u, d)  BY <1>5, <1>6
<1> QED BY <1>7, <1>8 DEF Holds

LEMMA FilledIs ==
    ASSUME NEW w \in Seq(Keys \X Rids), Filled(w).ret = "OK"
    PROVE  Holds(Filled(w), {w[i] : i \in DOMAIN w})
<1> DEFINE n == Len(w)
           F(f) == [i \in 0 .. n |->
                      IF i = 0 THEN EmptyIndex
                      ELSE IF f[i - 1].ret # "OK" THEN f[i - 1]
                      ELSE Insertion(f[i - 1].tree, f[i - 1].root, w[i][1], w[i][2])]
           after == CHOOSE f : f = F(f)
<1>1. n \in Nat /\ DOMAIN w = 1 .. n /\ \A i \in 1 .. n : w[i] \in Keys \X Rids  OBVIOUS
<1>2. Filled(w) = after[n]  BY DEF Filled
<1> HIDE DEF n
<1>3. after = F(after)
  <2>1. PICK f : FillIs(w, n, f)  BY <1>1, FillExists
  <2>2. f = F(f)  BY <2>1 DEF FillIs, NextFilled
  <2> QED BY <2>2
<1>4. ASSUME NEW i \in 0 .. n
      PROVE  after[i] = IF i = 0 THEN EmptyIndex
                        ELSE IF after[i - 1].ret # "OK" THEN after[i - 1]
                        ELSE Insertion(after[i - 1].tree, after[i - 1].root, w[i][1], w[i][2])
  <2> HIDE DEF after
  <2> QED BY <1>3
<1> HIDE DEF after
<1> DEFINE E(i) == {w[j] : j \in 1 .. i}
           T == {i \in Nat : i <= n /\ after[i].ret = "OK" => Holds(after[i], E(i))}
<1>5. 0 \in T
  <2>1. after[0] = EmptyIndex
    <3>1. 0 \in 0 .. n  BY <1>1
    <3> QED BY <1>4, <3>1
  <2>2. Holds(EmptyIndex, {})  BY EmptyIndexIs DEF Holds
  <2>3. E(0) = {}  OBVIOUS
  <2> QED BY <2>1, <2>2, <2>3
<1>6. ASSUME NEW i \in T PROVE i + 1 \in T
  <2>1. i \in Nat /\ (i <= n /\ after[i].ret = "OK" => Holds(after[i], E(i)))  BY <1>6
  <2> SUFFICES ASSUME i + 1 <= n, after[i + 1].ret = "OK" PROVE Holds(after[i + 1], E(i + 1))
    BY <2>1
  <2> DEFINE a == i + 1
             x == after[i]
             y == after[a]
             e == w[a]
  <2>2. a \in 0 .. n /\ a \in 1 .. n /\ a # 0 /\ a - 1 = i /\ i <= n  BY <1>1, <2>1
  <2>3. y = IF x.ret # "OK" THEN x ELSE Insertion(x.tree, x.root, e[1], e[2])
    <3> HIDE DEF a
    <3> QED BY <1>4, <2>2
  <2>4. x.ret = "OK" /\ y.ret = "OK" /\ y = Insertion(x.tree, x.root, e[1], e[2])
    <3> HIDE DEF x, e
    <3>1. y.ret = "OK"  OBVIOUS
    <3> HIDE DEF y
    <3> QED BY <2>3, <3>1
  <2>5. e[1] \in Keys /\ e[2] \in Rids /\ e = <<e[1], e[2]>>
    <3>1. e \in Keys \X Rids  BY <1>1, <2>2
    <3> HIDE DEF e
    <3> QED BY <3>1
  <2>6. Holds(x, E(i))  BY <2>1, <2>2, <2>4
  <2>7. Holds(y, E(i) \cup {e})
    <3> DEFINE S == E(i)
    <3> HIDE DEF S, x, y, e
    <3>1. Holds(x, S)  BY <2>6 DEF S
    <3> DEFINE k == e[1]
               r == e[2]
    <3>2. k \in Keys /\ r \in Rids /\ y = Insertion(x.tree, x.root, k, r) /\ e = <<k, r>>
      BY <2>4, <2>5
    <3> HIDE DEF k, r
    <3>3. Holds(y, S \cup {<<k, r>>})  BY <2>4, <3>1, <3>2, NextHolds
    <3> QED BY <3>2, <3>3 DEF S
  <2>8. E(i) \cup {e} = E(i + 1)
    <3>1. \A j : j \in 1 .. i + 1 <=> j \in 1 .. i \/ j = i + 1  BY <2>1
    <3> QED BY <3>1
  <2> QED BY <2>7, <2>8
<1>7. n \in T
  <2>1. T \in SUBSET Nat  OBVIOUS
  <2> HIDE DEF T
  <2>2. T = Nat  BY <1>5, <1>6, <2>1, AllNumbers
  <2> QED BY <1>1, <2>2
<1>8. Holds(after[n], E(n))
  <2>1. after[n].ret = "OK" /\ n <= n  BY <1>1, <1>2
  <2> QED BY <1>7, <2>1
<1> QED BY <1>1, <1>2, <1>8

----------------------------------------------------------------------------
(* What a tree in order says of the state.                                 *)
PathEnds(t, h, s, r, k, w) ==
    /\ Len(w) = h[r] + 1 /\ Last(w) \in DOMAIN t /\ h[Last(w)] = 0 /\ k \in s[Last(w)]

LEMMA PathEndsIs ==
    ASSUME NEW t, NEW r, NEW l, NEW h, NEW s, NEW c, WellRooted(t, r, l, h, s, c),
           NEW k \in Int, k \in s[r]
    PROVE  PathEnds(t, h, s, r, k, PathIn(t, r, k))
<1> DEFINE H == h[r]
           w == PathIn(t, r, k)
           n == Len(w)
<1>1. r \in DOMAIN t /\ H \in Nat /\ Well(t, h, s, c, H) /\ \A p \in DOMAIN t : h[p] <= H
  BY DEF WellRooted
<1>2. Leads(t, h, s, r, k, w)
  <2> HIDE DEF w, H
  <2> QED BY <1>1, PathLeads DEF w
<1> HIDE DEF w
<1>3. /\ w \in Seq(DOMAIN t) /\ n = H + 1
      /\ \A i \in 1 .. n : h[w[i]] = H + 1 - i /\ k \in s[w[i]]
  BY <1>2 DEF Leads
<1>4. n \in 1 .. n /\ H + 1 - n = 0  BY <1>1, <1>3
<1>5. w[n] \in DOMAIN t /\ h[w[n]] = 0 /\ k \in s[w[n]]
  <2>1. w[n] \in DOMAIN t  BY <1>3, <1>4
  <2>2. h[w[n]] = H + 1 - n /\ k \in s[w[n]]
    <3> HIDE DEF n, H
    <3> QED BY <1>3, <1>4
  <2> QED BY <1>4, <2>1, <2>2
<1>6. Last(w) = w[n]  BY DEF Last
<1> QED BY <1>3, <1>5, <1>6 DEF PathEnds, w

LEMMA BucketTyped ==
    ASSUME NEW q \in Bucket
    PROVE  q \in BoundedSeq(Rids, ridsPerBucket) /\ IsInjective(q)
<1>1. q \in Seq(Rids) /\ Len(q) <= ridsPerBucket /\ IsInjective(q) /\ ridsPerBucket \in Nat
  BY IndexTreeAssumption DEF Bucket
<1>2. Len(q) \in 0 .. ridsPerBucket /\ q \in [1 .. Len(q) -> Rids]  BY <1>1
<1>3. q \in UNION {[1 .. m -> Rids] : m \in 0 .. ridsPerBucket}  BY <1>2
<1> QED BY <1>1, <1>3 DEF BoundedSeq, SeqOf

NodeTyped(t, p) ==
    /\ ToSet(t[p].keys) \subseteq Keys /\ Sorted(t[p].keys)
    /\ CASE t[p].type = "leaf" ->
                /\ DOMAIN t[p].rids = DOMAIN t[p].keys
                /\ \A i \in DOMAIN t[p].rids :
                    /\ t[p].rids[i] \in BoundedSeq(Rids, ridsPerBucket)
                    /\ IsInjective(t[p].rids[i])
                /\ t[p].next \in DOMAIN t \cup {kNullNode}
         [] t[p].type = "inner" ->
                ToSet(t[p].children) \subseteq DOMAIN t

LEMMA NodesTyped ==
    ASSUME NEW t, NEW r, NEW l, NEW h, NEW s, NEW c, WellRooted(t, r, l, h, s, c),
           NEW p \in DOMAIN t
    PROVE  NodeTyped(t, p)
<1> DEFINE H == h[r]
           n == t[p]
<1>1. /\ Well(t, h, s, c, H) /\ h[p] <= H /\ h \in [DOMAIN t -> Nat] /\ DOMAIN s = DOMAIN t
      /\ ChainOK(t, h, s, c)
  BY DEF WellRooted, Well
<1>2. CASE h[p] = 0
  <2>1. LeafShape(n, s[p])  BY <1>1, <1>2 DEF Well, LeafOK
  <2>2. n.next \in DOMAIN t \cup {kNullNode}
    <3>1. /\ c \in Seq(DOMAIN t) /\ \E i \in 1 .. Len(c) : c[i] = p
          /\ \A i \in 1 .. Len(c) : t[c[i]].next = IF i < Len(c) THEN c[i + 1] ELSE kNullNode
      BY <1>1, <1>2 DEF ChainOK
    <3>2. PICK i \in 1 .. Len(c) : c[i] = p  BY <3>1
    <3>3. i < Len(c) => c[i + 1] \in DOMAIN t
      <4>1. Len(c) \in Nat /\ \A j \in 1 .. Len(c) : c[j] \in DOMAIN t  BY <3>1
      <4>2. i < Len(c) => i + 1 \in 1 .. Len(c)  BY <4>1
      <4> QED BY <4>1, <4>2
    <3>4. n.next = IF i < Len(c) THEN c[i + 1] ELSE kNullNode  BY <3>1, <3>2
    <3> HIDE DEF n
    <3> QED BY <3>3, <3>4
  <2> DEFINE keys == n.keys
             rids == n.rids
  <2>3. /\ n.type = "leaf" /\ keys \in Seq(Keys) /\ Sorted(keys)
        /\ DOMAIN keys = 1 .. Len(keys) /\ DOMAIN rids = 1 .. Len(keys)
        /\ \A i \in 1 .. Len(keys) : rids[i] \in Bucket
    BY <2>1, LeafFacts
  <2> HIDE DEF keys, rids
  <2>4. ToSet(keys) \subseteq Keys  BY <2>3, ToSetIs
  <2>5. \A i \in DOMAIN rids : rids[i] \in BoundedSeq(Rids, ridsPerBucket) /\ IsInjective(rids[i])
    BY <2>3, BucketTyped
  <2> HIDE DEF n
  <2>6. DOMAIN rids = DOMAIN keys  BY <2>3
  <2> QED BY <2>2, <2>3, <2>4, <2>5, <2>6 DEF NodeTyped, keys, rids, n
<1>3. CASE h[p] > 0
  <2>1. InnerOK(n, h, s, p)  BY <1>1, <1>3 DEF Well
  <2> DEFINE keys == n.keys
             kids == n.children
  <2>2. n.type = "inner" /\ Parts(keys, kids, s[p], s)  BY <2>1 DEF InnerOK
  <2> HIDE DEF keys, kids
  <2>3. keys \in Seq(Keys) /\ Sorted(keys) /\ kids \in Seq(DOMAIN t)
    BY <1>1, <2>2, PartsFacts
  <2>4. ToSet(keys) \subseteq Keys /\ ToSet(kids) \subseteq DOMAIN t  BY <2>3, ToSetIs
  <2>5. n.type # "leaf"  BY <2>2
  <2> QED BY <2>2, <2>3, <2>4, <2>5 DEF NodeTyped, keys, kids
<1> QED BY <1>1, <1>2, <1>3

(* TreeInv but for what TypeOK says of other variables.                    *)
LEMMA KeysFound ==
    ASSUME NEW h, NEW s, NEW c, WellRooted(tree, root, lost, h, s, c)
    PROVE  KeysFindTheirLeaf
<1> SUFFICES ASSUME ~lost, NEW p \in Leaves, NEW k \in ToSet(tree[p].keys)
             PROVE  Last(Path(k)) = p
  BY DEF KeysFindTheirLeaf
<1>1. Well(tree, h, s, c, h[root]) /\ s[root] = Int  BY DEF WellRooted
<1>2. p \in DOMAIN tree /\ h[p] = 0  BY <1>1, LeafIff DEF Leaves
<1>3. LeafShape(tree[p], s[p]) /\ s[p] \in SUBSET Int  BY <1>1, <1>2 DEF Well, LeafOK
<1>4. k \in s[p] /\ k \in Int
  <2> DEFINE keys == tree[p].keys
  <2>1. DOMAIN keys = 1 .. Len(keys) /\ \A i \in 1 .. Len(keys) : keys[i] \in s[p]
    BY <1>3, LeafFacts
  <2> HIDE DEF keys
  <2>2. ToSet(keys) \subseteq s[p]  BY <2>1 DEF ToSet
  <2> QED BY <1>3, <2>2 DEF keys
<1>5. PathEnds(tree, h, s, root, k, Path(k))  BY <1>1, <1>4, PathEndsIs DEF Path
<1>6. Last(Path(k)) \in DOMAIN tree /\ h[Last(Path(k))] = 0 /\ k \in s[Last(Path(k))]
  BY <1>5 DEF PathEnds
<1>7. h \in [DOMAIN tree -> Nat] /\ Apart(h, s)  BY <1>1 DEF Well
<1> QED BY <1>2, <1>4, <1>6, <1>7 DEF Apart

LEMMA BalancedIs ==
    ASSUME NEW h, NEW s, NEW c, WellRooted(tree, root, lost, h, s, c)
    PROVE  Balanced
<1> SUFFICES ASSUME ~lost
             PROVE  /\ \A p \in Leaves : tree[p].keys # <<>> =>
                          Len(Path(tree[p].keys[1])) = h[root] + 1
                    /\ \A p \in Leaves :
                          (p = root \/ tree[p].keys # <<>>) /\ Len(tree[p].keys) <= b - 1
                    /\ \A p \in DOMAIN tree \ Leaves : Len(tree[p].children) \in 1 .. b
  BY DEF Balanced
<1>1. /\ Well(tree, h, s, c, h[root]) /\ s[root] = Int /\ root \in DOMAIN tree
      /\ \A p \in DOMAIN tree : h[p] <= h[root]
  BY DEF WellRooted
<1>2. Leaves = {p \in DOMAIN tree : h[p] = 0}  BY <1>1, LeafIff DEF Leaves
<1>3. h \in [DOMAIN tree -> Nat]  BY <1>1 DEF Well
<1>4. ASSUME NEW p \in Leaves
      PROVE  /\ tree[p].keys # <<>> => tree[p].keys[1] \in Int
             /\ p = root \/ tree[p].keys # <<>>
             /\ Len(tree[p].keys) <= b - 1
  <2>1. LeafOK(tree[p], s[p]) /\ (tree[p].keys # <<>> \/ DOMAIN tree = {p})
    BY <1>1, <1>2 DEF Well
  <2>2. LeafShape(tree[p], s[p]) /\ Len(tree[p].keys) <= b - 1  BY <2>1 DEF LeafOK
  <2> DEFINE keys == tree[p].keys
  <2>3. keys \in Seq(Int)  BY <2>2, LeafFacts
  <2> HIDE DEF keys
  <2>4. keys # <<>> => keys[1] \in Int  BY <2>3
  <2> QED BY <1>1, <2>1, <2>2, <2>4 DEF keys
<1>5. ASSUME NEW p \in Leaves, tree[p].keys # <<>>
      PROVE  Len(Path(tree[p].keys[1])) = h[root] + 1
  <2> DEFINE k == tree[p].keys[1]
  <2>1. k \in Int  BY <1>4, <1>5
  <2> HIDE DEF k
  <2>2. PathEnds(tree, h, s, root, k, Path(k))  BY <1>1, <2>1, PathEndsIs DEF Path
  <2> QED BY <2>2 DEF PathEnds, k
<1>6. ASSUME NEW p \in DOMAIN tree \ Leaves PROVE Len(tree[p].children) \in 1 .. b
  <2>1. h[p] > 0 /\ h[p] <= h[root]  BY <1>1, <1>2, <1>3
  <2>2. InnerOK(tree[p], h, s, p)  BY <1>1, <2>1 DEF Well
  <2>3. Len(tree[p].children) \in 2 .. b /\ b \in Nat  BY <2>2, IndexTreeAssumption DEF InnerOK
  <2> QED BY <2>3
<1> QED BY <1>4, <1>5, <1>6

(* The chain of the leaves.                                                *)
LEMMA ChainLeaves ==
    ASSUME NEW t, NEW r, NEW l, NEW h, NEW s, NEW c, WellRooted(t, r, l, h, s, c)
    PROVE  /\ c \in Seq(DOMAIN t) /\ Len(c) \in Nat /\ DOMAIN c = 1 .. Len(c)
           /\ \A i \in 1 .. Len(c) : c[i] \in LeavesIn(t) /\ h[c[i]] = 0 /\ c[i] # kNullNode
           /\ \A p \in LeavesIn(t) : \E i \in 1 .. Len(c) : c[i] = p
           /\ \A i \in 1 .. Len(c) : t[c[i]].next = IF i < Len(c) THEN c[i + 1] ELSE kNullNode
           /\ \A i, j \in 1 .. Len(c) : i < j => \A x \in s[c[i]], y \in s[c[j]] : x < y
           /\ \A i, j \in 1 .. Len(c) : i # j => c[i] # c[j]
<1>1. /\ Well(t, h, s, c, h[r]) /\ Numbered(t) /\ Apart(h, s) /\ ChainOK(t, h, s, c)
      /\ h \in [DOMAIN t -> Nat] /\ s \in [DOMAIN t -> SUBSET Int]
  BY DEF WellRooted, Well
<1>2. /\ c \in Seq(DOMAIN t)
      /\ \A p \in DOMAIN t : h[p] = 0 <=> \E i \in 1 .. Len(c) : c[i] = p
      /\ \A i \in 1 .. Len(c) : t[c[i]].next = IF i < Len(c) THEN c[i + 1] ELSE kNullNode
      /\ \A i, j \in 1 .. Len(c) : i < j => \A x \in s[c[i]], y \in s[c[j]] : x < y
  BY <1>1 DEF ChainOK
<1>3. Len(c) \in Nat /\ DOMAIN c = 1 .. Len(c) /\ \A i \in 1 .. Len(c) : c[i] \in DOMAIN t
  BY <1>2
<1>4. LeavesIn(t) = {p \in DOMAIN t : h[p] = 0}  BY <1>1, LeafIff
<1>5. kNullNode \notin DOMAIN t
  <2>1. PICK N \in Nat : DOMAIN t = 1 .. N  BY <1>1 DEF Numbered
  <2> QED BY <2>1 DEF kNullNode
<1>6. ASSUME NEW i \in 1 .. Len(c)
      PROVE  c[i] \in LeavesIn(t) /\ h[c[i]] = 0 /\ c[i] # kNullNode
  <2>1. h[c[i]] = 0 /\ c[i] \in DOMAIN t  BY <1>2, <1>3
  <2> QED BY <1>4, <1>5, <2>1
<1>7. \A i, j \in 1 .. Len(c) : i < j => c[i] # c[j]
  <2> SUFFICES ASSUME NEW i \in 1 .. Len(c), NEW j \in 1 .. Len(c), i < j, c[i] = c[j]
               PROVE  FALSE
    OBVIOUS
  <2>1. s[c[i]] # {} /\ s[c[i]] \in SUBSET Int  BY <1>1, <1>3 DEF Apart
  <2>2. PICK x \in s[c[i]] : x \in Int  BY <2>1
  <2>3. x < x  BY <1>2, <2>2
  <2> QED BY <2>2, <2>3
<1>8. \A i, j \in 1 .. Len(c) : i # j => c[i] # c[j]
  <2> SUFFICES ASSUME NEW i \in 1 .. Len(c), NEW j \in 1 .. Len(c), i # j PROVE c[i] # c[j]
    OBVIOUS
  <2>1. i < j \/ j < i  BY <1>3
  <2> QED BY <1>7, <2>1
<1>9. \A p \in LeavesIn(t) : \E i \in 1 .. Len(c) : c[i] = p  BY <1>2, <1>4
<1> QED BY <1>2, <1>3, <1>6, <1>8, <1>9

ChainIs(c, n, v) ==
    /\ DOMAIN v = 1 .. n
    /\ \A i \in 1 .. n : v[i] = IF i <= Len(c) THEN c[i] ELSE kNullNode

LEMMA ChainFollowed ==
    ASSUME NEW h, NEW s, NEW c, WellRooted(tree, root, lost, h, s, c), NEW n \in Nat
    PROVE  ChainIs(c, n, Chain(n))
<1> DEFINE F(v) == [i \in 1 .. n |->
                      IF i = 1 THEN LeftmostLeaf
                      ELSE IF v[i - 1] = kNullNode THEN kNullNode ELSE tree[v[i - 1]].next]
           At(i) == IF i <= Len(c) THEN c[i] ELSE kNullNode
           w == [i \in 1 .. n |-> At(i)]
           visited == CHOOSE v : v = F(v)
<1>1. /\ Len(c) \in Nat /\ \A i \in 1 .. Len(c) : c[i] # kNullNode
      /\ \A i \in 1 .. Len(c) : tree[c[i]].next = IF i < Len(c) THEN c[i + 1] ELSE kNullNode
  BY ChainLeaves
<1>2. 1 \in 1 .. Len(c) /\ LeftmostLeaf = c[1]  BY LeftmostLeafIs
<1>3. At(1) = LeftmostLeaf  BY <1>1, <1>2
<1>4. ASSUME NEW i \in Nat, i > 1
      PROVE  At(i) = IF At(i - 1) = kNullNode THEN kNullNode ELSE tree[At(i - 1)].next
  <2>1. CASE i - 1 <= Len(c)
    <3>1. i - 1 \in 1 .. Len(c) /\ (i - 1) + 1 = i /\ (i - 1 < Len(c) <=> i <= Len(c))
      BY <1>1, <1>4, <2>1
    <3>2. tree[c[i - 1]].next = IF i - 1 < Len(c) THEN c[(i - 1) + 1] ELSE kNullNode
      BY <1>1, <3>1
    <3>3. c[i - 1] # kNullNode /\ At(i - 1) = c[i - 1]  BY <1>1, <2>1, <3>1
    <3>4. At(i) = tree[c[i - 1]].next  BY <3>1, <3>2
    <3> HIDE DEF At
    <3> QED BY <3>3, <3>4
  <2>2. CASE ~(i - 1 <= Len(c))
    <3>1. ~(i <= Len(c))  BY <1>1, <1>4, <2>2
    <3> QED BY <2>2, <3>1
  <2> QED BY <2>1, <2>2
<1> HIDE DEF At
<1>5. w = F(w)
  <2>1. ASSUME NEW i \in 1 .. n
        PROVE  w[i] = IF i = 1 THEN LeftmostLeaf
                      ELSE IF w[i - 1] = kNullNode THEN kNullNode ELSE tree[w[i - 1]].next
    <3>1. CASE i = 1  BY <1>3, <3>1
    <3>2. CASE i # 1
      <4>1. i \in Nat /\ i > 1 /\ i - 1 \in 1 .. n  BY <3>2
      <4>2. w[i] = At(i) /\ w[i - 1] = At(i - 1)  BY <4>1
      <4> HIDE DEF w
      <4> QED BY <1>4, <3>2, <4>1, <4>2
    <3> QED BY <3>1, <3>2
  <2>2. w = [i \in 1 .. n |-> w[i]]  OBVIOUS
  <2> HIDE DEF w
  <2> QED BY <2>1, <2>2
<1>6. visited = F(visited)
  <2> HIDE DEF w
  <2> QED BY <1>5
<1>7. Chain(n) = visited  BY DEF Chain
<1> HIDE DEF visited
<1>8. /\ DOMAIN visited = 1 .. n
      /\ \A i \in 1 .. n : visited[i] =
           IF i = 1 THEN LeftmostLeaf
           ELSE IF visited[i - 1] = kNullNode THEN kNullNode ELSE tree[visited[i - 1]].next
  BY <1>6
<1> HIDE DEF F
<1> DEFINE T == {m \in Nat : m + 1 <= n => visited[m + 1] = At(m + 1)}
<1>9. 0 \in T
  <2>1. 0 + 1 = 1 /\ (1 <= n => 1 \in 1 .. n)  OBVIOUS
  <2>2. 1 <= n => visited[1] = At(1)  BY <1>3, <1>8, <2>1
  <2> QED BY <2>1, <2>2
<1>10. ASSUME NEW m \in T PROVE m + 1 \in T
  <2>1. m \in Nat /\ (m + 1 <= n => visited[m + 1] = At(m + 1))  BY <1>10
  <2> DEFINE i == (m + 1) + 1
  <2> SUFFICES ASSUME i <= n PROVE visited[i] = At(i)  BY <2>1
  <2>2. i \in 1 .. n /\ i # 1 /\ i - 1 = m + 1 /\ m + 1 <= n /\ i \in Nat /\ i > 1  BY <2>1
  <2> HIDE DEF i
  <2>3. visited[i - 1] = At(i - 1)  BY <2>1, <2>2
  <2> QED BY <1>4, <1>8, <2>2, <2>3
<1>11. ASSUME NEW i \in 1 .. n PROVE visited[i] = At(i)
  <2>1. T \in SUBSET Nat  OBVIOUS
  <2> HIDE DEF T
  <2>2. T = Nat  BY <1>9, <1>10, <2>1, AllNumbers
  <2>3. i - 1 \in T  BY <2>2
  <2>4. (i - 1) + 1 = i /\ i <= n  OBVIOUS
  <2> QED BY <2>3, <2>4 DEF T
<1> QED BY <1>7, <1>8, <1>11 DEF ChainIs, At

LEMMA ChainCounts ==
    ASSUME NEW h, NEW s, NEW c, WellRooted(tree, root, lost, h, s, c)
    PROVE  Cardinality(Leaves) = Len(c) /\ ToSet(c) = Leaves
<1>1. /\ c \in Seq(DOMAIN tree) /\ DOMAIN c = 1 .. Len(c)
      /\ \A i \in 1 .. Len(c) : c[i] \in LeavesIn(tree)
      /\ \A p \in LeavesIn(tree) : \E i \in 1 .. Len(c) : c[i] = p
      /\ \A i, j \in 1 .. Len(c) : i # j => c[i] # c[j]
  BY ChainLeaves
<1>2. IsInjective(c)  BY <1>1 DEF IsInjective
<1>3. ToSet(c) = LeavesIn(tree)
  <2> DEFINE L == LeavesIn(tree)
  <2>1. \A p : p \in ToSet(c) <=> \E i \in 1 .. Len(c) : c[i] = p  BY <1>1, ToSetIs
  <2> HIDE DEF L
  <2>2. \A p \in ToSet(c) : p \in L  BY <1>1, <2>1 DEF L
  <2>3. \A p \in L : p \in ToSet(c)  BY <1>1, <2>1 DEF L
  <2>4. ToSet(c) = L  BY <2>2, <2>3
  <2> QED BY <2>4 DEF L
<1>4. Cardinality(ToSet(c)) = Len(c)  BY <1>1, <1>2, ToSetCount
<1> QED BY <1>3, <1>4 DEF Leaves

LEMMA ChainComplete ==
    ASSUME NEW h, NEW s, NEW c, WellRooted(tree, root, lost, h, s, c)
    PROVE  ChainVisitsEveryLeaf
<1> DEFINE n == Cardinality(Leaves)
<1>1. n = Len(c) /\ ToSet(c) = Leaves  BY ChainCounts
<1>2. Len(c) \in Nat /\ DOMAIN c = 1 .. Len(c)  BY ChainLeaves
<1>3. n \in Nat /\ n + 1 \in Nat  BY <1>1, <1>2
<1> HIDE DEF n
<1>4. ChainIs(c, n, Chain(n))  BY <1>3, ChainFollowed
<1>5. ChainIs(c, n + 1, Chain(n + 1))
  <2> DEFINE m == n + 1
  <2>1. m \in Nat  BY <1>3
  <2> HIDE DEF m
  <2>2. ChainIs(c, m, Chain(m))  BY <2>1, ChainFollowed
  <2> QED BY <2>2 DEF m
<1>6. ToSet(Chain(n)) = ToSet(c)
  <2>1. DOMAIN Chain(n) = DOMAIN c /\ \A i \in DOMAIN c : Chain(n)[i] = c[i]
    BY <1>1, <1>2, <1>4 DEF ChainIs
  <2> QED BY <2>1 DEF ToSet
<1>7. Chain(n + 1)[n + 1] = kNullNode
  <2>1. n + 1 \in 1 .. n + 1 /\ ~(n + 1 <= Len(c))  BY <1>1, <1>3
  <2> QED BY <1>5, <2>1 DEF ChainIs
<1> QED BY <1>1, <1>6, <1>7 DEF ChainVisitsEveryLeaf, n

LEMMA ChainAscends ==
    ASSUME NEW h, NEW s, NEW c, WellRooted(tree, root, lost, h, s, c)
    PROVE  KeysAscendAlongChain
<1> DEFINE n == Cardinality(Leaves)
           v == Chain(n)
<1>1. n = Len(c)  BY ChainCounts
<1>2. /\ Len(c) \in Nat
      /\ \A i \in 1 .. Len(c) : c[i] \in LeavesIn(tree) /\ h[c[i]] = 0
      /\ \A i, j \in 1 .. Len(c) : i < j => \A x \in s[c[i]], y \in s[c[j]] : x < y
  BY ChainLeaves
<1>3. ChainIs(c, n, v)  BY <1>1, <1>2, ChainFollowed
<1> HIDE DEF n, v
<1>4. DOMAIN v = 1 .. Len(c) /\ \A i \in 1 .. Len(c) : v[i] = c[i]  BY <1>1, <1>2, <1>3 DEF ChainIs
<1>5. ASSUME NEW i \in 1 .. Len(c) PROVE ToSet(tree[c[i]].keys) \subseteq s[c[i]]
  <2> DEFINE p == c[i]
             keys == tree[p].keys
  <2>1. p \in DOMAIN tree /\ h[p] = 0  BY <1>2 DEF LeavesIn
  <2>2. LeafShape(tree[p], s[p])  BY <2>1 DEF WellRooted, Well, LeafOK
  <2>3. DOMAIN keys = 1 .. Len(keys) /\ \A j \in 1 .. Len(keys) : keys[j] \in s[p]
    <3> HIDE DEF p
    <3> QED BY <2>2, LeafFacts
  <2> HIDE DEF keys
  <2> QED BY <2>3 DEF ToSet, keys
<1>6. ASSUME NEW i \in DOMAIN v, NEW j \in DOMAIN v, i < j,
             NEW k \in ToSet(tree[v[i]].keys), NEW l \in ToSet(tree[v[j]].keys)
      PROVE  k < l
  <2>1. i \in 1 .. Len(c) /\ j \in 1 .. Len(c) /\ v[i] = c[i] /\ v[j] = c[j]  BY <1>4, <1>6
  <2>2. k \in s[c[i]] /\ l \in s[c[j]]  BY <1>5, <1>6, <2>1
  <2> QED BY <1>2, <1>6, <2>1, <2>2
<1> QED BY <1>6 DEF KeysAscendAlongChain, n, v

----------------------------------------------------------------------------
(* Deletion.  v is the bucket q without r: what follows r closes up.       *)
BucketLess(q, r, v) ==
    /\ v \in Bucket /\ ToSet(v) = ToSet(q) \ {r}
    /\ \A j \in 1 .. Len(v) : \E m \in 1 .. Len(q) : m >= j /\ v[j] = q[m]

LEMMA BucketRemove ==
    ASSUME NEW q \in Bucket, NEW r \in ToSet(q)
    PROVE  BucketLess(q, r, bucket_delete(q, r))
<1> DEFINE i == CHOOSE j \in DOMAIN q : q[j] = r
           n == Len(q)
           v == bucket_delete(q, r)
<1>1. /\ q \in Seq(Rids) /\ n \in Nat /\ n <= ridsPerBucket /\ DOMAIN q = 1 .. n
      /\ ridsPerBucket \in Nat /\ \A j, m \in 1 .. n : q[j] = q[m] => j = m
  BY IndexTreeAssumption DEF Bucket, IsInjective
<1>2. i \in 1 .. n /\ q[i] = r
  <2>1. \E j \in DOMAIN q : q[j] = r  BY DEF ToSet
  <2> QED BY <1>1, <2>1
<1>3. v = RemoveAt(q, i)  BY DEF bucket_delete
<1> HIDE DEF i, v, n
<1>4. IsRemoved(Rids, q, i, v)  BY <1>1, <1>2, <1>3, RemoveAtIs DEF n
<1>5. /\ v \in Seq(Rids) /\ Len(v) = n - 1 /\ DOMAIN v = 1 .. n - 1
      /\ \A j \in 1 .. n - 1 : j < i => v[j] = q[j]
      /\ \A j \in 1 .. n - 1 : j >= i => v[j] = q[j + 1]
  BY <1>4 DEF IsRemoved, n
<1> DEFINE Origin(j) == IF j < i THEN j ELSE j + 1
<1>6. \A j \in 1 .. n - 1 : Origin(j) \in 1 .. n /\ Origin(j) >= j /\ Origin(j) # i
                            /\ v[j] = q[Origin(j)]
  <2> TAKE j \in 1 .. n - 1
  <2>1. j + 1 \in 1 .. n /\ j \in 1 .. n  BY <1>1
  <2>2. v[j] = q[Origin(j)]
    <3>1. CASE j < i  BY <1>5, <3>1
    <3>2. CASE ~(j < i)  BY <1>1, <1>2, <1>5, <3>2
    <3> QED BY <3>1, <3>2
  <2> QED BY <1>1, <1>2, <2>1, <2>2
<1>7. \A j, m \in 1 .. n - 1 : Origin(j) = Origin(m) => j = m  BY <1>1, <1>2
<1>8. \A m \in 1 .. n : m # i => \E j \in 1 .. n - 1 : Origin(j) = m
  <2> TAKE m \in 1 .. n
  <2> HAVE m # i
  <2>1. CASE m < i
    <3>1. m \in 1 .. n - 1 /\ Origin(m) = m  BY <1>1, <1>2, <2>1
    <3> QED BY <3>1
  <2>2. CASE ~(m < i)
    <3>1. m - 1 \in 1 .. n - 1 /\ Origin(m - 1) = m  BY <1>1, <1>2, <2>2
    <3> QED BY <3>1
  <2> QED BY <2>1, <2>2
<1> HIDE DEF Origin
<1>9. IsInjective(v)
  <2>1. \A j, m \in 1 .. n - 1 : v[j] = v[m] => j = m  BY <1>1, <1>6, <1>7
  <2> QED BY <1>5, <2>1 DEF IsInjective
<1>10. v \in Bucket  BY <1>1, <1>5, <1>9 DEF Bucket
<1>11. ToSet(v) = ToSet(q) \ {r}
  <2>1. \A x : x \in ToSet(q) <=> \E m \in 1 .. n : q[m] = x  BY <1>1, ToSetIs DEF n
  <2>2. \A x : x \in ToSet(v) <=> \E j \in 1 .. n - 1 : v[j] = x  BY <1>5, ToSetIs
  <2>3. \A x \in ToSet(v) : x \in ToSet(q) \ {r}  BY <1>1, <1>2, <1>6, <2>1, <2>2
  <2>4. \A x \in ToSet(q) \ {r} : x \in ToSet(v)
    <3> TAKE x \in ToSet(q) \ {r}
    <3>1. PICK m \in 1 .. n : q[m] = x  BY <2>1
    <3>2. m # i  BY <1>2, <3>1
    <3>3. PICK j \in 1 .. n - 1 : Origin(j) = m  BY <1>8, <3>2
    <3> QED BY <1>6, <2>2, <3>1, <3>3
  <2> QED BY <2>3, <2>4
<1>12. \A j \in 1 .. Len(v) : \E m \in 1 .. Len(q) : m >= j /\ v[j] = q[m]
  BY <1>5, <1>6 DEF n
<1> QED BY <1>10, <1>11, <1>12 DEF BucketLess, v

(* n2 is the leaf n without r in bucket i.                                 *)
LeafLess(n, S, i, r, n2) ==
    /\ LeafShape(n2, S) /\ n2.keys = n.keys /\ n2.next = n.next
    /\ EntriesOf(n2) = EntriesOf(n) \ {<<n.keys[i], r>>}
    /\ BucketLess(n.rids[i], r, n2.rids[i])
    /\ \A j \in 1 .. Len(n.keys) : j # i => n2.rids[j] = n.rids[j]

LEMMA LeafRemove ==
    ASSUME NEW S, NEW n, LeafShape(n, S), NEW i \in 1 .. Len(n.keys), NEW r \in ToSet(n.rids[i])
    PROVE  LeafLess(n, S, i, r, [n EXCEPT !.rids[i] = bucket_delete(@, r)])
<1> DEFINE k == n.keys[i]
           B == n.rids[i]
           C == bucket_delete(B, r)
           rids == [n.rids EXCEPT ![i] = C]
           y == [n EXCEPT !.rids[i] = bucket_delete(@, r)]
<1>1. /\ n = Leaf(n.keys, n.rids, n.next) /\ n.keys \in Seq(Keys)
      /\ DOMAIN n.keys = 1 .. Len(n.keys) /\ Len(n.keys) \in Nat
      /\ n.rids \in Seq(Bucket) /\ Len(n.rids) = Len(n.keys) /\ DOMAIN n.rids = 1 .. Len(n.keys)
      /\ Sorted(n.keys) /\ \A j \in 1 .. Len(n.keys) : n.keys[j] \in S
      /\ \A j \in 1 .. Len(n.keys) : n.keys[j] \in Int
  <2>1. /\ n = Leaf(n.keys, n.rids, n.next) /\ n.keys \in Seq(Keys)
        /\ n.rids \in Seq(Bucket) /\ Len(n.rids) = Len(n.keys)
        /\ Sorted(n.keys) /\ \A j \in 1 .. Len(n.keys) : n.keys[j] \in S
    BY DEF LeafShape
  <2> QED BY <2>1, LeafFacts
<1>2. B \in Bucket  BY <1>1
<1>3. BucketLess(B, r, C)
  <2> HIDE DEF B
  <2>1. r \in ToSet(B)  BY DEF B
  <2> QED BY <1>2, <2>1, BucketRemove
<1>4. y = Leaf(n.keys, rids, n.next)
  <2> DEFINE keys == n.keys
             buckets == n.rids
             next == n.next
  <2>1. n = Leaf(keys, buckets, next)  BY <1>1
  <2>2. y = [n EXCEPT !.rids[i] = C]  OBVIOUS
  <2> HIDE DEF keys, buckets, next, C
  <2>3. [Leaf(keys, buckets, next) EXCEPT !.rids[i] = C]
          = Leaf(keys, [buckets EXCEPT ![i] = C], next)
    BY DEF Leaf
  <2>4. y = Leaf(keys, [buckets EXCEPT ![i] = C], next)  BY <2>1, <2>2, <2>3
  <2> QED BY <2>4 DEF keys, buckets, next
<1>5. C \in Bucket /\ ToSet(C) = ToSet(B) \ {r}  BY <1>3 DEF BucketLess
<1>6. rids \in Seq(Bucket) /\ Len(rids) = Len(n.keys) /\ DOMAIN rids = 1 .. Len(n.keys)
      /\ \A j \in 1 .. Len(n.keys) : rids[j] = IF j = i THEN C ELSE n.rids[j]
  <2> HIDE DEF C
  <2> QED BY <1>1, <1>5
<1>7. \A j \in 1 .. Len(n.keys) :
        ToSet(rids[j]) = IF j = i THEN ToSet(n.rids[j]) \ {r} ELSE ToSet(n.rids[j])
  <2> HIDE DEF rids, C
  <2> QED BY <1>5, <1>6
<1>8. rids[i] = C /\ \A j \in 1 .. Len(n.keys) : j # i => rids[j] = n.rids[j]
  <2> HIDE DEF rids, C
  <2> QED BY <1>6
<1> HIDE DEF y, B, C, rids
<1>9. y.keys = n.keys /\ y.rids = rids /\ y.next = n.next  BY <1>4, LeafFields
<1>10. LeafShape(y, S)  BY <1>1, <1>4, <1>6, <1>9 DEF LeafShape
<1>11. EntriesOf(y) = EntriesOf(n) \ {<<k, r>>}
  <2>1. \A k2, r2 : <<k2, r2>> \in EntriesOf(y)
                      <=> <<k2, r2>> \in EntriesOf(n) /\ ~(k2 = k /\ r2 = r)
    <3> TAKE k2, r2
    <3>1. <<k2, r2>> \in EntriesOf(y)
            <=> \E j \in 1 .. Len(n.keys) : n.keys[j] = k2 /\ r2 \in ToSet(rids[j])
      <4>1. <<k2, r2>> \in EntriesOf(y)
              <=> \E j \in DOMAIN y.keys : y.keys[j] = k2 /\ r2 \in ToSet(y.rids[j])
        BY EntriesOfIs
      <4> HIDE DEF k
      <4>2. y.keys = n.keys /\ y.rids = rids /\ DOMAIN n.keys = 1 .. Len(n.keys)  BY <1>1, <1>9
      <4> QED BY <4>1, <4>2
    <3>2. <<k2, r2>> \in EntriesOf(n)
            <=> \E j \in 1 .. Len(n.keys) : n.keys[j] = k2 /\ r2 \in ToSet(n.rids[j])
      <4>1. <<k2, r2>> \in EntriesOf(n)
              <=> \E j \in DOMAIN n.keys : n.keys[j] = k2 /\ r2 \in ToSet(n.rids[j])
        BY EntriesOfIs
      <4> HIDE DEF k
      <4> QED BY <1>1, <4>1
    <3>3. \A j \in 1 .. Len(n.keys) : n.keys[j] = k => j = i
      <4> DEFINE keys == n.keys
      <4>1. keys \in Seq(Int) /\ Sorted(keys) /\ i \in 1 .. Len(keys)  BY <1>1, KeysInt
      <4> HIDE DEF keys
      <4>2. \A j \in 1 .. Len(keys) : keys[j] = keys[i] => j = i  BY <4>1, SortedOnce
      <4> QED BY <4>2 DEF keys
    <3>4. n.keys[i] = k  OBVIOUS
    <3> HIDE DEF k
    <3> QED BY <1>7, <3>1, <3>2, <3>3, <3>4
  <2>2. \A e \in EntriesOf(y) : e = <<e[1], e[2]>>  BY EntriesOfIs
  <2>3. \A e \in EntriesOf(n) \ {<<k, r>>} : e = <<e[1], e[2]>>  BY EntriesOfIs
  <2> HIDE DEF k
  <2>4. \A k2, r2 : <<k2, r2>> \in EntriesOf(y) <=> <<k2, r2>> \in EntriesOf(n) \ {<<k, r>>}
    BY <2>1
  <2> QED BY <2>2, <2>3, <2>4, PairsSame
<1> QED BY <1>3, <1>8, <1>9, <1>10, <1>11 DEF LeafLess, B, y

(* Where an entry of k is, if there is one.                                *)
PlaceIs(t, h, s, k, r, p, i) ==
    /\ p \in DOMAIN t /\ h[p] = 0 /\ k \in s[p] /\ LeafShape(t[p], s[p])
    /\ i \in 1 .. Len(t[p].keys) + 1
    /\ i \in DOMAIN t[p].keys /\ t[p].keys[i] = k /\ r \in ToSet(t[p].rids[i])
         <=> <<k, r>> \in EntriesIn(t)

LEMMA DeletePlace ==
    ASSUME NEW t, NEW h, NEW s, NEW c, NEW from, NEW l, WellRooted(t, from, l, h, s, c), l = FALSE,
           NEW k \in Keys, NEW r, NEW p, p = Last(PathIn(t, from, k)),
           NEW i, i = FirstAbove(t[p].keys, k - 1)
    PROVE  PlaceIs(t, h, s, k, r, p, i)
<1>1. Well(t, h, s, c, h[from]) /\ s[from] = Int  BY DEF WellRooted
<1>2. k \in Int /\ k \in s[from]  BY <1>1, KeysInt
<1>3. PathEnds(t, h, s, from, k, PathIn(t, from, k))  BY <1>2, PathEndsIs
<1>4. p \in DOMAIN t /\ h[p] = 0 /\ k \in s[p]  BY <1>3 DEF PathEnds
<1>5. LeafShape(t[p], s[p])  BY <1>1, <1>4 DEF Well, LeafOK
<1> DEFINE keys == t[p].keys
           rids == t[p].rids
<1>6. keys \in Seq(Keys) /\ Sorted(keys) /\ DOMAIN keys = 1 .. Len(keys)  BY <1>5, LeafFacts
<1>7. i = FirstAbove(keys, k - 1)  OBVIOUS
<1>8. <<k, r>> \in EntriesOf(t[p]) <=> \E j \in DOMAIN keys : keys[j] = k /\ r \in ToSet(rids[j])
  BY EntriesOfIs
<1>9. <<k, r>> \in EntriesIn(t) <=> <<k, r>> \in EntriesOf(t[p])
  <2>1. p \in LeavesIn(t)  BY <1>1, <1>4, LeafIff
  <2>2. EntriesIn(t) = EntriesOf(t[p]) \cup Elsewhere(t, p)  BY <2>1, EntriesSplit
  <2>3. WithKey(Elsewhere(t, p), k) = {}  BY <1>1, <1>4, KeyElsewhere
  <2>4. <<k, r>> \notin Elsewhere(t, p)
    <3> SUFFICES ASSUME <<k, r>> \in Elsewhere(t, p) PROVE FALSE  OBVIOUS
    <3>1. <<k, r>>[1] = k  OBVIOUS
    <3>2. <<k, r>> \in WithKey(Elsewhere(t, p), k)  BY <3>1 DEF WithKey
    <3> QED BY <2>3, <3>2
  <2> QED BY <2>2, <2>4
<1> HIDE DEF keys, rids
<1>10. /\ i \in 1 .. Len(keys) + 1
       /\ \A j \in 1 .. Len(keys) : keys[j] = k => j = i
  BY <1>6, <1>7, EntryPlace
<1>11. i \in DOMAIN keys /\ keys[i] = k /\ r \in ToSet(rids[i]) <=> <<k, r>> \in EntriesIn(t)
  BY <1>6, <1>8, <1>9, <1>10
<1> QED BY <1>4, <1>5, <1>10, <1>11 DEF PlaceIs, keys, rids

(* The entry at position i of leaf p loses r.                              *)
EntryGone(t, from, h, s, c, k, r, p, i, t2) ==
    /\ WellRooted(t2, from, FALSE, h, s, c) /\ EntriesIn(t2) = EntriesIn(t) \ {<<k, r>>}
    /\ DOMAIN t2 = DOMAIN t /\ \A q \in DOMAIN t : q # p => t2[q] = t[q]
    /\ LeafLess(t[p], s[p], i, r, t2[p])

LEMMA DeleteIs ==
    ASSUME NEW t, NEW h, NEW s, NEW c, NEW from, WellRooted(t, from, FALSE, h, s, c),
           NEW k \in Keys, NEW r, NEW p, NEW i, PlaceIs(t, h, s, k, r, p, i),
           i \in DOMAIN t[p].keys, t[p].keys[i] = k, r \in ToSet(t[p].rids[i])
    PROVE  EntryGone(t, from, h, s, c, k, r, p, i, [t EXCEPT ![p].rids[i] = bucket_delete(@, r)])
<1> DEFINE n == t[p]
           n2 == [n EXCEPT !.rids[i] = bucket_delete(@, r)]
           t2 == [t EXCEPT ![p].rids[i] = bucket_delete(@, r)]
           H == h[from]
<1>1. Well(t, h, s, c, H)  BY DEF WellRooted
<1>2. p \in DOMAIN t /\ h[p] = 0 /\ k \in s[p] /\ LeafShape(n, s[p])  BY DEF PlaceIs
<1>3. t2 = [t EXCEPT ![p] = n2]  OBVIOUS
<1> DEFINE S == s[p]
<1>4. LeafLess(n, S, i, r, n2)
  <2>1. LeafShape(n, S) /\ i \in DOMAIN n.keys /\ r \in ToSet(n.rids[i])  BY <1>2
  <2>2. n2 = [n EXCEPT !.rids[i] = bucket_delete(@, r)]  OBVIOUS
  <2> HIDE DEF n, S, n2
  <2>3. i \in 1 .. Len(n.keys)  BY <2>1, LeafFacts
  <2> QED BY <2>1, <2>2, <2>3, LeafRemove
<1>5. DOMAIN t2 = DOMAIN t /\ t2[p] = n2 /\ \A q \in DOMAIN t : q # p => t2[q] = t[q]
  <2>1. \E N \in Nat : DOMAIN t = 1 .. N  BY <1>1 DEF Well, Numbered
  <2> HIDE DEF n2
  <2> DEFINE tt == [t EXCEPT ![p] = n2]
  <2>2. DOMAIN tt = DOMAIN t /\ tt[p] = n2 /\ \A q \in DOMAIN t : q # p => tt[q] = t[q]
    BY <1>2
  <2> QED BY <1>3, <2>2
<1> HIDE DEF n2, t2
<1>6. n2.keys = n.keys /\ n2.next = n.next /\ LeafShape(n2, S)
      /\ EntriesOf(n2) = EntriesOf(n) \ {<<k, r>>}
  BY <1>4 DEF LeafLess
<1>7. LeafReplaced(t, s, p, n2, t2)
  <2>1. Len(n.keys) <= b - 1 /\ (n.keys # <<>> \/ DOMAIN t = {p})
    BY <1>1, <1>2 DEF Well, LeafOK
  <2>2. LeafOK(n2, s[p])  BY <1>6, <2>1 DEF LeafOK
  <2> QED BY <1>5, <1>6, <2>1, <2>2 DEF LeafReplaced
<1>8. Well(t2, h, s, c, H) /\ EntriesIn(t2) = EntriesOf(n2) \cup Elsewhere(t, p)
  <2> HIDE DEF H
  <2> QED BY <1>1, <1>2, <1>7, ReplaceLeaf
<1>9. WellRooted(t2, from, FALSE, h, s, c)
  <2>1. /\ from \in DOMAIN t /\ H \in Nat /\ \A q \in DOMAIN t : h[q] <= H
        /\ DownClosed(s[from]) /\ s[from] = Int
    BY DEF WellRooted
  <2> QED BY <1>5, <1>8, <2>1 DEF WellRooted
<1>10. EntriesIn(t2) = EntriesIn(t) \ {<<k, r>>}
  <2>1. p \in LeavesIn(t)  BY <1>1, <1>2, LeafIff
  <2>2. EntriesIn(t) = EntriesOf(n) \cup Elsewhere(t, p)  BY <2>1, EntriesSplit
  <2>3. WithKey(Elsewhere(t, p), k) = {}  BY <1>1, <1>2, KeyElsewhere
  <2>4. <<k, r>> \notin Elsewhere(t, p)
    <3> SUFFICES ASSUME <<k, r>> \in Elsewhere(t, p) PROVE FALSE  OBVIOUS
    <3>1. <<k, r>>[1] = k  OBVIOUS
    <3>2. <<k, r>> \in WithKey(Elsewhere(t, p), k)  BY <3>1 DEF WithKey
    <3> QED BY <2>3, <3>2
  <2> DEFINE e == <<k, r>>
             A == EntriesOf(n)
             B == Elsewhere(t, p)
  <2>5. EntriesIn(t2) = (A \ {e}) \cup B /\ EntriesIn(t) = A \cup B /\ e \notin B
    BY <1>6, <1>8, <2>2, <2>4
  <2> HIDE DEF e, A, B
  <2> QED BY <2>5 DEF e
<1> QED BY <1>4, <1>5, <1>9, <1>10 DEF EntryGone, t2

----------------------------------------------------------------------------
(* What a scan comes by: the entries j of the leaves c[y], in this order.  *)
At(t, c, y, j) == y \in 1 .. Len(c) /\ j \in 1 .. Len(t[c[y]].keys)
KeyAt(t, c, y, j) == t[c[y]].keys[j]
RidsAt(t, c, y, j) == t[c[y]].rids[j]
Before(y, j, y2, j2) == y < y2 \/ (y = y2 /\ j < j2)

Has(t, c, y, j, m, k, r) ==
    /\ At(t, c, y, j) /\ KeyAt(t, c, y, j) = k
    /\ m \in 1 .. Len(RidsAt(t, c, y, j)) /\ RidsAt(t, c, y, j)[m] = r

EntryThere(t, c, k, r) == \E y, j, m : Has(t, c, y, j, m, k, r)

(* The keys ascend on the way, and all entries are on it.                  *)
Ordered(t, c) ==
    /\ Len(c) \in Nat /\ \A y \in 1 .. Len(c) : Len(t[c[y]].keys) \in Nat
    /\ \A y, j : At(t, c, y, j) => KeyAt(t, c, y, j) \in Keys /\ RidsAt(t, c, y, j) \in Bucket
    /\ \A y, j, y2, j2 : At(t, c, y, j) /\ At(t, c, y2, j2) /\ Before(y, j, y2, j2)
                            => KeyAt(t, c, y, j) < KeyAt(t, c, y2, j2)
    /\ \A k, r : <<k, r>> \in EntriesIn(t) <=> EntryThere(t, c, k, r)

LEMMA ChainLeafShape ==
    ASSUME NEW t, NEW r, NEW l, NEW h, NEW s, NEW c, WellRooted(t, r, l, h, s, c),
           NEW y \in 1 .. Len(c)
    PROVE  LeafShape(t[c[y]], s[c[y]]) /\ c[y] \in LeavesIn(t) /\ c[y] \in DOMAIN t
<1>1. c[y] \in LeavesIn(t) /\ h[c[y]] = 0  BY ChainLeaves
<1>2. c[y] \in DOMAIN t  BY <1>1 DEF LeavesIn
<1> QED BY <1>1, <1>2 DEF WellRooted, Well, LeafOK

LEMMA OrderedIs ==
    ASSUME NEW t, NEW r, NEW l, NEW h, NEW s, NEW c, WellRooted(t, r, l, h, s, c)
    PROVE  Ordered(t, c)
<1>1. /\ Len(c) \in Nat
      /\ \A p \in LeavesIn(t) : \E i \in 1 .. Len(c) : c[i] = p
      /\ \A i, j \in 1 .. Len(c) : i < j => \A x \in s[c[i]], y \in s[c[j]] : x < y
  BY ChainLeaves
<1>2. ASSUME NEW y \in 1 .. Len(c)
      PROVE  /\ Len(t[c[y]].keys) \in Nat /\ DOMAIN t[c[y]].keys = 1 .. Len(t[c[y]].keys)
             /\ Sorted(t[c[y]].keys)
             /\ \A j \in 1 .. Len(t[c[y]].keys) :
                  /\ t[c[y]].keys[j] \in s[c[y]] /\ t[c[y]].keys[j] \in Keys
                  /\ t[c[y]].rids[j] \in Bucket
  <2> DEFINE n == t[c[y]]
             S == s[c[y]]
  <2>1. LeafShape(n, S)  BY ChainLeafShape
  <2> HIDE DEF n, S
  <2>2. /\ Len(n.keys) \in Nat /\ DOMAIN n.keys = 1 .. Len(n.keys) /\ Sorted(n.keys)
        /\ \A j \in 1 .. Len(n.keys) :
             n.keys[j] \in S /\ n.keys[j] \in Keys /\ n.rids[j] \in Bucket
    BY <2>1, LeafFacts
  <2> QED BY <2>2 DEF n, S
<1>3. ASSUME NEW y, NEW j, At(t, c, y, j)
      PROVE  KeyAt(t, c, y, j) \in Keys /\ RidsAt(t, c, y, j) \in Bucket
  BY <1>2, <1>3 DEF At, KeyAt, RidsAt
<1>4. ASSUME NEW y, NEW j, NEW y2, NEW j2, At(t, c, y, j), At(t, c, y2, j2), Before(y, j, y2, j2)
      PROVE  KeyAt(t, c, y, j) < KeyAt(t, c, y2, j2)
  <2>1. /\ y \in 1 .. Len(c) /\ j \in 1 .. Len(t[c[y]].keys)
        /\ y2 \in 1 .. Len(c) /\ j2 \in 1 .. Len(t[c[y2]].keys)
    BY <1>4 DEF At
  <2>2. t[c[y]].keys[j] \in s[c[y]] /\ t[c[y2]].keys[j2] \in s[c[y2]]  BY <1>2, <2>1
  <2>3. CASE y < y2  BY <1>1, <2>1, <2>2, <2>3 DEF KeyAt
  <2>4. CASE y = y2 /\ j < j2  BY <1>2, <2>1, <2>4 DEF KeyAt, Sorted
  <2> QED BY <1>4, <2>3, <2>4 DEF Before
<1>5. ASSUME NEW k, NEW v
      PROVE  <<k, v>> \in EntriesIn(t) <=> EntryThere(t, c, k, v)
  <2>1. ASSUME <<k, v>> \in EntriesIn(t) PROVE EntryThere(t, c, k, v)
    <3>1. PICK p \in LeavesIn(t) : <<k, v>> \in EntriesOf(t[p])  BY <2>1 DEF EntriesIn
    <3>2. PICK y \in 1 .. Len(c) : c[y] = p  BY <1>1, <3>1
    <3>3. PICK j \in DOMAIN t[p].keys : t[p].keys[j] = k /\ v \in ToSet(t[p].rids[j])
      BY <3>1, EntriesOfIs
    <3>4. j \in 1 .. Len(t[c[y]].keys)  BY <1>2, <3>2, <3>3
    <3>5. At(t, c, y, j) /\ KeyAt(t, c, y, j) = k /\ v \in ToSet(RidsAt(t, c, y, j))
      BY <3>2, <3>3, <3>4 DEF At, KeyAt, RidsAt
    <3> DEFINE q == RidsAt(t, c, y, j)
    <3>6. q \in Seq(Rids)  BY <1>3, <3>5 DEF Bucket
    <3>7. \E m \in 1 .. Len(q) : q[m] = v
      <4>1. v \in ToSet(q)  BY <3>5
      <4> HIDE DEF q
      <4> QED BY <3>6, <4>1, ToSetIs
    <3> QED BY <3>5, <3>7 DEF EntryThere, Has
  <2>2. ASSUME EntryThere(t, c, k, v) PROVE <<k, v>> \in EntriesIn(t)
    <3>1. PICK y, j, m : Has(t, c, y, j, m, k, v)  BY <2>2 DEF EntryThere
    <3>2. At(t, c, y, j) /\ KeyAt(t, c, y, j) = k /\ m \in 1 .. Len(RidsAt(t, c, y, j))
          /\ RidsAt(t, c, y, j)[m] = v
      BY <3>1 DEF Has
    <3> DEFINE q == RidsAt(t, c, y, j)
    <3>3. q \in Seq(Rids)  BY <1>3, <3>2 DEF Bucket
    <3>4. v \in ToSet(q)
      <4>1. m \in 1 .. Len(q) /\ q[m] = v  BY <3>2
      <4> HIDE DEF q
      <4> QED BY <3>3, <4>1, ToSetIs
    <3>5. c[y] \in LeavesIn(t) /\ j \in DOMAIN t[c[y]].keys /\ t[c[y]].keys[j] = k
          /\ v \in ToSet(t[c[y]].rids[j])
      BY <1>2, <3>2, <3>4, ChainLeafShape DEF At, KeyAt, RidsAt
    <3>6. <<k, v>> \in EntriesOf(t[c[y]])  BY <3>5, EntriesOfIs
    <3> QED BY <3>5, <3>6 DEF EntriesIn
  <2> QED BY <2>1, <2>2
<1>6. \A y \in 1 .. Len(c) : Len(t[c[y]].keys) \in Nat  BY <1>2
<1> QED BY <1>1, <1>3, <1>4, <1>5, <1>6 DEF Ordered

LEMMA HasOnce ==
    ASSUME NEW t, NEW c, Ordered(t, c), NEW k, NEW r, NEW r2,
           NEW y, NEW j, NEW m, Has(t, c, y, j, m, k, r),
           NEW y2, NEW j2, NEW m2, Has(t, c, y2, j2, m2, k, r2)
    PROVE  y = y2 /\ j = j2 /\ (r = r2 => m = m2)
<1>1. /\ At(t, c, y, j) /\ KeyAt(t, c, y, j) = k
      /\ m \in 1 .. Len(RidsAt(t, c, y, j)) /\ RidsAt(t, c, y, j)[m] = r
      /\ At(t, c, y2, j2) /\ KeyAt(t, c, y2, j2) = k
      /\ m2 \in 1 .. Len(RidsAt(t, c, y2, j2)) /\ RidsAt(t, c, y2, j2)[m2] = r2
  BY DEF Has
<1>2. k \in Int /\ RidsAt(t, c, y, j) \in Bucket  BY <1>1, KeysInt DEF Ordered
<1>3. ~Before(y, j, y2, j2) /\ ~Before(y2, j2, y, j)
  <2>1. Before(y, j, y2, j2) => k < k  BY <1>1 DEF Ordered
  <2>2. Before(y2, j2, y, j) => k < k  BY <1>1 DEF Ordered
  <2> QED BY <1>2, <2>1, <2>2
<1>4. y \in Int /\ y2 \in Int /\ j \in Int /\ j2 \in Int  BY <1>1 DEF At
<1>5. y = y2 /\ j = j2  BY <1>3, <1>4 DEF Before
<1> DEFINE q == RidsAt(t, c, y, j)
<1>6. q \in Bucket /\ m \in 1 .. Len(q) /\ m2 \in 1 .. Len(q) /\ q[m] = r /\ q[m2] = r2
  BY <1>1, <1>2, <1>5
<1> HIDE DEF q
<1>7. DOMAIN q = 1 .. Len(q) /\ IsInjective(q)  BY <1>6 DEF Bucket
<1>8. r = r2 => m = m2  BY <1>6, <1>7 DEF IsInjective
<1> QED BY <1>5, <1>8

(* What a scan at identifier pos of entry i of leaf c[x] has still before  *)
(* it, where v is the value and op the comparison it asks for.             *)
Ops == {"NO", "EQ", "NE", "LT", "LE", "GT", "GE"}

Beyond(x, i, pos, y, j, m) == Before(x, i, y, j) \/ (y = x /\ j = i /\ m >= pos)

Ahead(t, c, x, i, pos, k, r) ==
    \E y, j, m : Has(t, c, y, j, m, k, r) /\ Beyond(x, i, pos, y, j, m)

PositionIs(t, c, x, i, pos) ==
    x \in 1 .. Len(c) /\ i \in 1 .. Len(t[c[x]].keys) + 1 /\ pos \in Nat \ {0}

(* D is due and dist disturbed.                                            *)
ScanAt(t, c, x, i, pos, op, v, D, dist) ==
    /\ PositionIs(t, c, x, i, pos)
    /\ \A k, r : <<k, r>> \in D
                    => Satisfies(k, op, v) /\ (k \in dist \/ Ahead(t, c, x, i, pos, k, r))
    /\ \A k, r : Ahead(t, c, x, i, pos, k, r) /\ Satisfies(k, op, v) => <<k, r>> \in D
    /\ Seeks(op) => \A y, j : At(t, c, y, j) /\ ~Before(y, j, x, i)
                                => Satisfies(KeyAt(t, c, y, j), op, v)

(* A scan goes on over entries it has not to return.                       *)
Moves(t, c, x, i, pos, x2, i2, pos2, op, v) ==
    /\ PositionIs(t, c, x2, i2, pos2)
    /\ \A k, r : Ahead(t, c, x2, i2, pos2, k, r) => Ahead(t, c, x, i, pos, k, r)
    /\ \A k, r : Ahead(t, c, x, i, pos, k, r) /\ Satisfies(k, op, v)
                    => Ahead(t, c, x2, i2, pos2, k, r)
    /\ \A y, j : At(t, c, y, j) /\ Before(y, j, x, i) => Before(y, j, x2, i2)

LEMMA MoveOn ==
    ASSUME NEW t, NEW c, NEW x, NEW i, NEW pos, NEW x2, NEW i2, NEW pos2, NEW op, NEW v,
           NEW D, NEW dist, ScanAt(t, c, x, i, pos, op, v, D, dist),
           Moves(t, c, x, i, pos, x2, i2, pos2, op, v)
    PROVE  ScanAt(t, c, x2, i2, pos2, op, v, D, dist)
<1>1. \A k, r : <<k, r>> \in D
                  => Satisfies(k, op, v) /\ (k \in dist \/ Ahead(t, c, x2, i2, pos2, k, r))
  BY DEF ScanAt, Moves
<1>2. \A k, r : Ahead(t, c, x2, i2, pos2, k, r) /\ Satisfies(k, op, v) => <<k, r>> \in D
  BY DEF ScanAt, Moves
<1>3. Seeks(op) => \A y, j : At(t, c, y, j) /\ ~Before(y, j, x2, i2)
                               => Satisfies(KeyAt(t, c, y, j), op, v)
  BY DEF ScanAt, Moves
<1>4. PositionIs(t, c, x2, i2, pos2)  BY DEF Moves
<1> QED BY <1>1, <1>2, <1>3, <1>4 DEF ScanAt

LEMMA NextLeafMoves ==
    ASSUME NEW t, NEW c, Ordered(t, c), NEW x, NEW i, NEW pos, PositionIs(t, c, x, i, pos),
           NEW op, NEW v, i = Len(t[c[x]].keys) + 1, x < Len(c)
    PROVE  Moves(t, c, x, i, pos, x + 1, 1, 1, op, v)
<1>1. /\ Len(c) \in Nat /\ x \in 1 .. Len(c) /\ Len(t[c[x]].keys) \in Nat
      /\ \A y \in 1 .. Len(c) : Len(t[c[y]].keys) \in Nat
  BY DEF Ordered, PositionIs
<1>2. x + 1 \in 1 .. Len(c)  BY <1>1
<1>3. PositionIs(t, c, x + 1, 1, 1)
  <2>1. Len(t[c[x + 1]].keys) \in Nat  BY <1>1, <1>2
  <2>2. 1 \in 1 .. Len(t[c[x + 1]].keys) + 1  BY <2>1
  <2> QED BY <1>2, <2>2 DEF PositionIs
<1>4. ASSUME NEW y, NEW j, NEW m, At(t, c, y, j), m \in Nat \ {0}
      PROVE  Beyond(x + 1, 1, 1, y, j, m) <=> Beyond(x, i, pos, y, j, m)
  <2>1. y \in 1 .. Len(c) /\ j \in 1 .. Len(t[c[y]].keys)  BY <1>4 DEF At
  <2>2. Len(t[c[y]].keys) \in Nat  BY <1>1, <2>1
  <2>3. y = x => j < i  BY <1>1, <2>1, <2>2
  <2>4. y \in Int /\ j \in Int /\ j >= 1 /\ m \in Int /\ m >= 1 /\ x \in Int /\ i \in Int
    BY <1>1, <1>4, <2>1, <2>2
  <2>5. Beyond(x + 1, 1, 1, y, j, m) <=> y > x  BY <2>4 DEF Beyond, Before
  <2>6. Beyond(x, i, pos, y, j, m) <=> y > x  BY <2>3, <2>4 DEF Beyond, Before
  <2> QED BY <2>5, <2>6
<1>5. \A y, j, m, k, r : Has(t, c, y, j, m, k, r)
                           => (Beyond(x + 1, 1, 1, y, j, m) <=> Beyond(x, i, pos, y, j, m))
  <2>1. \A y, j, m, k, r : Has(t, c, y, j, m, k, r) => At(t, c, y, j) /\ m \in Nat \ {0}
    BY DEF Has
  <2> QED BY <1>4, <2>1
<1>6. \A k, r : Ahead(t, c, x + 1, 1, 1, k, r) <=> Ahead(t, c, x, i, pos, k, r)
  BY <1>5 DEF Ahead
<1>7. \A y, j : At(t, c, y, j) /\ Before(y, j, x, i) => Before(y, j, x + 1, 1)
  <2> SUFFICES ASSUME NEW y, NEW j, At(t, c, y, j), Before(y, j, x, i)
               PROVE  Before(y, j, x + 1, 1)
    OBVIOUS
  <2>1. y \in Int /\ x \in Int /\ y <= x  BY <1>1 DEF At, Before
  <2> QED BY <2>1 DEF Before
<1> QED BY <1>3, <1>6, <1>7 DEF Moves

LEMMA NextKeyMoves ==
    ASSUME NEW t, NEW c, Ordered(t, c), NEW x, NEW i, NEW pos, PositionIs(t, c, x, i, pos),
           NEW op, NEW v, i # Len(t[c[x]].keys) + 1,
           ~Satisfies(KeyAt(t, c, x, i), op, v) \/ pos > Len(RidsAt(t, c, x, i))
    PROVE  Moves(t, c, x, i, pos, x, i + 1, 1, op, v)
<1>1. /\ Len(c) \in Nat /\ x \in 1 .. Len(c) /\ Len(t[c[x]].keys) \in Nat /\ pos \in Nat
      /\ i \in 1 .. Len(t[c[x]].keys) + 1
  BY DEF Ordered, PositionIs
<1>2. i \in 1 .. Len(t[c[x]].keys) /\ i + 1 \in 1 .. Len(t[c[x]].keys) + 1  BY <1>1
<1>3. PositionIs(t, c, x, i + 1, 1)  BY <1>1, <1>2 DEF PositionIs
<1>4. ASSUME NEW y, NEW j, NEW m, y \in Int, j \in Int, m \in Nat \ {0}
      PROVE  /\ Beyond(x, i + 1, 1, y, j, m) <=> Before(x, i, y, j)
             /\ Beyond(x, i, pos, y, j, m)
                  <=> Beyond(x, i + 1, 1, y, j, m) \/ (y = x /\ j = i /\ m >= pos)
  BY <1>1, <1>2, <1>4 DEF Beyond, Before
<1>5. \A y, j, m, k, r : Has(t, c, y, j, m, k, r) => y \in Int /\ j \in Int /\ m \in Nat \ {0}
  BY DEF Has, At
<1>6. ASSUME NEW k, NEW r, Ahead(t, c, x, i + 1, 1, k, r) PROVE Ahead(t, c, x, i, pos, k, r)
  <2>1. PICK y, j, m : Has(t, c, y, j, m, k, r) /\ Beyond(x, i + 1, 1, y, j, m)
    BY <1>6 DEF Ahead
  <2>2. Beyond(x, i, pos, y, j, m)  BY <1>4, <1>5, <2>1
  <2> QED BY <2>1, <2>2 DEF Ahead
<1>7. ASSUME NEW k, NEW r, Ahead(t, c, x, i, pos, k, r), Satisfies(k, op, v)
      PROVE  Ahead(t, c, x, i + 1, 1, k, r)
  <2>1. PICK y, j, m : Has(t, c, y, j, m, k, r) /\ Beyond(x, i, pos, y, j, m)
    BY <1>7 DEF Ahead
  <2>2. y = x /\ j = i => KeyAt(t, c, x, i) = k /\ m \in 1 .. Len(RidsAt(t, c, x, i))
    BY <2>1 DEF Has
  <2>3. ~(y = x /\ j = i /\ m >= pos)
    <3> SUFFICES ASSUME y = x, j = i, m >= pos PROVE FALSE  OBVIOUS
    <3>1. pos > Len(RidsAt(t, c, x, i)) /\ m \in 1 .. Len(RidsAt(t, c, x, i))  BY <1>7, <2>2
    <3>2. Len(RidsAt(t, c, x, i)) \in Nat
      <4>1. At(t, c, x, i)  BY <1>1, <1>2 DEF At
      <4>2. RidsAt(t, c, x, i) \in Bucket  BY <4>1 DEF Ordered
      <4> QED BY <4>2 DEF Bucket
    <3> QED BY <1>1, <3>1, <3>2
  <2>4. Beyond(x, i + 1, 1, y, j, m)  BY <1>4, <1>5, <2>1, <2>3
  <2> QED BY <2>1, <2>4 DEF Ahead
<1>8. \A y, j : At(t, c, y, j) /\ Before(y, j, x, i) => Before(y, j, x, i + 1)
  <2> SUFFICES ASSUME NEW y, NEW j, At(t, c, y, j), Before(y, j, x, i)
               PROVE  Before(y, j, x, i + 1)
    OBVIOUS
  <2>1. y \in Int /\ j \in Int  BY DEF At
  <2> QED BY <1>1, <2>1 DEF Before
<1> QED BY <1>3, <1>6, <1>7, <1>8 DEF Moves

(* It returns the identifier it is at.                                     *)
LEMMA GotIs ==
    ASSUME NEW t, NEW c, Ordered(t, c), NEW x, NEW i, NEW pos, NEW op, NEW v, NEW D, NEW dist,
           ScanAt(t, c, x, i, pos, op, v, D, dist), i # Len(t[c[x]].keys) + 1,
           Satisfies(KeyAt(t, c, x, i), op, v) \/ Seeks(op), ~(pos > Len(RidsAt(t, c, x, i))),
           NEW k, k = KeyAt(t, c, x, i), NEW r, r = RidsAt(t, c, x, i)[pos]
    PROVE  <<k, r>> \in D /\ ScanAt(t, c, x, i, pos + 1, op, v, D \ {<<k, r>>}, dist)
<1>1. /\ PositionIs(t, c, x, i, pos) /\ Len(t[c[x]].keys) \in Nat
      /\ x \in 1 .. Len(c) /\ Len(c) \in Nat /\ pos \in Nat \ {0}
      /\ i \in 1 .. Len(t[c[x]].keys)
  <2>1. PositionIs(t, c, x, i, pos) /\ x \in 1 .. Len(c)  BY DEF ScanAt, PositionIs
  <2>2. Len(t[c[x]].keys) \in Nat /\ Len(c) \in Nat  BY <2>1 DEF Ordered
  <2> QED BY <2>1, <2>2 DEF PositionIs
<1>2. At(t, c, x, i)  BY <1>1 DEF At
<1>3. Len(RidsAt(t, c, x, i)) \in Nat /\ k \in Keys
  <2>1. RidsAt(t, c, x, i) \in Bucket /\ k \in Keys  BY <1>2 DEF Ordered
  <2> QED BY <2>1 DEF Bucket
<1>4. Has(t, c, x, i, pos, k, r)  BY <1>1, <1>2, <1>3 DEF Has
<1>5. Satisfies(k, op, v)
  <2>1. ~Before(x, i, x, i)  BY <1>1 DEF Before
  <2>2. Seeks(op) => Satisfies(k, op, v)  BY <1>2, <2>1 DEF ScanAt
  <2> QED BY <2>2
<1>6. Ahead(t, c, x, i, pos, k, r)
  <2>1. Beyond(x, i, pos, x, i, pos)  BY <1>1 DEF Beyond
  <2> QED BY <1>4, <2>1 DEF Ahead
<1>7. <<k, r>> \in D  BY <1>5, <1>6 DEF ScanAt
<1>8. ASSUME NEW y, NEW j, NEW m, y \in Int, j \in Int, m \in Nat \ {0}
      PROVE  Beyond(x, i, pos, y, j, m)
               <=> Beyond(x, i, pos + 1, y, j, m) \/ (y = x /\ j = i /\ m = pos)
  <2>1. m >= pos <=> m >= pos + 1 \/ m = pos  BY <1>1, <1>8
  <2> QED BY <2>1 DEF Beyond
<1>9. \A y, j, m, k2, r2 : Has(t, c, y, j, m, k2, r2) => y \in Int /\ j \in Int /\ m \in Nat \ {0}
  BY DEF Has, At
<1>10. ASSUME NEW k2, NEW r2, Ahead(t, c, x, i, pos, k2, r2), <<k2, r2>> # <<k, r>>
       PROVE  Ahead(t, c, x, i, pos + 1, k2, r2)
  <2>1. PICK y, j, m : Has(t, c, y, j, m, k2, r2) /\ Beyond(x, i, pos, y, j, m)
    BY <1>10 DEF Ahead
  <2>2. ~(y = x /\ j = i /\ m = pos)
    <3> SUFFICES ASSUME y = x, j = i, m = pos PROVE FALSE  OBVIOUS
    <3>1. k2 = k /\ r2 = r  BY <1>4, <2>1 DEF Has
    <3> QED BY <1>10, <3>1
  <2>3. Beyond(x, i, pos + 1, y, j, m)  BY <1>8, <1>9, <2>1, <2>2
  <2> QED BY <2>1, <2>3 DEF Ahead
<1>11. ASSUME NEW k2, NEW r2, Ahead(t, c, x, i, pos + 1, k2, r2)
       PROVE  Ahead(t, c, x, i, pos, k2, r2) /\ <<k2, r2>> # <<k, r>>
  <2>1. PICK y, j, m : Has(t, c, y, j, m, k2, r2) /\ Beyond(x, i, pos + 1, y, j, m)
    BY <1>11 DEF Ahead
  <2>2. Beyond(x, i, pos, y, j, m)  BY <1>8, <1>9, <2>1
  <2>3. k2 = k /\ r2 = r => FALSE
    <3> SUFFICES ASSUME k2 = k, r2 = r PROVE FALSE  OBVIOUS
    <3>1. Has(t, c, y, j, m, k, r)  BY <2>1
    <3>2. y = x /\ j = i /\ m = pos  BY <1>4, <3>1, HasOnce
    <3> QED BY <1>1, <2>1, <3>2 DEF Beyond, Before
  <2> QED BY <2>1, <2>2, <2>3 DEF Ahead
<1> DEFINE D2 == D \ {<<k, r>>}
<1>12. PositionIs(t, c, x, i, pos + 1)  BY <1>1 DEF PositionIs
<1>13. \A k2, r2 : <<k2, r2>> \in D2
         => Satisfies(k2, op, v) /\ (k2 \in dist \/ Ahead(t, c, x, i, pos + 1, k2, r2))
  BY <1>10 DEF ScanAt
<1>14. \A k2, r2 : Ahead(t, c, x, i, pos + 1, k2, r2) /\ Satisfies(k2, op, v) => <<k2, r2>> \in D2
  BY <1>11 DEF ScanAt
<1>15. Seeks(op) => \A y, j : At(t, c, y, j) /\ ~Before(y, j, x, i)
                                => Satisfies(KeyAt(t, c, y, j), op, v)
  BY DEF ScanAt
<1>16. ScanAt(t, c, x, i, pos + 1, op, v, D2, dist)
  <2> HIDE DEF D2
  <2> QED BY <1>12, <1>13, <1>14, <1>15 DEF ScanAt
<1> QED BY <1>7, <1>16

(* It ends at the last leaf, with nothing before it,                       *)
AllDisturbed(D, dist) == \A k, r : <<k, r>> \in D => k \in dist

LEMMA EndOfChain ==
    ASSUME NEW t, NEW c, Ordered(t, c), NEW x, NEW i, NEW pos, NEW op, NEW v, NEW D, NEW dist,
           ScanAt(t, c, x, i, pos, op, v, D, dist), i = Len(t[c[x]].keys) + 1, x = Len(c)
    PROVE  AllDisturbed(D, dist)
<1>1. /\ Len(t[c[x]].keys) \in Nat /\ x \in 1 .. Len(c) /\ Len(c) \in Nat
  <2>1. x \in 1 .. Len(c)  BY DEF ScanAt, PositionIs
  <2> QED BY <2>1 DEF Ordered
<1>2. ASSUME NEW k, NEW r, Ahead(t, c, x, i, pos, k, r) PROVE FALSE
  <2>1. PICK y, j, m : Has(t, c, y, j, m, k, r) /\ Beyond(x, i, pos, y, j, m)
    BY <1>2 DEF Ahead
  <2>2. y \in 1 .. Len(c) /\ j \in 1 .. Len(t[c[y]].keys)  BY <2>1 DEF Has, At
  <2>3. y = x  BY <1>1, <2>1, <2>2 DEF Beyond, Before
  <2>4. j < i  BY <1>1, <2>2, <2>3
  <2> QED BY <1>1, <2>1, <2>2, <2>3, <2>4 DEF Beyond, Before
<1> QED BY <1>2 DEF ScanAt, AllDisturbed

(* or, for LT and LE, at the first key that is too great.                  *)
LEMMA StaysTooGreat ==
    ASSUME NEW op \in {"LT", "LE"}, NEW v \in Int, NEW k \in Int, NEW k2 \in Int, k <= k2,
           ~Satisfies(k, op, v)
    PROVE  ~Satisfies(k2, op, v)
<1>1. CASE op = "LT"
  <2>1. (Satisfies(k, op, v) <=> k < v) /\ (Satisfies(k2, op, v) <=> k2 < v)
    BY <1>1 DEF Satisfies
  <2> QED BY <2>1
<1>2. CASE op = "LE"
  <2>1. (Satisfies(k, op, v) <=> k <= v) /\ (Satisfies(k2, op, v) <=> k2 <= v)
    BY <1>2 DEF Satisfies
  <2> QED BY <2>1
<1> QED BY <1>1, <1>2

LEMMA EndAtKey ==
    ASSUME NEW t, NEW c, Ordered(t, c), NEW x, NEW i, NEW pos, NEW op \in {"LT", "LE"},
           NEW v \in Int, NEW D, NEW dist, ScanAt(t, c, x, i, pos, op, v, D, dist),
           i # Len(t[c[x]].keys) + 1, ~Satisfies(KeyAt(t, c, x, i), op, v)
    PROVE  AllDisturbed(D, dist)
<1>1. /\ Len(t[c[x]].keys) \in Nat /\ x \in 1 .. Len(c) /\ Len(c) \in Nat
      /\ i \in 1 .. Len(t[c[x]].keys)
  <2>1. PositionIs(t, c, x, i, pos) /\ x \in 1 .. Len(c)  BY DEF ScanAt, PositionIs
  <2>2. Len(t[c[x]].keys) \in Nat /\ Len(c) \in Nat  BY <2>1 DEF Ordered
  <2> QED BY <2>1, <2>2 DEF PositionIs
<1>2. At(t, c, x, i)  BY <1>1 DEF At
<1>3. ASSUME NEW k, NEW r, Ahead(t, c, x, i, pos, k, r) PROVE ~Satisfies(k, op, v)
  <2>1. PICK y, j, m : Has(t, c, y, j, m, k, r) /\ Beyond(x, i, pos, y, j, m)
    BY <1>3 DEF Ahead
  <2>2. At(t, c, y, j) /\ KeyAt(t, c, y, j) = k  BY <2>1 DEF Has
  <2>3. KeyAt(t, c, x, i) \in Int /\ k \in Int  BY <1>2, <2>2, KeysInt DEF Ordered
  <2>4. KeyAt(t, c, x, i) <= k
    <3>1. CASE Before(x, i, y, j)
      <4>1. KeyAt(t, c, x, i) < k  BY <1>2, <2>2, <3>1 DEF Ordered
      <4> QED BY <2>3, <4>1
    <3>2. CASE y = x /\ j = i  BY <2>2, <2>3, <3>2
    <3> QED BY <2>1, <3>1, <3>2 DEF Beyond
  <2> QED BY <2>3, <2>4, StaysTooGreat
<1> QED BY <1>3 DEF ScanAt, AllDisturbed

(* An entry of k is deleted beside a scan: the way stays, and the other    *)
(* identifiers in the bucket move at most towards its front.               *)
SameWay(t, t2, c, k, r) ==
    /\ \A y \in 1 .. Len(c) : Len(t2[c[y]].keys) = Len(t[c[y]].keys)
    /\ \A y, j : At(t, c, y, j) => KeyAt(t2, c, y, j) = KeyAt(t, c, y, j)
    /\ \A y, j : At(t, c, y, j) /\ KeyAt(t, c, y, j) # k
                    => RidsAt(t2, c, y, j) = RidsAt(t, c, y, j)
    /\ \A y, j, m : At(t, c, y, j) /\ m \in 1 .. Len(RidsAt(t2, c, y, j))
                    => \E m2 \in 1 .. Len(RidsAt(t, c, y, j)) :
                         m2 >= m /\ RidsAt(t2, c, y, j)[m] = RidsAt(t, c, y, j)[m2]
    /\ ~EntryThere(t2, c, k, r)

LEMMA GoneWay ==
    ASSUME NEW t, NEW from, NEW h, NEW s, NEW c, WellRooted(t, from, FALSE, h, s, c),
           NEW k, NEW r, NEW p, NEW i, NEW t2, p \in DOMAIN t, i \in DOMAIN t[p].keys,
           t[p].keys[i] = k, EntryGone(t, from, h, s, c, k, r, p, i, t2)
    PROVE  SameWay(t, t2, c, k, r)
<1>1. /\ WellRooted(t2, from, FALSE, h, s, c) /\ EntriesIn(t2) = EntriesIn(t) \ {<<k, r>>}
      /\ DOMAIN t2 = DOMAIN t /\ \A q \in DOMAIN t : q # p => t2[q] = t[q]
      /\ t2[p].keys = t[p].keys /\ BucketLess(t[p].rids[i], r, t2[p].rids[i])
      /\ \A j \in 1 .. Len(t[p].keys) : j # i => t2[p].rids[j] = t[p].rids[j]
  BY DEF EntryGone, LeafLess
<1>2. Ordered(t, c) /\ Ordered(t2, c)  BY <1>1, OrderedIs
<1>3. \A y \in 1 .. Len(c) : c[y] \in DOMAIN t  BY ChainLeafShape
<1>4. \A y \in 1 .. Len(c) : t2[c[y]].keys = t[c[y]].keys  BY <1>1, <1>3
<1>5. \A y, j : At(t, c, y, j) => KeyAt(t2, c, y, j) = KeyAt(t, c, y, j)
  BY <1>4 DEF At, KeyAt
<1>6. ASSUME NEW y, NEW j, At(t, c, y, j)
      PROVE  IF c[y] = p /\ j = i THEN KeyAt(t, c, y, j) = k
             ELSE RidsAt(t2, c, y, j) = RidsAt(t, c, y, j)
  <2>1. y \in 1 .. Len(c) /\ j \in 1 .. Len(t[c[y]].keys) /\ c[y] \in DOMAIN t
    BY <1>3, <1>6 DEF At
  <2>2. CASE c[y] = p /\ j = i  BY <2>2 DEF KeyAt
  <2>3. CASE c[y] = p /\ j # i
    <3>1. j \in 1 .. Len(t[p].keys)  BY <2>1, <2>3
    <3>2. t2[p].rids[j] = t[p].rids[j]  BY <1>1, <2>3, <3>1
    <3> QED BY <2>3, <3>2 DEF RidsAt
  <2>4. CASE c[y] # p
    <3>1. t2[c[y]] = t[c[y]]  BY <1>1, <2>1, <2>4
    <3> QED BY <2>4, <3>1 DEF RidsAt
  <2> QED BY <2>2, <2>3, <2>4
<1>7. \A y, j : At(t, c, y, j) /\ KeyAt(t, c, y, j) # k
                  => RidsAt(t2, c, y, j) = RidsAt(t, c, y, j)
  BY <1>6
<1>8. ASSUME NEW y, NEW j, NEW m, At(t, c, y, j), m \in 1 .. Len(RidsAt(t2, c, y, j))
      PROVE  \E m2 \in 1 .. Len(RidsAt(t, c, y, j)) :
               m2 >= m /\ RidsAt(t2, c, y, j)[m] = RidsAt(t, c, y, j)[m2]
  <2>1. CASE c[y] = p /\ j = i
    <3>1. BucketLess(RidsAt(t, c, y, j), r, RidsAt(t2, c, y, j))  BY <1>1, <2>1 DEF RidsAt
    <3> QED BY <1>8, <3>1 DEF BucketLess
  <2>2. CASE ~(c[y] = p /\ j = i)
    <3>1. RidsAt(t2, c, y, j) = RidsAt(t, c, y, j)  BY <1>6, <1>8, <2>2
    <3>2. m >= m  BY <1>8
    <3> QED BY <1>8, <3>1, <3>2
  <2> QED BY <2>1, <2>2
<1>9. ~EntryThere(t2, c, k, r)
  <2>1. <<k, r>> \notin EntriesIn(t2)  BY <1>1
  <2> QED BY <1>2, <2>1 DEF Ordered
<1>10. \A y \in 1 .. Len(c) : Len(t2[c[y]].keys) = Len(t[c[y]].keys)  BY <1>4
<1> QED BY <1>5, <1>7, <1>8, <1>9, <1>10 DEF SameWay

LEMMA UnlessThere ==
    ASSUME NEW t, NEW c, NEW k, NEW r, ~EntryThere(t, c, k, r), Ordered(t, c)
    PROVE  SameWay(t, t, c, k, r)
<1>1. \A y, j : At(t, c, y, j) => Len(RidsAt(t, c, y, j)) \in Nat  BY DEF Ordered, Bucket
<1>2. ASSUME NEW y, NEW j, NEW m, At(t, c, y, j), m \in 1 .. Len(RidsAt(t, c, y, j))
      PROVE  \E m2 \in 1 .. Len(RidsAt(t, c, y, j)) :
               m2 >= m /\ RidsAt(t, c, y, j)[m] = RidsAt(t, c, y, j)[m2]
  <2>1. m >= m  BY <1>1, <1>2
  <2> QED BY <1>2, <2>1
<1> QED BY <1>2 DEF SameWay

LEMMA DeletedBeside ==
    ASSUME NEW t, NEW t2, NEW c, Ordered(t, c), NEW k, NEW r, SameWay(t, t2, c, k, r),
           NEW x, NEW i, NEW pos, NEW op, NEW v, NEW D, NEW dist,
           ScanAt(t, c, x, i, pos, op, v, D, dist)
    PROVE  ScanAt(t2, c, x, i, pos, op, v, D \ {<<k, r>>}, dist \cup {k})
<1> DEFINE D2 == D \ {<<k, r>>}
           dist2 == dist \cup {k}
<1>1. \A y, j : At(t2, c, y, j) <=> At(t, c, y, j)  BY DEF SameWay, At
<1>2. ASSUME NEW k2, NEW r2, k2 # k, Ahead(t, c, x, i, pos, k2, r2)
      PROVE  Ahead(t2, c, x, i, pos, k2, r2)
  <2>1. PICK y, j, m : Has(t, c, y, j, m, k2, r2) /\ Beyond(x, i, pos, y, j, m)
    BY <1>2 DEF Ahead
  <2>2. /\ At(t, c, y, j) /\ KeyAt(t, c, y, j) = k2
        /\ m \in 1 .. Len(RidsAt(t, c, y, j)) /\ RidsAt(t, c, y, j)[m] = r2
    BY <2>1 DEF Has
  <2>3. /\ KeyAt(t2, c, y, j) = KeyAt(t, c, y, j)
        /\ RidsAt(t2, c, y, j) = RidsAt(t, c, y, j)
    BY <1>2, <2>2 DEF SameWay
  <2>4. Has(t2, c, y, j, m, k2, r2)  BY <1>1, <2>2, <2>3 DEF Has
  <2> QED BY <2>1, <2>4 DEF Ahead
<1>3. ASSUME NEW k2, NEW r2, Ahead(t2, c, x, i, pos, k2, r2)
      PROVE  Ahead(t, c, x, i, pos, k2, r2) /\ <<k2, r2>> # <<k, r>>
  <2>1. PICK y, j, m : Has(t2, c, y, j, m, k2, r2) /\ Beyond(x, i, pos, y, j, m)
    BY <1>3 DEF Ahead
  <2>2. /\ At(t, c, y, j) /\ KeyAt(t2, c, y, j) = k2
        /\ m \in 1 .. Len(RidsAt(t2, c, y, j)) /\ RidsAt(t2, c, y, j)[m] = r2
    BY <1>1, <2>1 DEF Has
  <2>3. KeyAt(t, c, y, j) = k2  BY <2>2 DEF SameWay
  <2>4. PICK m2 \in 1 .. Len(RidsAt(t, c, y, j)) :
          m2 >= m /\ RidsAt(t2, c, y, j)[m] = RidsAt(t, c, y, j)[m2]
    BY <2>2 DEF SameWay
  <2>5. Has(t, c, y, j, m2, k2, r2)  BY <2>2, <2>3, <2>4 DEF Has
  <2>6. Beyond(x, i, pos, y, j, m2)
    <3>1. pos \in Nat /\ m \in Int /\ m2 \in Int  BY <2>2, <2>4 DEF ScanAt, PositionIs
    <3>2. m >= pos => m2 >= pos  BY <2>4, <3>1
    <3> QED BY <2>1, <3>2 DEF Beyond
  <2>7. k2 = k /\ r2 = r => EntryThere(t2, c, k, r)  BY <2>1 DEF EntryThere
  <2>8. <<k2, r2>> # <<k, r>>  BY <2>7 DEF SameWay
  <2> QED BY <2>5, <2>6, <2>8 DEF Ahead
<1>4. PositionIs(t2, c, x, i, pos)  BY DEF ScanAt, PositionIs, SameWay
<1>5. \A k2, r2 : <<k2, r2>> \in D2
        => Satisfies(k2, op, v) /\ (k2 \in dist2 \/ Ahead(t2, c, x, i, pos, k2, r2))
  BY <1>2 DEF ScanAt
<1>6. \A k2, r2 : Ahead(t2, c, x, i, pos, k2, r2) /\ Satisfies(k2, op, v) => <<k2, r2>> \in D2
  BY <1>3 DEF ScanAt
<1>7. Seeks(op) => \A y, j : At(t2, c, y, j) /\ ~Before(y, j, x, i)
                               => Satisfies(KeyAt(t2, c, y, j), op, v)
  BY <1>1 DEF ScanAt, SameWay
<1> HIDE DEF D2, dist2
<1>8. ScanAt(t2, c, x, i, pos, op, v, D2, dist2)  BY <1>4, <1>5, <1>6, <1>7 DEF ScanAt
<1> QED BY <1>8 DEF D2, dist2

(* A scan starts where nothing it has to return is before it.              *)
Starts(t, c, x, i, op, v) ==
    /\ PositionIs(t, c, x, i, 1)
    /\ \A y, j : At(t, c, y, j) /\ Satisfies(KeyAt(t, c, y, j), op, v) => ~Before(y, j, x, i)
    /\ Seeks(op) => \A y, j : At(t, c, y, j) /\ ~Before(y, j, x, i)
                                => Satisfies(KeyAt(t, c, y, j), op, v)

LEMMA StartsAt ==
    ASSUME NEW t, NEW c, Ordered(t, c), NEW x, NEW i, NEW op, NEW v, Starts(t, c, x, i, op, v)
    PROVE  ScanAt(t, c, x, i, 1, op, v, {e \in EntriesIn(t) : Satisfies(e[1], op, v)}, {})
<1> DEFINE D == {e \in EntriesIn(t) : Satisfies(e[1], op, v)}
<1>1. \A k, r : <<k, r>> \in D <=> EntryThere(t, c, k, r) /\ Satisfies(k, op, v)
  <2> TAKE k, r
  <2>1. <<k, r>>[1] = k  OBVIOUS
  <2>2. <<k, r>> \in EntriesIn(t) <=> EntryThere(t, c, k, r)  BY DEF Ordered
  <2> QED BY <2>1, <2>2
<1> HIDE DEF D
<1>2. PositionIs(t, c, x, i, 1)  BY DEF Starts
<1>3. ASSUME NEW k, NEW r, EntryThere(t, c, k, r), Satisfies(k, op, v)
      PROVE  Ahead(t, c, x, i, 1, k, r)
  <2>1. PICK y, j, m : Has(t, c, y, j, m, k, r)  BY <1>3 DEF EntryThere
  <2>2. /\ At(t, c, y, j) /\ KeyAt(t, c, y, j) = k /\ m \in 1 .. Len(RidsAt(t, c, y, j))
        /\ y \in Int /\ j \in Int /\ m >= 1
    BY <2>1 DEF Has, At
  <2>3. ~Before(y, j, x, i)  BY <1>3, <2>2 DEF Starts
  <2>4. x \in Int /\ i \in Int  BY <1>2 DEF PositionIs
  <2>5. Beyond(x, i, 1, y, j, m)  BY <2>2, <2>3, <2>4 DEF Beyond, Before
  <2> QED BY <2>1, <2>5 DEF Ahead
<1>4. \A k, r : Ahead(t, c, x, i, 1, k, r) => EntryThere(t, c, k, r)  BY DEF Ahead, EntryThere
<1>5. Seeks(op) => \A y, j : At(t, c, y, j) /\ ~Before(y, j, x, i)
                               => Satisfies(KeyAt(t, c, y, j), op, v)
  BY DEF Starts
<1>6. ScanAt(t, c, x, i, 1, op, v, D, {})  BY <1>1, <1>2, <1>3, <1>4, <1>5 DEF ScanAt
<1> QED BY <1>6 DEF D

(* What leads to leaf c[x] parts the keys on the way.                      *)
LEMMA SeekStarts ==
    ASSUME NEW t, NEW from, NEW l, NEW h, NEW s, NEW c, WellRooted(t, from, l, h, s, c),
           NEW op \in {"GT", "GE"}, NEW v \in Int, NEW x \in 1 .. Len(c), v \in s[c[x]]
    PROVE  Starts(t, c, x, StartEntry(t[c[x]].keys, op, v), op, v)
<1> DEFINE keys == t[c[x]].keys
           w == IF op = "GT" THEN v ELSE v - 1
           i == StartEntry(keys, op, v)
<1>1. w \in Int /\ w <= v /\ v <= w + 1  OBVIOUS
<1>2. i = FirstAbove(keys, w)  BY DEF StartEntry
<1>3. \A k \in Int : Satisfies(k, op, v) <=> k > w
  <2> TAKE k \in Int
  <2>1. CASE op = "GT"  BY <2>1 DEF Satisfies
  <2>2. CASE op = "GE"
    <3>1. Satisfies(k, op, v) <=> k >= v  BY <2>2 DEF Satisfies
    <3> QED BY <2>2, <3>1
  <2> QED BY <2>1, <2>2
<1> HIDE DEF w, i
<1>4. keys \in Seq(Int) /\ Sorted(keys) /\ DOMAIN keys = 1 .. Len(keys) /\ Len(keys) \in Nat
  <2> DEFINE n == t[c[x]]
             S == s[c[x]]
  <2>1. LeafShape(n, S)  BY ChainLeafShape
  <2> HIDE DEF n, S
  <2>2. n.keys \in Seq(Int) /\ Sorted(n.keys) /\ DOMAIN n.keys = 1 .. Len(n.keys)
        /\ Len(n.keys) \in Nat
    BY <2>1, LeafFacts
  <2> QED BY <2>2 DEF n
<1>5. /\ i \in 1 .. Len(keys) + 1
      /\ \A j \in DOMAIN keys : keys[j] > w <=> j >= i
  <2> HIDE DEF keys
  <2> QED BY <1>1, <1>2, <1>4, FirstAboveIs
<1>6. PositionIs(t, c, x, i, 1)  BY <1>5 DEF PositionIs
<1>7. Len(c) \in Nat /\ \A y, z \in 1 .. Len(c) : y < z => \A k \in s[c[y]], m \in s[c[z]] : k < m
  BY ChainLeaves
<1>8. ASSUME NEW y, NEW j, At(t, c, y, j)
      PROVE  Satisfies(KeyAt(t, c, y, j), op, v) <=> ~Before(y, j, x, i)
  <2> DEFINE k == KeyAt(t, c, y, j)
  <2>1. y \in 1 .. Len(c) /\ j \in 1 .. Len(t[c[y]].keys) /\ k = t[c[y]].keys[j]
    BY <1>8 DEF At, KeyAt
  <2>2. k \in Int /\ k \in s[c[y]]
    <3> DEFINE n == t[c[y]]
               S == s[c[y]]
    <3>1. LeafShape(n, S) /\ j \in 1 .. Len(n.keys) /\ k = n.keys[j]  BY <2>1, ChainLeafShape
    <3> HIDE DEF n, S, k
    <3>2. n.keys[j] \in S /\ n.keys[j] \in Int  BY <3>1, LeafFacts
    <3> QED BY <3>1, <3>2 DEF S
  <2> HIDE DEF k
  <2>3. Satisfies(k, op, v) <=> k > w  BY <1>3, <2>2
  <2>4. CASE y < x
    <3>1. k < v  BY <1>7, <2>1, <2>2, <2>4
    <3>2. ~(k > w)  BY <1>1, <2>2, <3>1
    <3> QED BY <2>3, <2>4, <3>2 DEF Before, k
  <2>5. CASE x < y
    <3>1. v < k  BY <1>7, <2>1, <2>2, <2>5
    <3>2. k > w  BY <1>1, <2>2, <3>1
    <3>3. ~Before(y, j, x, i)  BY <2>1, <2>5 DEF Before
    <3> QED BY <2>3, <3>2, <3>3 DEF k
  <2>6. CASE y = x
    <3>1. j \in DOMAIN keys /\ k = keys[j]  BY <1>4, <2>1, <2>6
    <3>2. k > w <=> j >= i  BY <1>5, <3>1
    <3>3. Before(y, j, x, i) <=> j < i  BY <2>1, <2>6 DEF Before
    <3>4. j >= i <=> ~(j < i)  BY <1>5, <2>1
    <3> QED BY <2>3, <3>2, <3>3, <3>4 DEF k
  <2>7. y < x \/ x < y \/ y = x  BY <2>1
  <2> QED BY <2>4, <2>5, <2>6, <2>7
<1> QED BY <1>6, <1>8 DEF Starts, i, keys

LEMMA FirstStarts ==
    ASSUME NEW t, NEW c, Ordered(t, c), 1 \in 1 .. Len(c), NEW op, NEW v, ~Seeks(op)
    PROVE  Starts(t, c, 1, StartEntry(t[c[1]].keys, op, v), op, v)
<1>1. StartEntry(t[c[1]].keys, op, v) = 1  BY DEF StartEntry, Seeks
<1>2. Len(t[c[1]].keys) \in Nat  BY DEF Ordered
<1>3. PositionIs(t, c, 1, 1, 1)
  <2>1. 1 \in 1 .. Len(t[c[1]].keys) + 1  BY <1>2
  <2> QED BY <2>1 DEF PositionIs
<1>4. \A y, j : At(t, c, y, j) => ~Before(y, j, 1, 1)  BY DEF At, Before
<1> QED BY <1>1, <1>3, <1>4 DEF Starts

(* Where OpenScan puts a scan.                                             *)
OpenedAt(t, c, op, v, p) ==
    \E x \in 1 .. Len(c) :
        /\ c[x] = p
        /\ ScanAt(t, c, x, StartEntry(t[p].keys, op, v), 1, op, v,
                  {e \in EntriesIn(t) : Satisfies(e[1], op, v)}, {})

LEMMA SeekOpened ==
    ASSUME NEW t, NEW from, NEW l, NEW h, NEW s, NEW c, WellRooted(t, from, l, h, s, c),
           NEW op, NEW v \in Int, v \in s[from], Seeks(op), NEW p, p = Last(PathIn(t, from, v))
    PROVE  OpenedAt(t, c, op, v, p)
<1>1. PathEnds(t, h, s, from, v, PathIn(t, from, v))  BY PathEndsIs
<1>2. p \in DOMAIN t /\ h[p] = 0 /\ v \in s[p]  BY <1>1 DEF PathEnds
<1>3. Well(t, h, s, c, h[from])  BY DEF WellRooted
<1>4. p \in LeavesIn(t)  BY <1>2, <1>3, LeafIff
<1>5. PICK x \in 1 .. Len(c) : c[x] = p  BY <1>4, ChainLeaves
<1>6. op \in {"GT", "GE"} /\ v \in s[c[x]]  BY <1>2, <1>5 DEF Seeks
<1> DEFINE i == StartEntry(t[c[x]].keys, op, v)
<1>7. Starts(t, c, x, i, op, v)  BY <1>6, SeekStarts
<1>8. Ordered(t, c)  BY OrderedIs
<1> HIDE DEF i
<1>9. ScanAt(t, c, x, i, 1, op, v, {e \in EntriesIn(t) : Satisfies(e[1], op, v)}, {})
  BY <1>7, <1>8, StartsAt
<1> QED BY <1>5, <1>9 DEF OpenedAt, i

LEMMA FirstOpened ==
    ASSUME NEW h, NEW s, NEW c, WellRooted(tree, root, lost, h, s, c), NEW op, NEW v, ~Seeks(op)
    PROVE  OpenedAt(tree, c, op, v, LeftmostLeaf)
<1>1. 1 \in 1 .. Len(c) /\ LeftmostLeaf = c[1]  BY LeftmostLeafIs
<1>2. Ordered(tree, c)  BY OrderedIs
<1> DEFINE i == StartEntry(tree[c[1]].keys, op, v)
<1>3. Starts(tree, c, 1, i, op, v)  BY <1>1, <1>2, FirstStarts
<1> HIDE DEF i
<1>4. ScanAt(tree, c, 1, i, 1, op, v, {e \in EntriesIn(tree) : Satisfies(e[1], op, v)}, {})
  BY <1>2, <1>3, StartsAt
<1> QED BY <1>1, <1>4 DEF OpenedAt, i

----------------------------------------------------------------------------
(* The scan as a record: what GetNextEntry makes of it.                    *)
ScanRecord ==
    [open : BOOLEAN, op : Ops, value : Keys \cup {0}, node : Int, entry : Nat, pos : Nat,
     busy : BOOLEAN, got : {<<>>} \cup (Keys \X Rids)]

MovedTo(sc, node, entry, pos, busy, got) ==
    [open |-> sc.open, op |-> sc.op, value |-> sc.value, node |-> node, entry |-> entry,
     pos |-> pos, busy |-> busy, got |-> got]

LEMMA MovedTyped ==
    ASSUME NEW sc \in ScanRecord, NEW node \in Int, NEW entry \in Nat, NEW pos \in Nat,
           NEW busy \in BOOLEAN, NEW got, got = <<>> \/ got \in Keys \X Rids
    PROVE  MovedTo(sc, node, entry, pos, busy, got) \in ScanRecord
<1>1. sc.open \in BOOLEAN /\ sc.op \in Ops /\ sc.value \in Keys \cup {0}  BY DEF ScanRecord
<1> QED BY <1>1 DEF MovedTo, ScanRecord

(* A field of it at a time.                                                *)
ScanWith(o, p, v, nd, en, ps, bs, gt) ==
    [open |-> o, op |-> p, value |-> v, node |-> nd, entry |-> en, pos |-> ps,
     busy |-> bs, got |-> gt]

SetNode(sc, x) == [sc EXCEPT !.node = x]
SetEntry(sc, x) == [sc EXCEPT !.entry = x]
SetPos(sc, x) == [sc EXCEPT !.pos = x]
SetBusy(sc, x) == [sc EXCEPT !.busy = x]
SetGot(sc, x) == [sc EXCEPT !.got = x]

LEMMA SetField ==
    ASSUME NEW o, NEW p, NEW v, NEW nd, NEW en, NEW ps, NEW bs, NEW gt, NEW x,
           NEW sc, sc = ScanWith(o, p, v, nd, en, ps, bs, gt)
    PROVE  /\ SetNode(sc, x) = ScanWith(o, p, v, x, en, ps, bs, gt)
           /\ SetEntry(sc, x) = ScanWith(o, p, v, nd, x, ps, bs, gt)
           /\ SetPos(sc, x) = ScanWith(o, p, v, nd, en, x, bs, gt)
           /\ SetBusy(sc, x) = ScanWith(o, p, v, nd, en, ps, x, gt)
           /\ SetGot(sc, x) = ScanWith(o, p, v, nd, en, ps, bs, x)
<1>1. SetNode(sc, x) = ScanWith(o, p, v, x, en, ps, bs, gt)  BY DEF ScanWith, SetNode
<1>2. SetEntry(sc, x) = ScanWith(o, p, v, nd, x, ps, bs, gt)  BY DEF ScanWith, SetEntry
<1>3. SetPos(sc, x) = ScanWith(o, p, v, nd, en, x, bs, gt)  BY DEF ScanWith, SetPos
<1>4. SetBusy(sc, x) = ScanWith(o, p, v, nd, en, ps, x, gt)  BY DEF ScanWith, SetBusy
<1>5. SetGot(sc, x) = ScanWith(o, p, v, nd, en, ps, bs, x)  BY DEF ScanWith, SetGot
<1> QED BY <1>1, <1>2, <1>3, <1>4, <1>5

LEMMA SetEnded ==
    ASSUME NEW o, NEW p, NEW v, NEW nd, NEW en, NEW ps, NEW bs, NEW gt,
           NEW sc, sc = ScanWith(o, p, v, nd, en, ps, bs, gt), NEW none, NEW no
    PROVE  SetGot(SetBusy(sc, no), none) = ScanWith(o, p, v, nd, en, ps, no, none)
<1>1. SetBusy(sc, no) = ScanWith(o, p, v, nd, en, ps, no, gt)  BY SetField
<1> QED BY <1>1, SetField

LEMMA SetNextLeaf ==
    ASSUME NEW o, NEW p, NEW v, NEW nd, NEW en, NEW ps, NEW bs, NEW gt,
           NEW sc, sc = ScanWith(o, p, v, nd, en, ps, bs, gt), NEW node, NEW none, NEW yes
    PROVE  SetGot(SetBusy(SetPos(SetEntry(SetNode(sc, node), 1), 1), yes), none)
             = ScanWith(o, p, v, node, 1, 1, yes, none)
<1>1. SetNode(sc, node) = ScanWith(o, p, v, node, en, ps, bs, gt)  BY SetField
<1>2. SetEntry(SetNode(sc, node), 1) = ScanWith(o, p, v, node, 1, ps, bs, gt)
  BY <1>1, SetField
<1>3. SetPos(SetEntry(SetNode(sc, node), 1), 1) = ScanWith(o, p, v, node, 1, 1, bs, gt)
  BY <1>2, SetField
<1>4. SetBusy(SetPos(SetEntry(SetNode(sc, node), 1), 1), yes)
        = ScanWith(o, p, v, node, 1, 1, yes, gt)
  BY <1>3, SetField
<1> QED BY <1>4, SetField

LEMMA SetNextKey ==
    ASSUME NEW o, NEW p, NEW v, NEW nd, NEW en, NEW ps, NEW bs, NEW gt,
           NEW sc, sc = ScanWith(o, p, v, nd, en, ps, bs, gt), NEW entry, NEW none, NEW yes
    PROVE  SetGot(SetBusy(SetPos(SetEntry(sc, entry), 1), yes), none)
             = ScanWith(o, p, v, nd, entry, 1, yes, none)
<1>1. SetEntry(sc, entry) = ScanWith(o, p, v, nd, entry, ps, bs, gt)  BY SetField
<1>2. SetPos(SetEntry(sc, entry), 1) = ScanWith(o, p, v, nd, entry, 1, bs, gt)
  BY <1>1, SetField
<1>3. SetBusy(SetPos(SetEntry(sc, entry), 1), yes) = ScanWith(o, p, v, nd, entry, 1, yes, gt)
  BY <1>2, SetField
<1> QED BY <1>3, SetField

LEMMA SetReturned ==
    ASSUME NEW o, NEW p, NEW v, NEW nd, NEW en, NEW ps, NEW bs, NEW gt,
           NEW sc, sc = ScanWith(o, p, v, nd, en, ps, bs, gt), NEW pos, NEW got, NEW no
    PROVE  SetGot(SetBusy(SetPos(sc, pos), no), got)
             = ScanWith(o, p, v, nd, en, pos, no, got)
<1>1. SetPos(sc, pos) = ScanWith(o, p, v, nd, en, pos, bs, gt)  BY SetField
<1>2. SetBusy(SetPos(sc, pos), no) = ScanWith(o, p, v, nd, en, pos, no, gt)
  BY <1>1, SetField
<1> QED BY <1>2, SetField

LEMMA MovesAre ==
    ASSUME NEW sc \in ScanRecord, NEW node, NEW got
    PROVE  /\ [sc EXCEPT !.busy = FALSE, !.got = <<>>]
                = MovedTo(sc, sc.node, sc.entry, sc.pos, FALSE, <<>>)
           /\ [[sc EXCEPT !.node = node, !.entry = 1, !.pos = 1] EXCEPT !.busy = TRUE, !.got = <<>>]
                = MovedTo(sc, node, 1, 1, TRUE, <<>>)
           /\ [[sc EXCEPT !.entry = @ + 1, !.pos = 1] EXCEPT !.busy = TRUE, !.got = <<>>]
                = MovedTo(sc, sc.node, sc.entry + 1, 1, TRUE, <<>>)
           /\ [sc EXCEPT !.pos = @ + 1, !.busy = FALSE, !.got = got]
                = MovedTo(sc, sc.node, sc.entry, sc.pos + 1, FALSE, got)
<1> DEFINE o == sc.open
           p == sc.op
           v == sc.value
           nd == sc.node
           en == sc.entry
           ps == sc.pos
           bs == sc.busy
           gt == sc.got
           up == en + 1
           on == ps + 1
           none == <<>>
           X1 == [sc EXCEPT !.busy = FALSE, !.got = <<>>]
           X2 == [[sc EXCEPT !.node = node, !.entry = 1, !.pos = 1]
                     EXCEPT !.busy = TRUE, !.got = <<>>]
           X3 == [[sc EXCEPT !.entry = @ + 1, !.pos = 1] EXCEPT !.busy = TRUE, !.got = <<>>]
           X4 == [sc EXCEPT !.pos = @ + 1, !.busy = FALSE, !.got = got]
           no == FALSE
           yes == TRUE
<1>1. sc = ScanWith(o, p, v, nd, en, ps, bs, gt)  BY DEF ScanRecord, ScanWith
<1>2. \A a1, a2, a3, a4, a5 :
        MovedTo(sc, a1, a2, a3, a4, a5) = ScanWith(o, p, v, a1, a2, a3, a4, a5)
  BY DEF MovedTo, ScanWith
<1>3. X1 = SetGot(SetBusy(sc, no), none)  BY Zenon DEF SetGot, SetBusy
<1>4. X2 = SetGot(SetBusy(SetPos(SetEntry(SetNode(sc, node), 1), 1), yes), none)
  BY Zenon DEF SetGot, SetBusy, SetPos, SetEntry, SetNode
<1>5. X3 = SetGot(SetBusy(SetPos(SetEntry(sc, up), 1), yes), none)
  BY Zenon DEF SetGot, SetBusy, SetPos, SetEntry, up, en
<1>6. X4 = SetGot(SetBusy(SetPos(sc, on), no), got)
  BY Zenon DEF SetGot, SetBusy, SetPos, on, ps
<1> HIDE DEF o, p, v, nd, en, ps, bs, gt, up, on, none, no, yes, X1, X2, X3, X4
<1>7. X1 = ScanWith(o, p, v, nd, en, ps, no, none)  BY <1>1, <1>3, SetEnded
<1>8. X2 = ScanWith(o, p, v, node, 1, 1, yes, none)  BY <1>1, <1>4, SetNextLeaf
<1>9. X3 = ScanWith(o, p, v, nd, up, 1, yes, none)  BY <1>1, <1>5, SetNextKey
<1>10. X4 = ScanWith(o, p, v, nd, en, on, no, got)  BY <1>1, <1>6, SetReturned
<1>11. X1 = MovedTo(sc, nd, en, ps, no, none) /\ X2 = MovedTo(sc, node, 1, 1, yes, none)
  BY <1>2, <1>7, <1>8
<1>12. X3 = MovedTo(sc, nd, up, 1, yes, none) /\ X4 = MovedTo(sc, nd, en, on, no, got)
  BY <1>2, <1>9, <1>10
<1> QED BY Zenon, <1>11, <1>12 DEF nd, en, ps, up, on, none, no, yes, X1, X2, X3, X4

(* The branches of GetNextEntry.                                           *)
AtEnd(n) == scan.entry = Len(n.keys) + 1
Refuses(n) == ~Satisfies(n.keys[scan.entry], scan.op, scan.value) /\ ~Seeks(scan.op)
NoneLeft(n) == scan.pos > Len(n.rids[scan.entry])
ScanEnded ==
    /\ scan' = MovedTo(scan, scan.node, scan.entry, scan.pos, FALSE, <<>>)
    /\ rc' = "IX_EOF" /\ due' = due
ToNextLeaf(n) ==
    scan' = MovedTo(scan, n.next, 1, 1, TRUE, <<>>) /\ rc' = rc /\ due' = due
ToNextKey ==
    scan' = MovedTo(scan, scan.node, scan.entry + 1, 1, TRUE, <<>>) /\ rc' = rc /\ due' = due
Returned(got) ==
    /\ scan' = MovedTo(scan, scan.node, scan.entry, scan.pos + 1, FALSE, got)
    /\ rc' = "OK" /\ due' = due \ {got}

LEMMA GetNextBranches ==
    ASSUME scan \in ScanRecord, GetNextEntry, NEW n, n = tree[scan.node]
    PROVE  \/ AtEnd(n) /\ n.next = kNullNode /\ ScanEnded
           \/ AtEnd(n) /\ n.next # kNullNode /\ ToNextLeaf(n)
           \/ ~AtEnd(n) /\ Refuses(n) /\ scan.op \in {"LT", "LE"} /\ ScanEnded
           \/ ~AtEnd(n) /\ (Refuses(n) \/ NoneLeft(n)) /\ ToNextKey
           \/ /\ ~AtEnd(n) /\ ~Refuses(n) /\ ~NoneLeft(n)
              /\ Returned(<<n.keys[scan.entry], n.rids[scan.entry][scan.pos]>>)
<1> DEFINE got == <<n.keys[scan.entry], n.rids[scan.entry][scan.pos]>>
           E1 == [scan EXCEPT !.busy = FALSE, !.got = <<>>]
           E2 == [[scan EXCEPT !.node = n.next, !.entry = 1, !.pos = 1]
                     EXCEPT !.busy = TRUE, !.got = <<>>]
           E3 == [[scan EXCEPT !.entry = @ + 1, !.pos = 1] EXCEPT !.busy = TRUE, !.got = <<>>]
           E4 == [scan EXCEPT !.pos = @ + 1, !.busy = FALSE, !.got = got]
<1>1. /\ E1 = MovedTo(scan, scan.node, scan.entry, scan.pos, FALSE, <<>>)
      /\ E2 = MovedTo(scan, n.next, 1, 1, TRUE, <<>>)
      /\ E3 = MovedTo(scan, scan.node, scan.entry + 1, 1, TRUE, <<>>)
      /\ E4 = MovedTo(scan, scan.node, scan.entry, scan.pos + 1, FALSE, got)
  BY MovesAre
<1>2. \/ AtEnd(n) /\ n.next = kNullNode /\ scan' = E1 /\ rc' = "IX_EOF" /\ due' = due
      \/ AtEnd(n) /\ n.next # kNullNode /\ scan' = E2 /\ rc' = rc /\ due' = due
      \/ /\ ~AtEnd(n) /\ Refuses(n) /\ scan.op \in {"LT", "LE"}
         /\ scan' = E1 /\ rc' = "IX_EOF" /\ due' = due
      \/ ~AtEnd(n) /\ (Refuses(n) \/ NoneLeft(n)) /\ scan' = E3 /\ rc' = rc /\ due' = due
      \/ /\ ~AtEnd(n) /\ ~Refuses(n) /\ ~NoneLeft(n)
         /\ scan' = E4 /\ rc' = "OK" /\ due' = due \ {got}
  BY DEF GetNextEntry, AtEnd, Refuses, NoneLeft
<1> HIDE DEF E1, E2, E3, E4, got
<1>3. QED BY <1>1, <1>2 DEF ScanEnded, ToNextLeaf, ToNextKey, Returned, got

----------------------------------------------------------------------------
(* The invariant: the tree is in order, and so is what the scan has still  *)
(* to return.                                                              *)
ScanIn(t, c, sc, D, dist) ==
    \E x \in 1 .. Len(c) :
        sc.node = c[x] /\ ScanAt(t, c, x, sc.entry, sc.pos, sc.op, sc.value, D, dist)

Scanning(t, c, sc, D, dist, code) ==
    sc.open => /\ ScanIn(t, c, sc, D, dist) /\ sc.value \in Keys
               /\ ~sc.busy /\ code = "IX_EOF" => AllDisturbed(D, dist)

FileInv ==
    /\ DOMAIN tree \subseteq Nodes /\ headerRoot \in DOMAIN tree
    /\ open \in BOOLEAN /\ isHeaderDirty \in BOOLEAN /\ lost \in BOOLEAN
    /\ ~open \/ ~isHeaderDirty => root = headerRoot

ScanInv ==
    /\ scan \in ScanRecord /\ due \in SUBSET (Keys \X Rids) /\ disturbed \in SUBSET Keys
    /\ scan.open => open /\ ~lost

InOrder(h, s, c) ==
    WellRooted(tree, root, lost, h, s, c) /\ Scanning(tree, c, scan, due, disturbed, rc)

IInv == FileInv /\ ScanInv /\ \E h, s, c : InOrder(h, s, c)

LEMMA NodesBound ==
    ASSUME NEW t, Numbered(t), Cardinality(DOMAIN t) <= MaxNodes
    PROVE  DOMAIN t \subseteq Nodes
<1>1. PICK N \in Nat : DOMAIN t = 1 .. N  BY DEF Numbered
<1>2. Cardinality(1 .. N) = N  BY FS_Interval
<1>3. N <= MaxNodes /\ MaxNodes \in Nat  BY <1>1, <1>2, IndexTreeAssumption
<1> QED BY <1>1, <1>3 DEF Nodes

LEMMA NoScanTyped == NoScan \in ScanRecord /\ NoScan.open = FALSE /\ NoScan.got = <<>>
<1>1. kNullNode \in Int  BY DEF kNullNode
<1>2. "NO" \in Ops  BY DEF Ops
<1> QED BY <1>1, <1>2 DEF NoScan, ScanRecord

LEMMA InitIInv ==
    ASSUME Init
    PROVE  IInv
<1>1. PICK w \in Fillings :
        /\ Filled(w).ret = "OK" /\ Cardinality(DOMAIN Filled(w).tree) <= MaxNodes
        /\ tree = Filled(w).tree /\ headerRoot = Filled(w).root
  BY DEF Init
<1>2. /\ open = FALSE /\ root = headerRoot /\ isHeaderDirty = FALSE /\ scan = NoScan
      /\ lost = FALSE /\ due = {} /\ disturbed = {}
  BY DEF Init
<1>3. w \in Seq(Keys \X Rids)  BY IndexTreeAssumption
<1>4. Holds(Filled(w), {w[i] : i \in DOMAIN w})  BY <1>1, <1>3, FilledIs
<1>5. PICK h, s, c : WellRooted(tree, root, FALSE, h, s, c)  BY <1>1, <1>2, <1>4 DEF Holds
<1>6. DOMAIN tree \subseteq Nodes /\ root \in DOMAIN tree
  <2>1. Numbered(tree) /\ root \in DOMAIN tree  BY <1>5 DEF WellRooted, Well
  <2>2. Cardinality(DOMAIN tree) <= MaxNodes  BY <1>1
  <2> QED BY <2>1, <2>2, NodesBound
<1>7. FileInv  BY <1>2, <1>6 DEF FileInv
<1>8. ScanInv  BY <1>2, NoScanTyped DEF ScanInv
<1>9. InOrder(h, s, c)  BY <1>2, <1>5, NoScanTyped DEF InOrder, Scanning
<1> QED BY <1>7, <1>8, <1>9 DEF IInv

LEMMA StepFile ==
    ASSUME IInv, OpenIndex \/ CloseIndex
    PROVE  IInv'
<1>1. PICK h, s, c : InOrder(h, s, c)  BY DEF IInv
<1>2. FileInv /\ ScanInv  BY DEF IInv
<1>3. CASE OpenIndex
  <2>1. /\ ~open /\ open' = TRUE /\ root' = headerRoot /\ isHeaderDirty' = FALSE /\ rc' = "OK"
        /\ tree' = tree /\ headerRoot' = headerRoot /\ scan' = scan /\ lost' = lost
        /\ due' = due /\ disturbed' = disturbed
    BY <1>3 DEF OpenIndex, file
  <2>2. root' = root /\ ~scan.open  BY <1>2, <2>1 DEF FileInv, ScanInv
  <2>3. FileInv'  BY <1>2, <2>1 DEF FileInv
  <2>4. ScanInv'  BY <1>2, <2>1, <2>2 DEF ScanInv
  <2>5. InOrder(h, s, c)'
    <3>1. WellRooted(tree', root', lost', h, s, c)  BY <1>1, <2>1, <2>2 DEF InOrder
    <3> QED BY <2>1, <2>2, <3>1 DEF InOrder, Scanning
  <2> QED BY <2>3, <2>4, <2>5 DEF IInv
<1>4. CASE CloseIndex
  <2>1. /\ open /\ ~scan.open /\ open' = FALSE /\ rc' = "OK"
        /\ headerRoot' = IF isHeaderDirty THEN root ELSE headerRoot
        /\ tree' = tree /\ root' = root /\ isHeaderDirty' = isHeaderDirty /\ scan' = scan
        /\ lost' = lost /\ due' = due /\ disturbed' = disturbed
    BY <1>4 DEF CloseIndex
  <2>2. WellRooted(tree, root, lost, h, s, c)  BY <1>1 DEF InOrder
  <2>3. root \in DOMAIN tree  BY <2>2 DEF WellRooted
  <2>4. FileInv'  BY <1>2, <2>1, <2>3 DEF FileInv
  <2>5. ScanInv'  BY <1>2, <2>1 DEF ScanInv
  <2>6. InOrder(h, s, c)'
    <3>1. WellRooted(tree', root', lost', h, s, c)  BY <2>1, <2>2
    <3> QED BY <2>1, <3>1 DEF InOrder, Scanning
  <2> QED BY <2>4, <2>5, <2>6 DEF IInv
<1> QED BY <1>3, <1>4

LEMMA StepInsert ==
    ASSUME IInv, NEW e \in Inserted, InsertEntry(e[1], e[2])
    PROVE  IInv'
<1> DEFINE k == e[1]
           r == e[2]
           done == Insertion(tree, root, k, r)
<1>1. PICK h, s, c : InOrder(h, s, c)  BY DEF IInv
<1>2. FileInv /\ ScanInv  BY DEF IInv
<1>3. /\ open /\ ~scan.open /\ ~lost /\ Cardinality(DOMAIN done.tree) <= MaxNodes
      /\ tree' = done.tree /\ root' = done.root /\ rc' = done.ret
      /\ isHeaderDirty' = (isHeaderDirty \/ done.root # root)
      /\ lost' = (lost \/ done.lost)
      /\ open' = open /\ headerRoot' = headerRoot /\ scan' = scan
      /\ due' = due /\ disturbed' = disturbed
  BY DEF InsertEntry
<1>4. k \in Keys /\ r \in Rids
  <2>1. e \in Keys \X Rids  BY IndexTreeAssumption
  <2> QED BY <2>1
<1> HIDE DEF k, r
<1>5. \E g, u, d : IndexGrown(tree, k, r, done, g, u, d)
  <2>1. WellRooted(tree, root, FALSE, h, s, c)
    <3>1. lost = FALSE  BY <1>2, <1>3 DEF FileInv
    <3> QED BY <1>1, <3>1 DEF InOrder
  <2> QED BY <1>4, <2>1, InsertionIs
<1> HIDE DEF done
<1>6. PICK g, u, d : IndexGrown(tree, k, r, done, g, u, d)  BY <1>5
<1>7. /\ WellRooted(done.tree, done.root, done.lost, g, u, d)
      /\ DOMAIN tree \subseteq DOMAIN done.tree /\ done.lost \in BOOLEAN
  BY <1>6 DEF IndexGrown
<1>8. lost' = done.lost  BY <1>3, <1>7
<1>9. WellRooted(tree', root', lost', g, u, d)  BY <1>3, <1>7, <1>8
<1>10. DOMAIN tree' \subseteq Nodes
  <2>1. Numbered(done.tree)  BY <1>7 DEF WellRooted, Well
  <2>2. DOMAIN done.tree \subseteq Nodes  BY <1>3, <2>1, NodesBound
  <2> QED BY <1>3, <2>2
<1>11. FileInv'
  <2>1. headerRoot' \in DOMAIN tree'  BY <1>2, <1>3, <1>7 DEF FileInv
  <2>2. open' \in BOOLEAN /\ isHeaderDirty' \in BOOLEAN /\ lost' \in BOOLEAN
    BY <1>2, <1>3, <1>7, <1>8 DEF FileInv
  <2>3. ~open' \/ ~isHeaderDirty' => root' = headerRoot'  BY <1>2, <1>3 DEF FileInv
  <2> QED BY <1>10, <2>1, <2>2, <2>3 DEF FileInv
<1>12. ScanInv'  BY <1>2, <1>3 DEF ScanInv
<1>13. InOrder(g, u, d)'  BY <1>3, <1>9 DEF InOrder, Scanning
<1> QED BY <1>11, <1>12, <1>13 DEF IInv

(* What a deletion does to the tree in order, found or not.                *)
DeletedOK(h, s, c, k, r) ==
    /\ WellRooted(tree', root, FALSE, h, s, c) /\ SameWay(tree, tree', c, k, r)
    /\ DOMAIN tree' = DOMAIN tree /\ rc' \in {"OK", "IX_ENTRY_DOES_NOT_EXIST"}
    /\ \/ <<k, r>> \in EntriesIn(tree) /\ EntriesIn(tree') = EntriesIn(tree) \ {<<k, r>>}
                                       /\ rc' = "OK"
       \/ <<k, r>> \notin EntriesIn(tree) /\ EntriesIn(tree') = EntriesIn(tree)

LEMMA DeletesWell ==
    ASSUME NEW h, NEW s, NEW c, WellRooted(tree, root, FALSE, h, s, c),
           NEW k \in Keys, NEW r, DeleteEntry(k, r)
    PROVE  DeletedOK(h, s, c, k, r)
<1> DEFINE p == Last(Path(k))
           keys == tree[p].keys
           i == FirstAbove(keys, k - 1)
           found == i \in DOMAIN keys /\ keys[i] = k /\ r \in ToSet(tree[p].rids[i])
<1>1. IF found
      THEN tree' = [tree EXCEPT ![p].rids[i] = bucket_delete(@, r)] /\ rc' = "OK"
      ELSE rc' \in {"OK", "IX_ENTRY_DOES_NOT_EXIST"} /\ tree' = tree
  BY DEF DeleteEntry
<1>2. p = Last(PathIn(tree, root, k)) /\ i = FirstAbove(tree[p].keys, k - 1)  BY DEF Path
<1>3. found <=> /\ i \in DOMAIN tree[p].keys /\ tree[p].keys[i] = k
                /\ r \in ToSet(tree[p].rids[i])
  OBVIOUS
<1> HIDE DEF p, i, found
<1>4. PlaceIs(tree, h, s, k, r, p, i)  BY <1>2, DeletePlace
<1>5. found <=> <<k, r>> \in EntriesIn(tree)  BY <1>3, <1>4 DEF PlaceIs
<1>6. p \in DOMAIN tree  BY <1>4 DEF PlaceIs
<1>7. CASE found
  <2> DEFINE t2 == [tree EXCEPT ![p].rids[i] = bucket_delete(@, r)]
  <2>1. tree' = t2 /\ rc' = "OK"  BY <1>1, <1>7
  <2>2. EntryGone(tree, root, h, s, c, k, r, p, i, t2)  BY <1>3, <1>4, <1>7, DeleteIs
  <2> HIDE DEF t2
  <2>3. SameWay(tree, t2, c, k, r)  BY <1>3, <1>6, <1>7, <2>2, GoneWay
  <2>4. /\ WellRooted(t2, root, FALSE, h, s, c) /\ EntriesIn(t2) = EntriesIn(tree) \ {<<k, r>>}
        /\ DOMAIN t2 = DOMAIN tree
    BY <2>2 DEF EntryGone
  <2> QED BY <1>5, <1>7, <2>1, <2>3, <2>4 DEF DeletedOK
<1>8. CASE ~found
  <2>1. rc' \in {"OK", "IX_ENTRY_DOES_NOT_EXIST"} /\ tree' = tree  BY <1>1, <1>8
  <2>2. Ordered(tree, c)  BY OrderedIs
  <2>3. ~EntryThere(tree, c, k, r)  BY <1>5, <1>8, <2>2 DEF Ordered
  <2>4. SameWay(tree, tree, c, k, r)  BY <2>2, <2>3, UnlessThere
  <2> QED BY <1>5, <1>8, <2>1, <2>4 DEF DeletedOK
<1> QED BY <1>7, <1>8

LEMMA StepDelete ==
    ASSUME IInv, NEW e \in Deleted, DeleteEntry(e[1], e[2])
    PROVE  IInv'
<1> DEFINE k == e[1]
           r == e[2]
<1>1. PICK h, s, c : InOrder(h, s, c)  BY DEF IInv
<1>2. FileInv /\ ScanInv  BY DEF IInv
<1>3. k \in Keys /\ r \in Rids
  <2>1. e \in Keys \X Rids  BY IndexTreeAssumption
  <2> QED BY <2>1
<1>4. /\ open /\ ~scan.busy /\ ~lost /\ due' = due \ {<<k, r>>}
      /\ disturbed' = IF scan.open THEN disturbed \cup {k} ELSE {}
      /\ headerRoot' = headerRoot /\ open' = open /\ root' = root
      /\ isHeaderDirty' = isHeaderDirty /\ scan' = scan /\ lost' = lost
  BY DEF DeleteEntry, handle
<1>5. lost = FALSE  BY <1>2, <1>4 DEF FileInv
<1>6. DeleteEntry(k, r)  OBVIOUS
<1> HIDE DEF k, r
<1>7. WellRooted(tree, root, FALSE, h, s, c)  BY <1>1, <1>5 DEF InOrder
<1>8. DeletedOK(h, s, c, k, r)  BY <1>3, <1>6, <1>7, DeletesWell
<1>9. /\ WellRooted(tree', root, FALSE, h, s, c) /\ SameWay(tree, tree', c, k, r)
      /\ DOMAIN tree' = DOMAIN tree /\ rc' \in {"OK", "IX_ENTRY_DOES_NOT_EXIST"}
  BY <1>8 DEF DeletedOK
<1>10. FileInv'  BY <1>2, <1>4, <1>9 DEF FileInv
<1>11. ScanInv'  BY <1>2, <1>3, <1>4 DEF ScanInv
<1>12. WellRooted(tree', root', lost', h, s, c)  BY <1>4, <1>5, <1>9
<1>13. rc' # "IX_EOF"  BY <1>9
<1>14. ASSUME scan.open
       PROVE  ScanIn(tree', c, scan, due', disturbed') /\ scan.value \in Keys
  <2>1. ScanIn(tree, c, scan, due, disturbed) /\ scan.value \in Keys
    BY <1>1, <1>14 DEF InOrder, Scanning
  <2>2. PICK x \in 1 .. Len(c) :
          /\ scan.node = c[x]
          /\ ScanAt(tree, c, x, scan.entry, scan.pos, scan.op, scan.value, due, disturbed)
    BY <2>1 DEF ScanIn
  <2>3. Ordered(tree, c)  BY <1>7, OrderedIs
  <2> DEFINE i == scan.entry
             pos == scan.pos
             op == scan.op
             v == scan.value
             t2 == tree'
  <2>4. ScanAt(tree, c, x, i, pos, op, v, due, disturbed) /\ SameWay(tree, t2, c, k, r)
    BY <1>9, <2>2
  <2> HIDE DEF i, pos, op, v, t2
  <2>5. ScanAt(t2, c, x, i, pos, op, v, due \ {<<k, r>>}, disturbed \cup {k})
    BY <2>3, <2>4, DeletedBeside
  <2>6. due' = due \ {<<k, r>>} /\ disturbed' = disturbed \cup {k}  BY <1>4, <1>14
  <2>7. ScanAt(t2, c, x, i, pos, op, v, due', disturbed')  BY <2>5, <2>6
  <2> QED BY <2>1, <2>2, <2>7 DEF ScanIn, i, pos, op, v, t2
<1>15. InOrder(h, s, c)'  BY <1>4, <1>12, <1>13, <1>14 DEF InOrder, Scanning
<1> QED BY <1>10, <1>11, <1>15 DEF IInv

LEMMA StepOpenScan ==
    ASSUME IInv, NEW q \in Conditions, OpenScan(q[1], q[2])
    PROVE  IInv'
<1> DEFINE op == q[1]
           v == q[2]
           leaf == IF Seeks(op) THEN Last(Path(v)) ELSE LeftmostLeaf
           D == {e \in Entries : Satisfies(e[1], op, v)}
           sc == [open |-> TRUE, op |-> op, value |-> v, node |-> leaf,
                  entry |-> StartEntry(tree[leaf].keys, op, v), pos |-> 1,
                  busy |-> FALSE, got |-> <<>>]
<1>1. PICK h, s, c : InOrder(h, s, c)  BY DEF IInv
<1>2. FileInv /\ ScanInv  BY DEF IInv
<1>3. op \in Ops /\ v \in Keys
  <2>1. q \in Ops \X Keys  BY IndexTreeAssumption DEF Ops
  <2> QED BY <2>1
<1>4. /\ open /\ ~scan.busy /\ ~lost
      /\ IF scan.open
         THEN rc' = "IX_SCAN_NOT_CLOSED" /\ scan' = scan /\ due' = due /\ disturbed' = disturbed
         ELSE scan' = sc /\ rc' = "OK" /\ due' = D /\ disturbed' = {}
      /\ tree' = tree /\ headerRoot' = headerRoot /\ open' = open /\ root' = root
      /\ isHeaderDirty' = isHeaderDirty /\ lost' = lost
  BY DEF OpenScan, file, handle
<1>5. FileInv'  BY <1>2, <1>4 DEF FileInv
<1>6. WellRooted(tree, root, lost, h, s, c) /\ lost = FALSE
  BY <1>1, <1>2, <1>4 DEF InOrder, FileInv
<1>7. WellRooted(tree', root', lost', h, s, c)  BY <1>4, <1>6
<1>8. CASE scan.open
  <2>1. /\ rc' = "IX_SCAN_NOT_CLOSED" /\ scan' = scan /\ due' = due /\ disturbed' = disturbed
    BY <1>4, <1>8
  <2>2. ScanInv'  BY <1>2, <1>4, <2>1 DEF ScanInv
  <2>3. ScanIn(tree, c, scan, due, disturbed) /\ scan.value \in Keys
    BY <1>1, <1>8 DEF InOrder, Scanning
  <2>4. InOrder(h, s, c)'  BY <1>4, <1>7, <2>1, <2>3 DEF InOrder, Scanning
  <2> QED BY <1>5, <2>2, <2>4 DEF IInv
<1>9. CASE ~scan.open
  <2>1. scan' = sc /\ rc' = "OK" /\ due' = D /\ disturbed' = {}  BY <1>4, <1>9
  <2> DEFINE i == StartEntry(tree[leaf].keys, op, v)
  <2>2. /\ sc.open = TRUE /\ sc.op = op /\ sc.value = v /\ sc.node = leaf /\ sc.entry = i
        /\ sc.pos = 1 /\ sc.busy = FALSE /\ sc.got = <<>>
    OBVIOUS
  <2>3. OpenedAt(tree, c, op, v, leaf)
    <3>1. CASE Seeks(op)
      <4>1. leaf = Last(PathIn(tree, root, v))  BY <3>1 DEF Path
      <4>2. v \in Int /\ v \in s[root]  BY <1>3, <1>6, KeysInt DEF WellRooted
      <4> HIDE DEF leaf, op, v
      <4> QED BY <1>6, <3>1, <4>1, <4>2, SeekOpened
    <3>2. CASE ~Seeks(op)
      <4>1. leaf = LeftmostLeaf  BY <3>2
      <4> HIDE DEF leaf, op, v
      <4>2. OpenedAt(tree, c, op, v, LeftmostLeaf)  BY <1>6, <3>2, FirstOpened
      <4> QED BY <4>1, <4>2
    <3> QED BY <3>1, <3>2
  <2>4. sc = [open |-> TRUE, op |-> op, value |-> v, node |-> leaf, entry |-> i, pos |-> 1,
              busy |-> FALSE, got |-> <<>>]
    OBVIOUS
  <2>5. D = {e \in EntriesIn(tree) : Satisfies(e[1], op, v)}  BY DEF Entries
  <2> HIDE DEF op, v, leaf, D, i, sc
  <2>6. PICK x \in 1 .. Len(c) : c[x] = leaf /\ ScanAt(tree, c, x, i, 1, op, v, D, {})
    BY <2>3, <2>5 DEF OpenedAt, i
  <2>7. leaf \in Int /\ i \in Nat
    <3>1. leaf \in DOMAIN tree  BY <1>6, <2>6, ChainLeafShape
    <3>2. leaf \in Nodes  BY <1>2, <3>1 DEF FileInv
    <3>3. i \in 1 .. Len(tree[c[x]].keys) + 1  BY <2>6 DEF ScanAt, PositionIs
    <3> QED BY <3>2, <3>3 DEF Nodes
  <2>8. sc \in ScanRecord  BY <1>3, <2>4, <2>7 DEF ScanRecord
  <2>9. D \in SUBSET (Keys \X Rids)
    <3>1. Ordered(tree, c)  BY <1>6, OrderedIs
    <3>2. ASSUME NEW e \in D PROVE e \in Keys \X Rids
      <4>1. e \in EntriesIn(tree)  BY <2>5, <3>2
      <4>2. e = <<e[1], e[2]>>
        <5>1. PICK p \in LeavesIn(tree) : e \in EntriesOf(tree[p])  BY <4>1 DEF EntriesIn
        <5> QED BY <5>1, EntriesOfIs
      <4>3. EntryThere(tree, c, e[1], e[2])  BY <3>1, <4>1, <4>2 DEF Ordered
      <4>4. PICK y, j, m : Has(tree, c, y, j, m, e[1], e[2])  BY <4>3 DEF EntryThere
      <4>5. e[1] \in Keys /\ RidsAt(tree, c, y, j) \in Bucket
            /\ m \in 1 .. Len(RidsAt(tree, c, y, j)) /\ RidsAt(tree, c, y, j)[m] = e[2]
        BY <3>1, <4>4 DEF Has, Ordered
      <4>6. e[2] \in Rids  BY <4>5 DEF Bucket
      <4> QED BY <4>2, <4>5, <4>6
    <3> QED BY <3>2
  <2>10. ScanInv'  BY <1>4, <2>1, <2>2, <2>8, <2>9 DEF ScanInv
  <2>11. ScanIn(tree', c, scan', due', disturbed')  BY <1>4, <2>1, <2>2, <2>6 DEF ScanIn
  <2>12. scan'.value \in Keys /\ rc' # "IX_EOF"  BY <1>3, <2>1, <2>2
  <2>13. InOrder(h, s, c)'  BY <1>7, <2>11, <2>12 DEF InOrder, Scanning
  <2> QED BY <1>5, <2>10, <2>13 DEF IInv
<1> QED BY <1>8, <1>9

(* The state after a round of GetNextEntry at leaf c[x].                   *)
RoundOK(c, D, dist) ==
    /\ scan' \in ScanRecord /\ scan'.open = TRUE /\ scan'.value = scan.value
    /\ due' \in SUBSET D /\ ScanIn(tree, c, scan', due', dist)
    /\ ~scan'.busy /\ rc' = "IX_EOF" => AllDisturbed(due', dist)
    /\ scan'.got # <<>> => scan'.got \in D

LEMMA RoundEnded ==
    ASSUME NEW c, NEW x \in 1 .. Len(c), NEW n, NEW dist, scan \in ScanRecord, scan.open,
           scan.node = c[x], n = tree[c[x]], Ordered(tree, c),
           ScanAt(tree, c, x, scan.entry, scan.pos, scan.op, scan.value, due, dist),
           scan.value \in Int, ScanEnded,
           \/ AtEnd(n) /\ x = Len(c)
           \/ ~AtEnd(n) /\ Refuses(n) /\ scan.op \in {"LT", "LE"}
    PROVE  RoundOK(c, due, dist)
<1> DEFINE i == scan.entry
           pos == scan.pos
           op == scan.op
           v == scan.value
           got == <<>>
           sc == MovedTo(scan, scan.node, i, pos, FALSE, got)
<1>1. scan' = sc /\ rc' = "IX_EOF" /\ due' = due  BY DEF ScanEnded
<1>2. /\ sc.open = scan.open /\ sc.value = v /\ sc.op = op /\ sc.node = c[x] /\ sc.entry = i
      /\ sc.pos = pos /\ sc.busy = FALSE /\ sc.got = got
  BY DEF MovedTo
<1>3. scan.node \in Int /\ i \in Nat /\ pos \in Nat /\ scan.open = TRUE  BY DEF ScanRecord
<1>4. sc \in ScanRecord
  <2> DEFINE node == scan.node
             busy == FALSE
  <2>1. node \in Int /\ busy \in BOOLEAN /\ (got = <<>> \/ got \in Keys \X Rids)  BY <1>3
  <2> HIDE DEF i, pos, node, busy, got
  <2>2. MovedTo(scan, node, i, pos, busy, got) \in ScanRecord  BY <1>3, <2>1, MovedTyped DEF i, pos
  <2> QED BY <2>2 DEF i, pos, node, busy, got
<1>5. AllDisturbed(due, dist)
  <2>1. ScanAt(tree, c, x, i, pos, op, v, due, dist) /\ v \in Int  OBVIOUS
  <2>2. CASE AtEnd(n) /\ x = Len(c)
    <3>1. i = Len(tree[c[x]].keys) + 1  BY <2>2 DEF AtEnd
    <3> HIDE DEF i, pos, op, v
    <3> QED BY <2>1, <2>2, <3>1, EndOfChain
  <2>3. CASE ~AtEnd(n) /\ Refuses(n) /\ op \in {"LT", "LE"}
    <3>1. i # Len(tree[c[x]].keys) + 1  BY <2>3 DEF AtEnd
    <3>2. ~Satisfies(KeyAt(tree, c, x, i), op, v)  BY <2>3 DEF Refuses, KeyAt
    <3> HIDE DEF i, pos, op, v
    <3> QED BY <2>1, <2>3, <3>1, <3>2, EndAtKey
  <2> QED BY <2>2, <2>3
<1> HIDE DEF sc
<1>6. ScanIn(tree, c, sc, due, dist)  BY <1>2 DEF ScanIn
<1> QED BY <1>1, <1>2, <1>3, <1>4, <1>5, <1>6 DEF RoundOK

LEMMA RoundNextLeaf ==
    ASSUME NEW c, NEW x \in 1 .. Len(c), NEW n, NEW dist, scan \in ScanRecord, scan.open,
           n = tree[c[x]], Ordered(tree, c),
           ScanAt(tree, c, x, scan.entry, scan.pos, scan.op, scan.value, due, dist),
           ToNextLeaf(n), AtEnd(n), x < Len(c), n.next = c[x + 1], n.next \in Int,
           due \in SUBSET (Keys \X Rids)
    PROVE  RoundOK(c, due, dist)
<1> DEFINE i == scan.entry
           pos == scan.pos
           op == scan.op
           v == scan.value
           node == n.next
           sc == MovedTo(scan, node, 1, 1, TRUE, <<>>)
<1>1. scan' = sc /\ rc' = rc /\ due' = due  BY DEF ToNextLeaf
<1>2. /\ sc.open = scan.open /\ sc.value = v /\ sc.op = op /\ sc.node = node /\ sc.entry = 1
      /\ sc.pos = 1 /\ sc.busy = TRUE /\ sc.got = <<>>
  BY DEF MovedTo
<1>3. scan.open = TRUE  BY DEF ScanRecord
<1>4. sc \in ScanRecord
  <2> DEFINE busy == TRUE
             got == <<>>
             one == 1
  <2>1. node \in Int /\ one \in Nat /\ busy \in BOOLEAN /\ (got = <<>> \/ got \in Keys \X Rids)
    OBVIOUS
  <2> HIDE DEF node, busy, got, one
  <2>2. MovedTo(scan, node, one, one, busy, got) \in ScanRecord  BY <2>1, MovedTyped
  <2> QED BY <2>2 DEF node, busy, got, one
<1>5. ScanAt(tree, c, x + 1, 1, 1, op, v, due, dist)
  <2>1. ScanAt(tree, c, x, i, pos, op, v, due, dist)  OBVIOUS
  <2>2. i = Len(tree[c[x]].keys) + 1  BY DEF AtEnd
  <2>3. PositionIs(tree, c, x, i, pos)  BY <2>1 DEF ScanAt
  <2> HIDE DEF i, pos, op, v
  <2>4. Moves(tree, c, x, i, pos, x + 1, 1, 1, op, v)  BY <2>2, <2>3, NextLeafMoves
  <2> DEFINE y == x + 1
             one == 1
  <2>5. Moves(tree, c, x, i, pos, y, one, one, op, v)  BY <2>4
  <2> HIDE DEF y, one
  <2>6. ScanAt(tree, c, y, one, one, op, v, due, dist)  BY <2>1, <2>5, MoveOn
  <2> QED BY <2>6 DEF y, one
<1> HIDE DEF sc
<1>6. x + 1 \in 1 .. Len(c)
  <2>1. Len(c) \in Nat  BY DEF Ordered
  <2> QED BY <2>1
<1>7. ScanIn(tree, c, sc, due, dist)  BY <1>2, <1>5, <1>6 DEF ScanIn
<1> QED BY <1>1, <1>2, <1>3, <1>4, <1>7 DEF RoundOK

LEMMA RoundNextKey ==
    ASSUME NEW c, NEW x \in 1 .. Len(c), NEW n, NEW dist, scan \in ScanRecord, scan.open,
           scan.node = c[x], n = tree[c[x]], Ordered(tree, c),
           ScanAt(tree, c, x, scan.entry, scan.pos, scan.op, scan.value, due, dist),
           ToNextKey, ~AtEnd(n), Refuses(n) \/ NoneLeft(n)
    PROVE  RoundOK(c, due, dist)
<1> DEFINE i == scan.entry
           pos == scan.pos
           op == scan.op
           v == scan.value
           node == scan.node
           sc == MovedTo(scan, node, i + 1, 1, TRUE, <<>>)
<1>1. scan' = sc /\ rc' = rc /\ due' = due  BY DEF ToNextKey
<1>2. /\ sc.open = scan.open /\ sc.value = v /\ sc.op = op /\ sc.node = node /\ sc.entry = i + 1
      /\ sc.pos = 1 /\ sc.busy = TRUE /\ sc.got = <<>>
  BY DEF MovedTo
<1>3. scan.open = TRUE /\ node \in Int /\ i \in Nat  BY DEF ScanRecord
<1>4. sc \in ScanRecord
  <2> DEFINE busy == TRUE
             got == <<>>
             one == 1
             up == i + 1
  <2>1. /\ one \in Nat /\ up \in Nat /\ busy \in BOOLEAN
        /\ got = <<>> \/ got \in Keys \X Rids
    BY <1>3
  <2> HIDE DEF node, busy, got, one, up, i
  <2>2. MovedTo(scan, node, up, one, busy, got) \in ScanRecord  BY <1>3, <2>1, MovedTyped
  <2> QED BY <2>2 DEF node, busy, got, one, up, i
<1>5. ScanAt(tree, c, x, i + 1, 1, op, v, due, dist)
  <2>1. ScanAt(tree, c, x, i, pos, op, v, due, dist)  OBVIOUS
  <2>2. i # Len(tree[c[x]].keys) + 1  BY DEF AtEnd
  <2>3. PositionIs(tree, c, x, i, pos)  BY <2>1 DEF ScanAt
  <2>4. ~Satisfies(KeyAt(tree, c, x, i), op, v) \/ pos > Len(RidsAt(tree, c, x, i))
    BY DEF Refuses, NoneLeft, KeyAt, RidsAt
  <2> HIDE DEF i, pos, op, v
  <2>5. Moves(tree, c, x, i, pos, x, i + 1, 1, op, v)  BY <2>2, <2>3, <2>4, NextKeyMoves
  <2> DEFINE up == i + 1
             one == 1
  <2>6. Moves(tree, c, x, i, pos, x, up, one, op, v)  BY <2>5
  <2> HIDE DEF up, one
  <2>7. ScanAt(tree, c, x, up, one, op, v, due, dist)  BY <2>1, <2>6, MoveOn
  <2> QED BY <2>7 DEF up, one
<1> HIDE DEF sc
<1>6. ScanIn(tree, c, sc, due, dist)  BY <1>2, <1>5 DEF ScanIn
<1> QED BY <1>1, <1>2, <1>3, <1>4, <1>6 DEF RoundOK

LEMMA RoundReturned ==
    ASSUME NEW c, NEW x \in 1 .. Len(c), NEW n, NEW dist, scan \in ScanRecord, scan.open,
           scan.node = c[x], n = tree[c[x]], Ordered(tree, c),
           ScanAt(tree, c, x, scan.entry, scan.pos, scan.op, scan.value, due, dist),
           due \in SUBSET (Keys \X Rids), ~AtEnd(n), ~Refuses(n), ~NoneLeft(n),
           Returned(<<n.keys[scan.entry], n.rids[scan.entry][scan.pos]>>)
    PROVE  RoundOK(c, due, dist)
<1> DEFINE i == scan.entry
           pos == scan.pos
           op == scan.op
           v == scan.value
           node == scan.node
           k == n.keys[i]
           r == n.rids[i][pos]
           got == <<k, r>>
           sc == MovedTo(scan, node, i, pos + 1, FALSE, got)
<1>1. scan' = sc /\ rc' = "OK" /\ due' = due \ {got}  BY DEF Returned
<1>2. /\ sc.open = scan.open /\ sc.value = v /\ sc.op = op /\ sc.node = node /\ sc.entry = i
      /\ sc.pos = pos + 1 /\ sc.busy = FALSE /\ sc.got = got
  BY DEF MovedTo
<1>3. scan.open = TRUE /\ node \in Int /\ i \in Nat /\ pos \in Nat  BY DEF ScanRecord
<1>4. /\ k = KeyAt(tree, c, x, i) /\ r = RidsAt(tree, c, x, i)[pos]
      /\ i # Len(tree[c[x]].keys) + 1
      /\ Satisfies(KeyAt(tree, c, x, i), op, v) \/ Seeks(op)
      /\ ~(pos > Len(RidsAt(tree, c, x, i)))
      /\ ScanAt(tree, c, x, i, pos, op, v, due, dist)
  BY DEF AtEnd, Refuses, NoneLeft, KeyAt, RidsAt
<1> HIDE DEF i, pos, op, v, k, r
<1>5. got \in due /\ ScanAt(tree, c, x, i, pos + 1, op, v, due \ {got}, dist)
  BY <1>4, GotIs
<1> HIDE DEF got, sc
<1>6. sc \in ScanRecord
  <2> DEFINE busy == FALSE
             on == pos + 1
  <2>1. on \in Nat /\ busy \in BOOLEAN /\ (got = <<>> \/ got \in Keys \X Rids)  BY <1>3, <1>5
  <2> HIDE DEF node, busy, on
  <2>2. MovedTo(scan, node, i, on, busy, got) \in ScanRecord  BY <1>3, <2>1, MovedTyped
  <2> QED BY <2>2 DEF node, busy, on, sc
<1>7. ScanIn(tree, c, sc, due \ {got}, dist)  BY <1>2, <1>5 DEF ScanIn
<1> QED BY <1>1, <1>2, <1>3, <1>5, <1>6, <1>7 DEF RoundOK, v

LEMMA RoundIs ==
    ASSUME IInv, NEW h, NEW s, NEW c, InOrder(h, s, c), GetNextEntry
    PROVE  RoundOK(c, due, disturbed)
<1> DEFINE n == tree[scan.node]
<1>1. scan.open  BY DEF GetNextEntry
<1>2. scan \in ScanRecord /\ due \in SUBSET (Keys \X Rids)  BY DEF IInv, ScanInv
<1>3. WellRooted(tree, root, lost, h, s, c)  BY DEF InOrder
<1>4. ScanIn(tree, c, scan, due, disturbed) /\ scan.value \in Keys
  BY <1>1 DEF InOrder, Scanning
<1>5. PICK x \in 1 .. Len(c) :
        /\ scan.node = c[x]
        /\ ScanAt(tree, c, x, scan.entry, scan.pos, scan.op, scan.value, due, disturbed)
  BY <1>4 DEF ScanIn
<1>6. Ordered(tree, c)  BY <1>3, OrderedIs
<1>7. /\ Len(c) \in Nat /\ \A i \in 1 .. Len(c) : c[i] # kNullNode /\ c[i] \in LeavesIn(tree)
      /\ tree[c[x]].next = IF x < Len(c) THEN c[x + 1] ELSE kNullNode
  BY <1>3, ChainLeaves
<1>8. n = tree[c[x]] /\ n = tree[scan.node]  BY <1>5
<1> HIDE DEF n
<1>9. scan.value \in Int  BY <1>4, KeysInt
<1>10. CASE AtEnd(n) /\ n.next = kNullNode /\ ScanEnded
  <2>1. x = Len(c)
    <3>1. x < Len(c) => x + 1 \in 1 .. Len(c)  BY <1>7
    <3>2. ~(x < Len(c))  BY <1>7, <1>8, <1>10, <3>1
    <3> QED BY <1>7, <3>2
  <2> QED BY <1>1, <1>2, <1>5, <1>6, <1>8, <1>9, <1>10, <2>1, RoundEnded
<1>11. CASE AtEnd(n) /\ n.next # kNullNode /\ ToNextLeaf(n)
  <2>1. x < Len(c) /\ n.next = c[x + 1]  BY <1>7, <1>8, <1>11
  <2>2. x + 1 \in 1 .. Len(c)  BY <1>7, <2>1
  <2>3. n.next \in Int
    <3>1. c[x + 1] \in DOMAIN tree  BY <1>3, <2>2, ChainLeafShape
    <3>2. DOMAIN tree \subseteq Nodes  BY DEF IInv, FileInv
    <3> QED BY <2>1, <3>1, <3>2 DEF Nodes
  <2> QED BY <1>1, <1>2, <1>5, <1>6, <1>8, <1>11, <2>1, <2>3, RoundNextLeaf
<1>12. CASE ~AtEnd(n) /\ Refuses(n) /\ scan.op \in {"LT", "LE"} /\ ScanEnded
  BY <1>1, <1>2, <1>5, <1>6, <1>8, <1>9, <1>12, RoundEnded
<1>13. CASE ~AtEnd(n) /\ (Refuses(n) \/ NoneLeft(n)) /\ ToNextKey
  BY <1>1, <1>2, <1>5, <1>6, <1>8, <1>13, RoundNextKey
<1>14. CASE /\ ~AtEnd(n) /\ ~Refuses(n) /\ ~NoneLeft(n)
            /\ Returned(<<n.keys[scan.entry], n.rids[scan.entry][scan.pos]>>)
  BY <1>1, <1>2, <1>5, <1>6, <1>8, <1>14, RoundReturned
<1>15. \/ AtEnd(n) /\ n.next = kNullNode /\ ScanEnded
       \/ AtEnd(n) /\ n.next # kNullNode /\ ToNextLeaf(n)
       \/ ~AtEnd(n) /\ Refuses(n) /\ scan.op \in {"LT", "LE"} /\ ScanEnded
       \/ ~AtEnd(n) /\ (Refuses(n) \/ NoneLeft(n)) /\ ToNextKey
       \/ /\ ~AtEnd(n) /\ ~Refuses(n) /\ ~NoneLeft(n)
          /\ Returned(<<n.keys[scan.entry], n.rids[scan.entry][scan.pos]>>)
  BY <1>2, <1>8, GetNextBranches
<1> QED BY <1>10, <1>11, <1>12, <1>13, <1>14, <1>15

LEMMA StepNextEntry ==
    ASSUME IInv, GetNextEntry
    PROVE  IInv'
<1>1. PICK h, s, c : InOrder(h, s, c)  BY DEF IInv
<1>2. RoundOK(c, due, disturbed)  BY <1>1, RoundIs
<1>3. /\ scan.open /\ tree' = tree /\ headerRoot' = headerRoot /\ open' = open /\ root' = root
      /\ isHeaderDirty' = isHeaderDirty /\ lost' = lost /\ disturbed' = disturbed
  BY DEF GetNextEntry, file, handle
<1>4. /\ scan' \in ScanRecord /\ scan'.open = TRUE /\ scan'.value = scan.value
      /\ due' \in SUBSET due /\ ScanIn(tree, c, scan', due', disturbed)
      /\ ~scan'.busy /\ rc' = "IX_EOF" => AllDisturbed(due', disturbed)
  BY <1>2 DEF RoundOK
<1>5. FileInv /\ ScanInv  BY DEF IInv
<1>6. FileInv'  BY <1>3, <1>5 DEF FileInv
<1>7. ScanInv'  BY <1>3, <1>4, <1>5 DEF ScanInv
<1>8. InOrder(h, s, c)'
  <2>1. WellRooted(tree', root', lost', h, s, c)  BY <1>1, <1>3 DEF InOrder
  <2>2. scan'.value \in Keys  BY <1>1, <1>3, <1>4 DEF InOrder, Scanning
  <2>3. ScanIn(tree', c, scan', due', disturbed')
        /\ (~scan'.busy /\ rc' = "IX_EOF" => AllDisturbed(due', disturbed'))
    BY <1>3, <1>4
  <2> QED BY <2>1, <2>2, <2>3 DEF InOrder, Scanning
<1> QED BY <1>6, <1>7, <1>8 DEF IInv

LEMMA StepCloseScan ==
    ASSUME IInv, CloseScan \/ UNCHANGED vars
    PROVE  IInv'
<1>1. PICK h, s, c : InOrder(h, s, c)  BY DEF IInv
<1>2. FileInv /\ ScanInv  BY DEF IInv
<1>3. CASE CloseScan
  <2>1. /\ scan' = NoScan /\ due' = {} /\ disturbed' = {} /\ tree' = tree
        /\ headerRoot' = headerRoot /\ open' = open /\ root' = root
        /\ isHeaderDirty' = isHeaderDirty /\ lost' = lost
    BY <1>3 DEF CloseScan, file, handle
  <2>2. FileInv'  BY <1>2, <2>1 DEF FileInv
  <2>3. ScanInv'  BY <2>1, NoScanTyped DEF ScanInv
  <2>4. WellRooted(tree', root', lost', h, s, c)  BY <1>1, <2>1 DEF InOrder
  <2>5. InOrder(h, s, c)'  BY <2>1, <2>4, NoScanTyped DEF InOrder, Scanning
  <2> QED BY <2>2, <2>3, <2>5 DEF IInv
<1>4. CASE UNCHANGED vars
  <2>1. /\ scan' = scan /\ due' = due /\ disturbed' = disturbed /\ tree' = tree
        /\ headerRoot' = headerRoot /\ open' = open /\ root' = root
        /\ isHeaderDirty' = isHeaderDirty /\ lost' = lost /\ rc' = rc
    BY <1>4 DEF vars, file, handle
  <2>2. FileInv'  BY <1>2, <2>1 DEF FileInv
  <2>3. ScanInv'  BY <1>2, <2>1 DEF ScanInv
  <2>4. InOrder(h, s, c)'  BY <1>1, <2>1 DEF InOrder
  <2> QED BY <2>2, <2>3, <2>4 DEF IInv
<1> QED BY <1>3, <1>4

LEMMA NextIInv ==
    ASSUME IInv, [Next]_vars
    PROVE  IInv'
<1>1. CASE OpenIndex \/ CloseIndex  BY <1>1, StepFile
<1>2. CASE \E e \in Inserted : InsertEntry(e[1], e[2])  BY <1>2, StepInsert
<1>3. CASE \E e \in Deleted : DeleteEntry(e[1], e[2])  BY <1>3, StepDelete
<1>4. CASE \E q \in Conditions : OpenScan(q[1], q[2])  BY <1>4, StepOpenScan
<1>5. CASE GetNextEntry  BY <1>5, StepNextEntry
<1>6. CASE CloseScan \/ UNCHANGED vars  BY <1>6, StepCloseScan
<1> QED BY <1>1, <1>2, <1>3, <1>4, <1>5, <1>6 DEF Next

(* The tree and the scan stay in order together, whatever the calls of    *)
(* IX_Manager, IX_IndexHandle and IX_IndexScan.                            *)
THEOREM IInvHolds == Spec => []IInv
<1>1. Init => IInv  BY InitIInv
<1>2. IInv /\ [Next]_vars => IInv'  BY NextIInv
<1> QED BY <1>1, <1>2, PTL DEF Spec

LEMMA TypesIn ==
    ASSUME FileInv, ScanInv, NEW h, NEW s, NEW c, WellRooted(tree, root, lost, h, s, c)
    PROVE  TypeOK
<1>1. root \in DOMAIN tree  BY DEF WellRooted
<1>2. \A p \in DOMAIN tree : NodeTyped(tree, p)  BY NodesTyped
<1>3. DOMAIN tree \subseteq Nodes /\ headerRoot \in DOMAIN tree /\ open \in BOOLEAN
      /\ isHeaderDirty \in BOOLEAN /\ lost \in BOOLEAN
  BY DEF FileInv
<1>4. due \subseteq Keys \X Rids /\ disturbed \subseteq Keys  BY DEF ScanInv
<1> QED BY Zenon, <1>1, <1>2, <1>3, <1>4 DEF TypeOK, NodeTyped

(* What insert_leaf, insert_internal and InsertEntry make of the tree:     *)
(* however nodes split, a key is looked for where its entries are, and all *)
(* leaves are as far from the root.                                        *)
THEOREM TreeStaysInOrder == Spec => []TreeInv
<1>1. IInv => TreeInv
  <2> SUFFICES ASSUME IInv PROVE TreeInv  OBVIOUS
  <2>1. PICK h, s, c : InOrder(h, s, c)  BY DEF IInv
  <2>2. WellRooted(tree, root, lost, h, s, c)  BY <2>1 DEF InOrder
  <2>3. TypeOK  BY <2>2, TypesIn DEF IInv
  <2> QED BY <2>2, <2>3, KeysFound, BalancedIs DEF TreeInv
<1> QED BY <1>1, IInvHolds, PTL

(* The links of the leaves (insert_leaf) leave none out, a lost one        *)
(* neither.                                                                *)
THEOREM EveryLeafIsOnTheChain == Spec => []ChainVisitsEveryLeaf
<1>1. IInv => ChainVisitsEveryLeaf  BY ChainComplete DEF IInv, InOrder
<1> QED BY <1>1, IInvHolds, PTL

(* The keys ascend from leaf to leaf, which the scans for LT and LE rely   *)
(* on.                                                                     *)
THEOREM ChainAscendsAlways == Spec => []KeysAscendAlongChain
<1>1. IInv => KeysAscendAlongChain  BY ChainAscends DEF IInv, InOrder
<1> QED BY <1>1, IInvHolds, PTL

(* A scan that reports its end has returned all it owes, deletions between *)
(* its calls or not.                                                       *)
THEOREM ScanIsComplete == Spec => []ScanMissesNothing
<1>1. IInv => ScanMissesNothing
  <2> SUFFICES ASSUME IInv, scan.open, ~scan.busy, rc = "IX_EOF", NEW e \in due
               PROVE  e[1] \in disturbed
    BY DEF ScanMissesNothing
  <2>1. PICK h, s, c : InOrder(h, s, c)  BY DEF IInv
  <2>2. AllDisturbed(due, disturbed)  BY <2>1 DEF InOrder, Scanning
  <2>3. e \in Keys \X Rids  BY DEF IInv, ScanInv
  <2>4. e = <<e[1], e[2]>>  BY <2>3
  <2> QED BY <2>2, <2>4 DEF AllDisturbed
<1> QED BY <1>1, IInvHolds, PTL

(* What GetNextEntry returns is due: it satisfies the condition and has    *)
(* not been returned before.                                               *)
THEOREM ScanIsExact == Spec => ScanReturnsOnce
<1>1. IInv /\ [Next]_vars => [scan' # scan /\ scan'.got # <<>> /\ ~lost => scan'.got \in due]_vars
  <2> SUFFICES ASSUME IInv, Next, scan' # scan, scan'.got # <<>> PROVE scan'.got \in due
    OBVIOUS
  <2>1. CASE GetNextEntry
    <3>1. PICK h, s, c : InOrder(h, s, c)  BY DEF IInv
    <3>2. RoundOK(c, due, disturbed)  BY <2>1, <3>1, RoundIs
    <3> QED BY <3>2 DEF RoundOK
  <2>2. CASE CloseScan  BY <2>2, NoScanTyped DEF CloseScan
  <2>3. CASE \E q \in Conditions : OpenScan(q[1], q[2])
    <3>1. scan'.got = <<>>  BY <2>3 DEF OpenScan
    <3> QED BY <3>1
  <2>4. CASE OpenIndex \/ CloseIndex  BY <2>4 DEF OpenIndex, CloseIndex
  <2>5. CASE \E e \in Inserted : InsertEntry(e[1], e[2])  BY <2>5 DEF InsertEntry
  <2>6. CASE \E e \in Deleted : DeleteEntry(e[1], e[2])  BY <2>6 DEF DeleteEntry
  <2> QED BY <2>1, <2>2, <2>3, <2>4, <2>5, <2>6 DEF Next
<1> QED BY <1>1, IInvHolds, PTL DEF Spec, ScanReturnsOnce

----------------------------------------------------------------------------
(* The index as a multimap.  The steps of IndexMap, with e = <<k, r>>.     *)
LEMMA MapCounts == \A S : Map!Cardinality(S) = Cardinality(S)
  BY DEF Map!Cardinality, Cardinality

LEMMA MapStarts ==
    ASSUME Init
    PROVE  Map!Init
<1>1. PICK w \in Fillings : Filled(w).ret = "OK" /\ tree = Filled(w).tree
  BY DEF Init
<1>2. lost = FALSE /\ rc = "OK"  BY DEF Init
<1>3. w \in Seq(Keys \X Rids)  BY IndexTreeAssumption
<1>4. Holds(Filled(w), {w[i] : i \in DOMAIN w})  BY <1>1, <1>3, FilledIs
<1>5. Entries = {w[i] : i \in DOMAIN w}  BY <1>1, <1>4 DEF Holds, Entries
<1> QED BY <1>2, <1>5 DEF Map!Init

LEMMA MapLooks ==
    ASSUME tree' = tree, lost' = lost, rc' \in {"OK", "IX_EOF", "IX_SCAN_NOT_CLOSED"}
    PROVE  Map!Next
  BY DEF Map!Next, Map!Look, Entries

LEMMA MapStutters ==
    ASSUME tree' = tree, lost' = lost, rc' = rc
    PROVE  UNCHANGED Map!vars
  BY DEF Map!vars, Entries

LEMMA MapInserts ==
    ASSUME NEW e \in Keys \X Rids, NEW E, E = EntriesIn(tree), lost = FALSE, lost' \in BOOLEAN,
           Grew(E, EntriesIn(tree'), e, rc'), Answered(WithKey(E, e[1]), e, rc'),
           lost' => rc' # "OK"
    PROVE  Map!Next
<1> DEFINE W == WithKey(E, e[1])
<1>1. Map!WithKey(e[1]) = W /\ Entries = E  BY DEF Map!WithKey, WithKey, Entries
<1>2. e \in E <=> e \in W  BY DEF WithKey
<1>3. Map!Cardinality(W) = Cardinality(W)  BY MapCounts
<1>4. Entries' = IF rc' = "OK" THEN E \cup {e} ELSE E  BY DEF Grew, Entries
<1>5. \/ rc' = "OK" /\ e \notin W /\ Cardinality(W) < ridsPerBucket
      \/ rc' = "IX_BUCKET_FULL" /\ Cardinality(W) = ridsPerBucket
      \/ rc' = "IX_ENTRY_EXISTS" /\ e \in W /\ Cardinality(W) < ridsPerBucket
  BY DEF Answered
<1> HIDE DEF W
<1>6. CASE rc' = "OK"
  <2>1. Map!Insert(e)  BY <1>1, <1>2, <1>3, <1>4, <1>5, <1>6 DEF Map!Insert
  <2> QED BY <2>1 DEF Map!Next
<1>7. CASE rc' # "OK"
  <2>1. Map!RefuseInsert(e)  BY <1>1, <1>2, <1>3, <1>4, <1>5, <1>7 DEF Map!RefuseInsert
  <2> QED BY <2>1 DEF Map!Next
<1> QED BY <1>6, <1>7

LEMMA MapDeletes ==
    ASSUME NEW e \in Keys \X Rids, NEW E, E = EntriesIn(tree), lost' = lost,
           rc' \in {"OK", "IX_ENTRY_DOES_NOT_EXIST"},
           \/ e \in E /\ EntriesIn(tree') = E \ {e} /\ rc' = "OK"
           \/ e \notin E /\ EntriesIn(tree') = E
    PROVE  Map!Next
<1>1. CASE e \in E
  <2>1. Map!Delete(e)  BY <1>1 DEF Map!Delete, Entries
  <2> QED BY <2>1 DEF Map!Next
<1>2. CASE e \notin E
  <2>1. Map!RefuseDelete(e)  BY <1>2 DEF Map!RefuseDelete, Entries
  <2> QED BY <2>1 DEF Map!Next
<1> QED BY <1>1, <1>2

LEMMA InsertMaps ==
    ASSUME IInv, NEW e \in Inserted, InsertEntry(e[1], e[2])
    PROVE  Map!Next
<1> DEFINE k == e[1]
           r == e[2]
           done == Insertion(tree, root, k, r)
<1>1. PICK h, s, c : InOrder(h, s, c)  BY DEF IInv
<1>2. /\ ~lost /\ tree' = done.tree /\ rc' = done.ret /\ lost' = (lost \/ done.lost)
  BY DEF InsertEntry
<1>3. lost = FALSE  BY <1>2 DEF IInv, FileInv
<1>4. e \in Keys \X Rids  BY IndexTreeAssumption
<1>5. k \in Keys /\ r \in Rids /\ e = <<k, r>>  BY <1>4
<1> HIDE DEF k, r
<1>6. \E g, u, d : IndexGrown(tree, k, r, done, g, u, d)
  <2>1. WellRooted(tree, root, FALSE, h, s, c)  BY <1>1, <1>3 DEF InOrder
  <2> QED BY <1>5, <2>1, InsertionIs
<1> HIDE DEF done
<1>7. PICK g, u, d : IndexGrown(tree, k, r, done, g, u, d)  BY <1>6
<1>8. /\ done.lost \in BOOLEAN /\ (done.lost => done.ret # "OK")
      /\ Grew(EntriesIn(tree), EntriesIn(done.tree), <<k, r>>, done.ret)
      /\ Answered(WithKey(EntriesIn(tree), k), <<k, r>>, done.ret)
  BY <1>7 DEF IndexGrown
<1>9. lost' \in BOOLEAN /\ (lost' => rc' # "OK")  BY <1>2, <1>3, <1>8
<1>10. k = e[1]  BY DEF k
<1> DEFINE E == EntriesIn(tree)
<1>11. Grew(E, EntriesIn(tree'), e, rc') /\ Answered(WithKey(E, e[1]), e, rc')
  BY <1>2, <1>5, <1>8, <1>10
<1> QED BY <1>3, <1>4, <1>9, <1>11, MapInserts

LEMMA DeleteMaps ==
    ASSUME IInv, NEW e \in Deleted, DeleteEntry(e[1], e[2])
    PROVE  Map!Next
<1> DEFINE k == e[1]
           r == e[2]
<1>1. PICK h, s, c : InOrder(h, s, c)  BY DEF IInv
<1>2. ~lost /\ lost' = lost  BY DEF DeleteEntry
<1>3. lost = FALSE  BY <1>2 DEF IInv, FileInv
<1>4. e \in Keys \X Rids  BY IndexTreeAssumption
<1>5. k \in Keys /\ e = <<k, r>> /\ DeleteEntry(k, r)  BY <1>4
<1> HIDE DEF k, r
<1>6. WellRooted(tree, root, FALSE, h, s, c)  BY <1>1, <1>3 DEF InOrder
<1>7. DeletedOK(h, s, c, k, r)  BY <1>5, <1>6, DeletesWell
<1> DEFINE E == EntriesIn(tree)
<1>8. /\ rc' \in {"OK", "IX_ENTRY_DOES_NOT_EXIST"}
      /\ \/ e \in E /\ EntriesIn(tree') = E \ {e} /\ rc' = "OK"
         \/ e \notin E /\ EntriesIn(tree') = E
  BY <1>5, <1>7 DEF DeletedOK
<1> QED BY <1>2, <1>4, <1>8, MapDeletes

LEMMA GetNextMaps ==
    ASSUME IInv, GetNextEntry
    PROVE  [Map!Next]_Map!vars
<1> DEFINE n == tree[scan.node]
<1>1. tree' = tree /\ lost' = lost  BY DEF GetNextEntry, file
<1>2. scan \in ScanRecord  BY DEF IInv, ScanInv
<1>3. ScanEnded \/ ToNextLeaf(n) \/ ToNextKey
        \/ Returned(<<n.keys[scan.entry], n.rids[scan.entry][scan.pos]>>)
  BY <1>2, GetNextBranches
<1>4. rc' = rc \/ rc' \in {"OK", "IX_EOF", "IX_SCAN_NOT_CLOSED"}
  BY <1>3 DEF ScanEnded, ToNextLeaf, ToNextKey, Returned
<1> QED BY <1>1, <1>4, MapLooks, MapStutters

LEMMA StepMaps ==
    ASSUME IInv, [Next]_vars
    PROVE  [Map!Next]_Map!vars
<1>1. CASE \E e \in Inserted : InsertEntry(e[1], e[2])  BY <1>1, InsertMaps
<1>2. CASE \E e \in Deleted : DeleteEntry(e[1], e[2])  BY <1>2, DeleteMaps
<1>3. CASE OpenIndex \/ CloseIndex \/ CloseScan
  <2>1. tree' = tree /\ lost' = lost /\ rc' = "OK"
    BY <1>3 DEF OpenIndex, CloseIndex, CloseScan, file
  <2> QED BY <2>1, MapLooks
<1>4. CASE \E q \in Conditions : OpenScan(q[1], q[2])
  <2>1. tree' = tree /\ lost' = lost /\ rc' \in {"OK", "IX_SCAN_NOT_CLOSED"}
    BY <1>4 DEF OpenScan, file
  <2> QED BY <2>1, MapLooks
<1>5. CASE GetNextEntry  BY <1>5, GetNextMaps
<1>6. CASE UNCHANGED vars
  <2>1. tree' = tree /\ lost' = lost /\ rc' = rc  BY <1>6 DEF vars, file
  <2> QED BY <2>1, MapStutters
<1> QED BY <1>1, <1>2, <1>3, <1>4, <1>5, <1>6 DEF Next

(* The B+ tree is a multimap: through every split an entry is found when   *)
(* it was inserted and not deleted since, a bucket takes no more than fit  *)
(* it, and a refused insertion changes no entry.                           *)
THEOREM ImplementsIndexMap == Spec => MapSpec
<1>1. Init => Map!Init  BY MapStarts
<1>2. IInv /\ [Next]_vars => [Map!Next]_Map!vars  BY StepMaps
<1> QED BY <1>1, <1>2, IInvHolds, PTL DEF Spec, MapSpec, Map!Spec
=============================================================================
