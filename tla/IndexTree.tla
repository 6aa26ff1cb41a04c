----------------------------- MODULE IndexTree -----------------------------
(***************************************************************************)
(* IX_IndexHandle, IX_Manager and IX_IndexScan (src/IX): a B+ tree from    *)
(* attribute values to buckets of record identifiers, and a scan along the *)
(* chain of its leaves.  Nodes are pages of the index file; they are never *)
(* given back.  The page of a bucket belongs to one entry of one leaf and  *)
(* is modelled with it: the empty bucket is kInvalidBucket.                *)
(*                                                                         *)
(* Positions count from 1.  Errors of the paged file are left out, and     *)
(* calls of a scan that is not open, which only report it.                 *)
(***************************************************************************)
EXTENDS Integers, Sequences, FiniteSets, SequencesExt

CONSTANTS
    Keys,           \* attribute values, integers
    Rids,           \* identifiers of records
    b,              \* children an inner node can have, 4 in the code; a leaf has fewer keys
    ridsPerBucket,  \* identifiers that fit into a bucket
    Inserted,       \* the entries clients insert
    Deleted,        \* the entries clients delete
    Fillings,       \* what the index may have been filled with when it was made
    Conditions,     \* what scans ask for: comparisons with a value
    MaxNodes        \* bound: nodes of the tree

ASSUME IndexTreeAssumption ==
    /\ Keys \subseteq Int
    /\ b \in Nat /\ b >= 4
    /\ ridsPerBucket \in Nat \ {0}
    /\ Inserted \subseteq Keys \X Rids /\ Deleted \subseteq Keys \X Rids
    /\ Fillings \subseteq Seq(Keys \X Rids)
    /\ Conditions \subseteq {"NO", "EQ", "NE", "LT", "LE", "GT", "GE"} \X Keys
    /\ MaxNodes \in Nat \ {0}

kNullNode == -1

VARIABLES
    tree,           \* the nodes of the index file
    headerRoot,     \* the root as the header page of the file has it
    open,           \* the handle is open
    root,           \* the handle's copy of it
    isHeaderDirty,  \* the two differ
    scan,           \* the scan
    rc,             \* what the last call returned
    \* history
    lost,           \* a node has been split off and hung nowhere
    due,            \* what the scan has still to return
    disturbed       \* keys deleted from since the scan was opened

handle == <<open, root, isHeaderDirty>>
file == <<tree, headerRoot>>
vars == <<file, handle, scan, rc, lost, due, disturbed>>

Leaf(keys, rids, next) == [type |-> "leaf", keys |-> keys, rids |-> rids, next |-> next]
Inner(keys, children) == [type |-> "inner", keys |-> keys, children |-> children]

LeavesIn(t) == {p \in DOMAIN t : t[p].type = "leaf"}
EntriesOf(n) == UNION {{n.keys[i]} \X ToSet(n.rids[i]) : i \in DOMAIN n.keys}
EntriesIn(t) == UNION {EntriesOf(t[p]) : p \in LeavesIn(t)}

Leaves == LeavesIn(tree)
Entries == EntriesIn(tree)

(* The least position of keys whose key is above k, one more than the last *)
(* when there is none.                                                     *)
FirstAbove(keys, k) ==
    LET above == {i \in DOMAIN keys : keys[i] > k}
    IN  IF above = {} THEN Len(keys) + 1 ELSE Min(above)

(* t with a node at page p.                                                *)
WithNode(t, p, node) == [q \in DOMAIN t \cup {p} |-> IF q = p THEN node ELSE t[q]]

LeftmostLeaf ==
    LET Down[q \in DOMAIN tree] ==
            IF tree[q].type = "leaf" THEN q ELSE Down[tree[q].children[1]]
    IN  Down[root]

(* The nodes from p down to the leaf in which k is looked for.             *)
PathIn(t, p, k) ==
    LET Down[q \in DOMAIN t] ==
            IF t[q].type = "leaf" THEN <<q>>
            ELSE <<q>> \o Down[t[q].children[FirstAbove(t[q].keys, k)]]
    IN  Down[p]

Path(k) == PathIn(tree, root, k)

----------------------------------------------------------------------------
(* Insertion.  bucket_insert looks for room before it looks for the        *)
(* identifier.                                                             *)
BrokenRefusalOrder(bucket, r) ==
    IF r \in ToSet(bucket) THEN "IX_ENTRY_EXISTS"
    ELSE IF Len(bucket) = ridsPerBucket THEN "IX_BUCKET_FULL" ELSE "OK"
InsertRefusal(bucket, r) ==
    IF Len(bucket) = ridsPerBucket THEN "IX_BUCKET_FULL"
    ELSE IF r \in ToSet(bucket) THEN "IX_ENTRY_EXISTS" ELSE "OK"

(* insert_entry: into the bucket of the key, or a new entry in its place.  *)
insert_entry(n, k, r) ==
    LET i == FirstAbove(n.keys, k - 1)
    IN  IF i \in DOMAIN n.keys /\ n.keys[i] = k
        THEN LET ret == InsertRefusal(n.rids[i], r)
             IN  [node |-> IF ret = "OK" THEN [n EXCEPT !.rids[i] = Append(@, r)] ELSE n,
                  ret |-> ret]
        ELSE [node |-> Leaf(InsertAt(n.keys, i, k), InsertAt(n.rids, i, <<r>>), n.next),
              ret |-> "OK"]

(* What inserting below a node has made of the tree: the node it has split *)
(* off, if any, with the key that separates it, and the code to return.    *)
Outcome(t, split, key, ret) == [tree |-> t, split |-> split, key |-> key, ret |-> ret]

NextPage(t) == Cardinality(DOMAIN t) + 1

(* A full leaf gives what follows its first m keys to a new one, which is  *)
(* linked behind it before the entry goes into either.                     *)
BrokenChain(n, m, new) ==
    [low |-> Leaf(SubSeq(n.keys, 1, m), SubSeq(n.rids, 1, m), n.next),
     high |-> Leaf(SubSeq(n.keys, m + 1, Len(n.keys)),
                   SubSeq(n.rids, m + 1, Len(n.keys)), n.next)]
BrokenChainOrder(n, m, new) ==
    [low |-> Leaf(SubSeq(n.keys, 1, m), SubSeq(n.rids, 1, m), new),
     high |-> Leaf(SubSeq(n.keys, m + 1, Len(n.keys)),
                   SubSeq(n.rids, m + 1, Len(n.keys)), new)]
Halves(n, m, new) ==
    [low |-> Leaf(SubSeq(n.keys, 1, m), SubSeq(n.rids, 1, m), new),
     high |-> Leaf(SubSeq(n.keys, m + 1, Len(n.keys)),
                   SubSeq(n.rids, m + 1, Len(n.keys)), n.next)]

(* The half the key belongs to.                                            *)
BrokenBelongsHigh(high, k) == high.keys[1] < k
BelongsHigh(high, k) == high.keys[1] <= k

(* insert_leaf splits a full leaf even if the key has an entry already.    *)
insert_leaf(t, p, k, r) ==
    LET n == t[p]
        half == Len(n.keys) \div 2
        m == IF half < Len(n.keys) - half /\ n.keys[half + 1] <= k THEN half + 1 ELSE half
        new == NextPage(t)
        low == Halves(n, m, new).low
        high == Halves(n, m, new).high
        into == insert_entry(IF BelongsHigh(high, k) THEN high ELSE low, k, r)
        kept == insert_entry(n, k, r)
    IN  IF Len(n.keys) # b - 1
        THEN Outcome([t EXCEPT ![p] = kept.node], kNullNode, 0, kept.ret)
        ELSE IF BelongsHigh(high, k)
        THEN Outcome(WithNode([t EXCEPT ![p] = low], new, into.node),
                     new, into.node.keys[1], into.ret)
        ELSE Outcome(WithNode([t EXCEPT ![p] = into.node], new, high),
                     new, high.keys[1], into.ret)

(* A new child behind child i of an inner node.                            *)
insert_internal_entry(n, i, key, child) ==
    Inner(InsertAt(n.keys, i, key), InsertAt(n.children, i + 1, child))

MustSplit(c) == c = b

(* The key that separates the halves of an inner node is in neither.       *)
BrokenKeyUp(n, m) == n.keys[Len(n.keys)]
KeyUp(n, m) == n.keys[m + 1]

(* insert_internal, once its child has been dealt with.  An error from     *)
(* below does not keep it from linking what was split off there.           *)
insert_internal(p, k, below) ==
    LET n == below.tree[p]
        c == Len(n.children)
        i == FirstAbove(n.keys, k)
        half == c \div 2 - 1
        m == IF half + 1 < c - half - 1 /\ half + 2 <= i THEN half + 1 ELSE half
        new == NextPage(below.tree)
        low == Inner(SubSeq(n.keys, 1, m), SubSeq(n.children, 1, m + 1))
        high == Inner(SubSeq(n.keys, m + 2, c - 1), SubSeq(n.children, m + 2, c))
        With(h, j) == insert_internal_entry(h, j, below.key, below.split)
    IN  IF below.split = kNullNode THEN below
        ELSE IF ~MustSplit(c)
        THEN Outcome([below.tree EXCEPT ![p] = With(n, i)], kNullNode, 0, below.ret)
        ELSE IF i <= m + 1
        THEN Outcome(WithNode([below.tree EXCEPT ![p] = With(low, i)], new, high),
                     new, KeyUp(n, m), below.ret)
        ELSE Outcome(WithNode([below.tree EXCEPT ![p] = low], new, With(high, i - (m + 1))),
                     new, KeyUp(n, m), below.ret)

(* The whole way down to a leaf and up again.  InsertEntry grows the tree  *)
(* by a root when the old one has been split, but returns an error from    *)
(* below before it comes to that.                                          *)
Insertion(t, from, k, r) ==
    LET path == PathIn(t, from, k)
        Up[i \in DOMAIN path] == IF i = Len(path) THEN insert_leaf(t, path[i], k, r)
                                 ELSE insert_internal(path[i], k, Up[i + 1])
        done == Up[1]
        new == NextPage(done.tree)
        grows == done.split # kNullNode /\ done.ret = "OK"
    IN  [tree |-> IF grows THEN WithNode(done.tree, new, Inner(<<done.key>>, <<from, done.split>>))
                  ELSE done.tree,
         root |-> IF grows THEN new ELSE from,
         ret |-> done.ret,
         lost |-> done.split # kNullNode /\ ~grows]

NoScan == [open |-> FALSE, op |-> "NO", value |-> 0, node |-> kNullNode,
           entry |-> 1, pos |-> 1, busy |-> FALSE, got |-> <<>>]

(* CreateIndex makes an empty leaf, and its caller inserts the records the *)
(* relation has, in the order of a scan; an insertion that is refused ends *)
(* it, and the index is not used.                                          *)
EmptyIndex == [tree |-> [p \in {1} |-> Leaf(<<>>, <<>>, kNullNode)], root |-> 1, ret |-> "OK",
               lost |-> FALSE]
Filled(filling) ==
    LET After[n \in 0 .. Len(filling)] ==
            IF n = 0 THEN EmptyIndex
            ELSE LET index == After[n - 1]
                 IN  IF index.ret # "OK" THEN index
                     ELSE Insertion(index.tree, index.root, filling[n][1], filling[n][2])
    IN  After[Len(filling)]

Init ==
    /\ \E filling \in Fillings :
        /\ Filled(filling).ret = "OK" /\ Cardinality(DOMAIN Filled(filling).tree) <= MaxNodes
        /\ tree = Filled(filling).tree
        /\ headerRoot = Filled(filling).root
    /\ open = FALSE /\ root = headerRoot /\ isHeaderDirty = FALSE
    /\ scan = NoScan /\ rc = "OK"
    /\ lost = FALSE /\ due = {} /\ disturbed = {}

----------------------------------------------------------------------------
(* IX_Manager                                                              *)
OpenIndex ==
    /\ ~open
    /\ open' = TRUE /\ root' = headerRoot /\ isHeaderDirty' = FALSE /\ rc' = "OK"
    /\ UNCHANGED <<file, scan, lost, due, disturbed>>

(* Callers close their scans first.                                        *)
CloseIndex ==
    /\ open /\ ~scan.open
    /\ open' = FALSE /\ rc' = "OK"
    /\ headerRoot' = IF isHeaderDirty THEN root ELSE headerRoot
    /\ UNCHANGED <<tree, root, isHeaderDirty, scan, lost, due, disturbed>>

----------------------------------------------------------------------------
(* IX_IndexHandle                                                          *)
InsertEntry(k, r) ==
    LET done == Insertion(tree, root, k, r)
    IN  /\ open /\ ~scan.open /\ ~lost
        /\ Cardinality(DOMAIN done.tree) <= MaxNodes
        /\ tree' = done.tree /\ root' = done.root /\ rc' = done.ret
        /\ isHeaderDirty' = (isHeaderDirty \/ done.root # root)
        /\ lost' = (lost \/ done.lost)
        /\ UNCHANGED <<open, headerRoot, scan, due, disturbed>>

(* The identifiers behind the one that goes close up.                      *)
bucket_delete(bucket, r) == RemoveAt(bucket, CHOOSE i \in DOMAIN bucket : bucket[i] = r)

(* DeleteEntry leaves the key in the leaf when its bucket goes.  A client  *)
(* may delete while it scans, as a rule what it has just been given.       *)
DeleteEntry(k, r) ==
    LET p == Last(Path(k))
        keys == tree[p].keys
        i == FirstAbove(keys, k - 1)
    IN  /\ open /\ ~scan.busy /\ ~lost
        /\ IF i \in DOMAIN keys /\ keys[i] = k /\ r \in ToSet(tree[p].rids[i])
           THEN /\ tree' = [tree EXCEPT ![p].rids[i] = bucket_delete(@, r)]
                /\ rc' = "OK"
           ELSE /\ rc' = IF i \in DOMAIN keys THEN "IX_ENTRY_DOES_NOT_EXIST" ELSE "OK"
                /\ UNCHANGED tree
        /\ due' = due \ {<<k, r>>}
        /\ disturbed' = IF scan.open THEN disturbed \cup {k} ELSE {}
        /\ UNCHANGED <<headerRoot, handle, scan, lost>>

----------------------------------------------------------------------------
(* IX_IndexScan                                                            *)
Satisfies(key, op, value) ==
    CASE op = "NO" -> TRUE
      [] op = "EQ" -> key = value
      [] op = "NE" -> key # value
      [] op = "LT" -> key < value
      [] op = "LE" -> key <= value
      [] op = "GT" -> key > value
      [] op = "GE" -> key >= value

(* GT and GE start where the value is or would be, the others at the first *)
(* entry of the leftmost leaf; from there __check accepts all GT and GE    *)
(* meet.                                                                   *)
Seeks(op) == op \in {"GT", "GE"}
BrokenStart(keys, op, value) == IF Seeks(op) THEN FirstAbove(keys, value - 1) ELSE 1
BrokenStartPast(keys, op, value) == IF Seeks(op) THEN FirstAbove(keys, value + 1) ELSE 1
StartEntry(keys, op, value) ==
    CASE op = "GT" -> FirstAbove(keys, value)
      [] op = "GE" -> FirstAbove(keys, value - 1)
      [] OTHER -> 1

OpenScan(op, value) ==
    LET leaf == IF Seeks(op) THEN Last(Path(value)) ELSE LeftmostLeaf
    IN  /\ open /\ ~scan.busy /\ ~lost
        /\ IF scan.open
           THEN rc' = "IX_SCAN_NOT_CLOSED" /\ UNCHANGED <<scan, due, disturbed>>
           ELSE /\ scan' = [open |-> TRUE, op |-> op, value |-> value, node |-> leaf,
                            entry |-> StartEntry(tree[leaf].keys, op, value), pos |-> 1,
                            busy |-> FALSE, got |-> <<>>]
                /\ rc' = "OK"
                /\ due' = {e \in Entries : Satisfies(e[1], op, value)}
                /\ disturbed' = {}
        /\ UNCHANGED <<file, handle, lost>>

(* One round of the loop of GetNextEntry: it returns an entry or the end,  *)
(* or it goes on to the next entry or leaf.                                *)
GetNextEntry ==
    LET n == tree[scan.node]
        key == n.keys[scan.entry]
        Onward(s) == /\ scan' = [s EXCEPT !.busy = TRUE, !.got = <<>>]
                     /\ UNCHANGED <<rc, due>>
        End == /\ scan' = [scan EXCEPT !.busy = FALSE, !.got = <<>>]
               /\ rc' = "IX_EOF" /\ UNCHANGED due
        NextKey == Onward([scan EXCEPT !.entry = @ + 1, !.pos = 1])
    IN  /\ scan.open
        /\ IF scan.entry = Len(n.keys) + 1
           THEN IF n.next = kNullNode THEN End
                ELSE Onward([scan EXCEPT !.node = n.next, !.entry = 1, !.pos = 1])
           ELSE IF ~Satisfies(key, scan.op, scan.value) /\ ~Seeks(scan.op)
           THEN IF scan.op \in {"LT", "LE"} THEN End ELSE NextKey
           ELSE IF scan.pos > Len(n.rids[scan.entry]) THEN NextKey
           ELSE LET got == <<key, n.rids[scan.entry][scan.pos]>>
                IN  /\ scan' = [scan EXCEPT !.pos = @ + 1, !.busy = FALSE, !.got = got]
                    /\ rc' = "OK" /\ due' = due \ {got}
        /\ UNCHANGED <<file, handle, lost, disturbed>>

CloseScan ==
    /\ scan.open /\ ~scan.busy
    /\ scan' = NoScan /\ rc' = "OK" /\ due' = {} /\ disturbed' = {}
    /\ UNCHANGED <<file, handle, lost>>

Next ==
    \/ OpenIndex \/ CloseIndex
    \/ \E e \in Inserted : InsertEntry(e[1], e[2])
    \/ \E e \in Deleted : DeleteEntry(e[1], e[2])
    \/ \E c \in Conditions : OpenScan(c[1], c[2])
    \/ GetNextEntry \/ CloseScan

(* The loop of GetNextEntry runs on, and the iterators above it call it    *)
(* until it reports the end.                                               *)
Spec == Init /\ [][Next]_vars /\ WF_vars(GetNextEntry)

----------------------------------------------------------------------------
Nodes == 1 .. MaxNodes
Sorted(keys) == \A i, j \in DOMAIN keys : i < j => keys[i] < keys[j]

TypeOK ==
    /\ DOMAIN tree \subseteq Nodes
    /\ \A p \in DOMAIN tree :
        /\ ToSet(tree[p].keys) \subseteq Keys /\ Sorted(tree[p].keys)
        /\ CASE tree[p].type = "leaf" ->
                    /\ DOMAIN tree[p].rids = DOMAIN tree[p].keys
                    /\ \A i \in DOMAIN tree[p].rids :
                        /\ tree[p].rids[i] \in BoundedSeq(Rids, ridsPerBucket)
                        /\ IsInjective(tree[p].rids[i])
                    /\ tree[p].next \in DOMAIN tree \cup {kNullNode}
             [] tree[p].type = "inner" ->
                    ToSet(tree[p].children) \subseteq DOMAIN tree
    /\ {headerRoot, root} \subseteq DOMAIN tree
    /\ open \in BOOLEAN /\ isHeaderDirty \in BOOLEAN /\ lost \in BOOLEAN
    /\ due \subseteq Keys \X Rids /\ disturbed \subseteq Keys

(* The separators are right: looking for any key of the index from the     *)
(* root, as insertions and deletions do, leads to the leaf that has it     *)
(* (ix_indexhandle.cc:139-148, 374-384).                                   *)
KeysFindTheirLeaf ==
    ~lost => \A p \in Leaves : \A k \in ToSet(tree[p].keys) : Last(Path(k)) = p

(* The first n leaves of the chain, and kNullNode from its end on.         *)
Chain(n) ==
    LET Visited[i \in 1 .. n] ==
            IF i = 1 THEN LeftmostLeaf
            ELSE LET p == Visited[i - 1]
                 IN  IF p = kNullNode THEN kNullNode ELSE tree[p].next
    IN  Visited

(* The chain a scan follows ends after it has visited every leaf, a lost   *)
(* one too (the links insert_leaf sets before it inserts, :511-514).       *)
ChainVisitsEveryLeaf ==
    LET n == Cardinality(Leaves)
    IN  ToSet(Chain(n)) = Leaves /\ Chain(n + 1)[n + 1] = kNullNode

(* Along that chain the keys ascend: a scan for LT or LE stops at the      *)
(* first key that is too great.                                            *)
KeysAscendAlongChain ==
    ~lost => LET chain == Chain(Cardinality(Leaves))
             IN  \A i, j \in DOMAIN chain : i < j =>
                    \A k \in ToSet(tree[chain[i]].keys), l \in ToSet(tree[chain[j]].keys) : k < l

(* Every leaf is as far from the root, no node holds more than fits its    *)
(* page, and no split leaves one with nothing.                             *)
Balanced ==
    ~lost => /\ \A p, q \in Leaves :
                    tree[p].keys # <<>> /\ tree[q].keys # <<>> =>
                        Len(Path(tree[p].keys[1])) = Len(Path(tree[q].keys[1]))
             /\ \A p \in Leaves :
                    (p = root \/ tree[p].keys # <<>>) /\ Len(tree[p].keys) <= b - 1
             /\ \A p \in DOMAIN tree \ Leaves : Len(tree[p].children) \in 1 .. b

(* The tree leads to every key in as many steps, from node to node within  *)
(* their bounds.                                                           *)
TreeInv == TypeOK /\ KeysFindTheirLeaf /\ Balanced

(* A scan that reports the end has returned every entry that satisfied its *)
(* condition when it was opened and still does (the comment of OpenScan,   *)
(* ix_indexscan.cc:41), but for those that share a key with one deleted    *)
(* meanwhile: the bucket closes up under the position of the scan.         *)
ScanMissesNothing ==
    scan.open /\ ~scan.busy /\ rc = "IX_EOF" /\ ~lost
        => \A e \in due : e[1] \in disturbed

(* No scan returns what it has returned before, or what does not satisfy   *)
(* its condition, as GT and GE could: they compare nothing on their way.   *)
ScanReturnsOnce ==
    [][scan' # scan /\ scan'.got # <<>> /\ ~lost => scan'.got \in due]_vars

(* A scan that is called again and again comes to its end.                 *)
ScanEnds == scan.open ~> ~scan.open \/ (~scan.busy /\ rc = "IX_EOF")

(* The index is a multimap: module IndexMap.                               *)
Map == INSTANCE IndexMap WITH entries <- Entries, sound <- ~lost, PerKey <- ridsPerBucket
MapSpec == Map!Spec
=============================================================================
