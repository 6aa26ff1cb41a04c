----------------------------- MODULE MCSession -----------------------------
(* Small databases, for TLC.                                               *)
EXTENDS Session

CONSTANTS a, b, c, t, u

Creation(name, columns, tooLarge) ==
    [relName |-> name, columns |-> columns, tooLarge |-> tooLarge]

(* A relation of two or of three attributes, the second its key, which may *)
(* also turn out too large, one of one attribute, and what the interpreter *)
(* refuses.                                                                *)
MCCreations ==
    {Creation(t, <<Column(a), Column(b), PrimaryKey(b)>>, FALSE),
     Creation(t, <<Column(a), Column(b), Column(c), PrimaryKey(b)>>, FALSE),
     Creation(t, <<Column(a)>>, TRUE),
     Creation(u, <<Column(a)>>, FALSE),
     Creation(u, <<Column(b), Column(b)>>, FALSE),
     Creation(u, <<Column(a), PrimaryKey(b)>>, FALSE),
     Creation(u, <<Column(a), PrimaryKey(a), PrimaryKey(a)>>, FALSE)}

(* Bounds: a directory that holds something is the only one, sound and     *)
(* with no database in it; t alone is ever botched or torn, not both, and  *)
(* then has at most two rows and, if botched, one index; relcat counts no  *)
(* more indexes than there are attributes, and one index file may be left  *)
(* of a relation that is gone.                                             *)
Small ==
    \A d \in DOMAIN dirs :
        LET cat == dirs[d].cat IN
        /\ cat # Fresh => dirs = [x \in {d} |-> Directory("sound", cat, {})]
        /\ <<cat.botched, cat.torn>> \in {<<{}, {}>>, <<{t}, {}>>, <<{}, {t}>>}
        /\ \A r \in cat.botched \cup cat.torn : Cardinality(RowsOf(cat, r)) <= 2
        /\ \A r \in DOMAIN cat.rel :
              cat.rel[r].indexCount <= IF r \in cat.botched THEN 1 ELSE cat.rel[r].attrCount
        /\ Cardinality({f \in DOMAIN cat.files : f[1] \notin DOMAIN cat.rel}) <= 1

MCThreeColumns == {Creation(t, <<Column(a), Column(b), Column(c)>>, FALSE)}
=============================================================================
