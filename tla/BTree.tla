------------------------------- MODULE BTree -------------------------------
(***************************************************************************)
(* The B+tree of one table of ThirdParty/liblmdb/mdb.c, inside one write   *)
(* transaction after another: searching, inserting with page splits,       *)
(* deleting with node moves, page merges and root collapse, copy-on-write  *)
(* of the pages a transaction changes, and dropping the whole table.  Each *)
(* of these operations also repairs the stack of every other cursor the    *)
(* transaction tracks, and most of the code is that repair.                *)
(*                                                                         *)
(* A node is a record [k, v]: in a leaf k is the key and v the size of the *)
(* node, which the data determines (the data itself goes where the key     *)
(* goes and is left out); in a branch v is the child page and the first    *)
(* node's key is Null, the empty key.  Keys of a table have one size, as   *)
(* those of the object cache's tables do, so a branch node's size is 2, or *)
(* 1 with the empty key.  Page and node indices count from 0, as in the    *)
(* code.                                                                   *)
(*                                                                         *)
(* Left out: duplicate and fixed-size items (MDB_DUPSORT, P_LEAF2),        *)
(* overflow pages, MDB_APPEND, spilling and nested transactions, none of   *)
(* which the object cache uses except overflow pages.                      *)
(***************************************************************************)
EXTENDS Integers, Sequences, FiniteSets, FiniteSetsExt, SequencesExt

CONSTANTS
    Keys,        \* the keys that can be stored: a set of positive integers
    Cursors,     \* the program's cursors: 1..n
    Loads,       \* for each key, the sizes its data may have: a set of choices
    LeafMax,     \* me_psize as the leaves see it
    BranchMax,   \* me_psize as the branches see it
    MaxDepth,    \* CURSOR_STACK
    MaxPg        \* pages of the file

ASSUME
    /\ Cursors = 1..Cardinality(Cursors)
    /\ Loads \subseteq [Keys -> SUBSET (1..2)]
    /\ LeafMax >= 4   \* me_nodemax: a node is at most half a page

VARIABLES
    t,       \* the transaction: its pages, the table's MDB_db and the cursors
    sizes,   \* the choice of Loads
    stored,  \* history: the size last put for each key that is not deleted
    on       \* history: the key each cursor is on

vars == <<t, sizes, stored, on>>

Null == 0
P_INVALID == 0
End == Max(Keys) + 1
Unplaced == Max(Keys) + 2

\* F(v) with v evaluated once.  The operators on states below are strict in
\* the state: they take s0 and compute with its value s.
With(v, F(_)) == CHOOSE r \in {F(x) : x \in {v}} : TRUE

-----------------------------------------------------------------------------
(* Pages, nodes and cursor stacks.                                         *)

NoStack == [l \in 0..MaxDepth |-> 0]

\* A cursor that mdb_cursor_init() has just set up.
NewCursor == [pg |-> NoStack, ki |-> NoStack, snum |-> 0, top |-> 0,
              init |-> FALSE, eof |-> FALSE, del |-> FALSE]

TopPg(s, c) == s.cur[c].pg[s.cur[c].top]
TopKi(s, c) == s.cur[c].ki[s.cur[c].top]
NUMKEYS(s, p) == Len(s.pg[p].n)
NODEPTR(s, p, i) == s.pg[p].n[i + 1]
SetKi(s, c, l, i) == [s EXCEPT !.cur[c].ki[l] = i]
SetTopKi(s0, c, i) == With(s0, LAMBDA s : SetKi(s, c, s.cur[c].top, i))

\* mdb_cassert(): every assertion that fails is remembered.
Check(s, b) == IF b THEN s ELSE [s EXCEPT !.bad = TRUE]

NodeSize(leaf, node) == IF leaf THEN node.v ELSE IF node.k = Null THEN 1 ELSE 2
Used(leaf, nodes) ==
    Len(nodes) + Cardinality({i \in DOMAIN nodes : NodeSize(leaf, nodes[i]) = 2})
PageMax(leaf) == IF leaf THEN LeafMax ELSE BranchMax
SIZELEFT(s, p) == PageMax(s.pg[p].leaf) - Used(s.pg[p].leaf, s.pg[p].n)

\* PAGEFILL() against the threshold of mdb_rebalance(): a quarter of a leaf,
\* a thousandth of a branch.
Filled(s, p) == LET used == Used(s.pg[p].leaf, s.pg[p].n)
                IN  IF s.pg[p].leaf THEN 4 * used >= LeafMax ELSE used > 0

\* Applies F to every tracked cursor; SubSeq makes a tuple of the result.
ForTracked(s, F(_)) ==
    [s EXCEPT !.cur = SubSeq([m \in DOMAIN s.cur |-> IF Contains(s.trk, m) THEN F(m) ELSE s.cur[m]],
                             1, Len(s.cur))]

\* Applies a repair to the cursors other than c for which Touches holds.
Repair(s0, c, Touches(_), Fix(_)) ==
    With(s0, LAMBDA s : ForTracked(s, LAMBDA m :
        IF m # c /\ Touches(s.cur[m]) THEN Fix(s.cur[m]) ELSE s.cur[m]))

\* mdb_cursor_copy() of cursor c into a new cursor on the C stack, whose
\* number is Len(cur) + 1, and the end of that cursor's scope.
Push(s, cu) == [s EXCEPT !.cur = Append(@, cu)]
PopLast(s) == [s EXCEPT !.cur = Front(@)]
Newest(s) == Len(s.cur)

\* WITH_CURSOR_TRACKING and its like in mdb_put() and mdb_del0().
Track(s0) == With(s0, LAMBDA s : [s EXCEPT !.trk = <<Newest(s)>> \o @])
Untrack(s) == [s EXCEPT !.trk = Tail(@)]

mdb_cursor_push(s, c, p) ==
    [s EXCEPT !.cur[c] = [@ EXCEPT !.top = s.cur[c].snum, !.snum = @ + 1,
                                   !.pg[s.cur[c].snum] = p, !.ki[s.cur[c].snum] = 0]]

mdb_cursor_pop(s, c) ==
    [s EXCEPT !.cur[c] = IF @.snum = 0 THEN @
                         ELSE IF @.snum = 1 THEN [@ EXCEPT !.snum = 0, !.init = FALSE]
                         ELSE [@ EXCEPT !.snum = @ - 1, !.top = @ - 1]]

\* mdb_page_alloc() as a table sees it: the page loosened last, or one that is
\* not in use.  A page that was freed otherwise is not handed out again before
\* the transaction ends: the model takes the least one that no cursor mentions.
\* The page's number is returned in ret.
mdb_page_alloc(s) ==
    With(IF s.loose # <<>> THEN Head(s.loose)
         ELSE Min((1..MaxPg) \ (s.live \cup UNION {Range(s.cur[c].pg) : c \in DOMAIN s.cur})),
         LAMBDA p : [s EXCEPT !.live = @ \cup {p}, !.dirty = @ \cup {p}, !.ret = p,
                              !.loose = IF @ = <<>> THEN @ ELSE Tail(@)])

mdb_page_new(s, leaf) ==
    With(mdb_page_alloc(s), LAMBDA u :
        [u EXCEPT !.pg[u.ret] = [leaf |-> leaf, n |-> <<>>],
                  !.leaves = IF leaf THEN @ + 1 ELSE @,
                  !.branches = IF leaf THEN @ ELSE @ + 1])

\* Mistake: the page is not put on a list of free pages.
freeLeaks(s0, p) == s0

\* mdb_midl_append() to the freed pages.
FreePage(s0, p) ==
    With(s0, LAMBDA s : [Check(s, p \in s.live) EXCEPT !.live = @ \ {p}, !.dirty = @ \ {p}])

\* A page of this transaction can be used again at once.
mdb_page_loose(s0, p) ==
    With(s0, LAMBDA s :
        [FreePage(s, p) EXCEPT !.loose = IF p \in s.dirty THEN <<p>> \o @ ELSE @])

\* Copies the page at the top of the stack unless this transaction owns it.
mdb_page_touch(s0, c) == With(s0, LAMBDA s :
    LET cu == s.cur[c]
        mp == TopPg(s, c)
    IN  IF mp \in s.dirty THEN s
        ELSE With(mdb_page_alloc(s), LAMBDA u :
            LET np == u.ret
                copied == [FreePage(u, mp) EXCEPT !.pg[np] = s.pg[mp], !.cur[c].pg[cu.top] = np]
                linked == IF cu.top > 0
                          THEN [copied EXCEPT !.pg[cu.pg[cu.top - 1]].n[cu.ki[cu.top - 1] + 1].v = np]
                          ELSE [copied EXCEPT !.root = np]
            IN  Repair(linked, c, LAMBDA m : m.snum >= cu.snum /\ m.pg[cu.top] = mp,
                                  LAMBDA m : [m EXCEPT !.pg[cu.top] = np])))

RECURSIVE TouchFrom(_, _, _)
TouchFrom(s, c, l) ==
    IF l >= s.cur[c].snum THEN [s EXCEPT !.cur[c].top = s.cur[c].snum - 1]
    ELSE With(mdb_page_touch([s EXCEPT !.cur[c].top = l], c), LAMBDA u : TouchFrom(u, c, l + 1))

mdb_cursor_touch(s, c) ==
    IF s.cur[c].snum = 0 THEN [s EXCEPT !.cur[c].top = 0] ELSE TouchFrom(s, c, 0)

-----------------------------------------------------------------------------
(* Searching and moving a cursor.  rc is the code an operation returns:    *)
(* "ok", "notfound" or "einval".                                           *)

Rc(s, rc) == [s EXCEPT !.rc = rc]

\* Mistake: a key equal to a separator is looked for to the left of it.
searchRootLeft(s, c, k, by) ==
    IF s.pg[TopPg(s, c)].leaf THEN [s EXCEPT !.cur[c].init = TRUE, !.rc = "ok"]
    ELSE LET n == s.pg[TopPg(s, c)].n
             i == Max({0} \cup {j \in 1..(Len(n) - 1) : n[j + 1].k < k})
         IN  [mdb_cursor_push(SetTopKi(s, c, i), c, n[i + 1].v) EXCEPT !.cur[c].init = TRUE,
                                                                       !.rc = "ok"]

\* The binary search of mdb_node_search(); cmp is the last comparison's result.
RECURSIVE Bisect(_, _, _, _, _, _)
Bisect(nodes, k, low, high, i, cmp) ==
    IF low > high THEN [i |-> IF cmp > 0 THEN i + 1 ELSE i, exact |-> cmp = 0 /\ nodes # <<>>]
    ELSE LET mid == (low + high) \div 2
             key == nodes[mid + 1].k
         IN  IF k = key THEN [i |-> mid, exact |-> TRUE]
             ELSE IF k > key THEN Bisect(nodes, k, mid + 1, high, mid, 1)
             ELSE Bisect(nodes, k, low, mid - 1, mid, -1)

mdb_node_search(page, k) ==
    Bisect(page.n, k, IF page.leaf THEN 0 ELSE 1, Len(page.n) - 1, 0, 0)

\* Descends from the page at the top of the stack: by = "key", "first" or "last".
RECURSIVE mdb_page_search_root(_, _, _, _)
mdb_page_search_root(s, c, k, by) ==
    LET cu == s.cur[c]
        p == TopPg(s, c)
        n == NUMKEYS(s, p)
        i == CASE by = "first" -> 0
               [] by = "last" -> n - 1
               [] OTHER -> With(mdb_node_search(s.pg[p], k), LAMBDA found :
                              IF found.i >= n THEN n - 1
                              ELSE IF found.exact THEN found.i ELSE found.i - 1)
    IN  IF s.pg[p].leaf
        THEN [s EXCEPT !.cur[c].init = TRUE, !.cur[c].eof = FALSE, !.rc = "ok"]
        ELSE IF n < 2 THEN Check(s, FALSE)
        ELSE IF by = "last" /\ cu.init /\ cu.ki[cu.top] = i
        THEN With([s EXCEPT !.cur[c].top = cu.snum, !.cur[c].snum = @ + 1],
                  LAMBDA u : mdb_page_search_root(u, c, k, by))
        ELSE With(i, LAMBDA ki : With(SetTopKi(s, c, ki), LAMBDA u :
                  With(mdb_cursor_push(u, c, NODEPTR(u, p, ki).v),
                       LAMBDA v : mdb_page_search_root(v, c, k, by))))

mdb_page_search(s, c, k, by) ==
    IF s.root = P_INVALID THEN Rc(s, "notfound")
    ELSE With([s EXCEPT !.cur[c].pg[0] = s.root, !.cur[c].snum = 1, !.cur[c].top = 0],
              LAMBDA u : mdb_page_search_root(u, c, k, by))

\* The lowest key below a page, as mdb_page_search_lowest() finds it.
RECURSIVE LowestKey(_, _)
LowestKey(s, p) ==
    IF s.pg[p].leaf THEN NODEPTR(s, p, 0).k ELSE LowestKey(s, NODEPTR(s, p, 0).v)

\* Replaces the page at the top of the stack by the page next to it.
RECURSIVE mdb_cursor_sibling(_, _, _)
mdb_cursor_sibling(s, c, right) ==
    LET Land(v) ==
            LET child == NODEPTR(v, TopPg(v, c), TopKi(v, c)).v
                w == mdb_cursor_push(v, c, child)
            IN  Rc(IF right THEN w ELSE SetTopKi(w, c, NUMKEYS(v, child) - 1), "ok")
    IN  IF s.cur[c].snum < 2 THEN Rc(s, "notfound")
        ELSE With(mdb_cursor_pop(s, c), LAMBDA u :
            LET ki == TopKi(u, c)
            IN  IF IF right THEN ki + 1 >= NUMKEYS(u, TopPg(u, c)) ELSE ki = 0
                THEN With(mdb_cursor_sibling(u, c, right), LAMBDA v :
                        IF v.rc = "ok" THEN Land(v)
                        ELSE [v EXCEPT !.cur[c].top = @ + 1, !.cur[c].snum = @ + 1])
                ELSE With(SetTopKi(u, c, IF right THEN ki + 1 ELSE ki - 1), Land))

mdb_cursor_first(s, c) ==
    With(IF ~s.cur[c].init \/ s.cur[c].top > 0 THEN mdb_page_search(s, c, Null, "first")
         ELSE Rc(s, "ok"), LAMBDA u :
        IF u.rc # "ok" THEN u
        ELSE [SetTopKi(u, c, 0) EXCEPT !.cur[c].init = TRUE, !.cur[c].eof = FALSE])

mdb_cursor_last(s, c) ==
    With(IF ~s.cur[c].init \/ s.cur[c].top > 0 THEN mdb_page_search(s, c, Null, "last")
         ELSE Rc(s, "ok"), LAMBDA u :
        IF u.rc # "ok" THEN u
        ELSE [SetTopKi(u, c, NUMKEYS(u, TopPg(u, c)) - 1) EXCEPT
                 !.cur[c].init = TRUE, !.cur[c].eof = TRUE])

mdb_cursor_next(s, c) ==
    LET cu == s.cur[c]
        n == NUMKEYS(s, TopPg(s, c))
        u == [s EXCEPT !.cur[c].eof = FALSE]
    IN  IF ~cu.init THEN mdb_cursor_first(s, c)
        ELSE IF cu.eof /\ TopKi(s, c) >= n - 1 THEN Rc(s, "notfound")
        ELSE IF cu.del THEN Rc([u EXCEPT !.cur[c].del = FALSE], "ok")
        ELSE IF TopKi(s, c) + 1 < n THEN Rc(SetTopKi(u, c, TopKi(s, c) + 1), "ok")
        ELSE With(u, LAMBDA w : With(mdb_cursor_sibling(w, c, TRUE), LAMBDA v :
                IF v.rc = "ok" THEN v ELSE [v EXCEPT !.cur[c].eof = TRUE]))

mdb_cursor_prev(s, c) ==
    With(IF s.cur[c].init THEN Rc(s, "ok")
         ELSE With(mdb_cursor_last(s, c), LAMBDA u :
                  IF u.rc = "ok" THEN SetTopKi(u, c, TopKi(u, c) + 1) ELSE u), LAMBDA v :
        IF v.rc # "ok" THEN v
        ELSE With([v EXCEPT !.cur[c].eof = FALSE, !.cur[c].del = FALSE], LAMBDA w :
                IF TopKi(w, c) = 0 THEN mdb_cursor_sibling(w, c, FALSE)
                ELSE SetTopKi(w, c, TopKi(w, c) - 1)))

\* The two ends of mdb_cursor_set(), its labels set1 and set2.
Set1(s, c) == [s EXCEPT !.cur[c].init = TRUE, !.cur[c].eof = FALSE, !.rc = "ok"]

Set2(s, c, k, exact) ==
    With(mdb_node_search(s.pg[TopPg(s, c)], k), LAMBDA found :
    With(SetTopKi(s, c, found.i), LAMBDA u :
        IF exact /\ ~found.exact THEN Rc(u, "notfound")
        ELSE IF found.i < NUMKEYS(u, TopPg(u, c)) THEN Set1(u, c)
        ELSE With(mdb_cursor_sibling(u, c, TRUE), LAMBDA v :
                IF v.rc = "ok" THEN Set1(v, c) ELSE [v EXCEPT !.cur[c].eof = TRUE])))

\* Moves the cursor to key k (exact: MDB_SET) or to the first key not below it.
mdb_cursor_set(s, c, k, exact) ==
    LET cu == s.cur[c]
        n == NUMKEYS(s, TopPg(s, c))
        Key(i) == NODEPTR(s, TopPg(s, c), i).k
        search(u) == With(mdb_page_search(u, c, k, "key"), LAMBDA v :
                         IF v.rc = "ok" THEN Set2(v, c, k, exact) ELSE v)
        rightmost == \A l \in 0..(cu.top - 1) : cu.ki[l] >= NUMKEYS(s, cu.pg[l]) - 1
    IN  CASE ~cu.init -> With([s EXCEPT !.cur[c].pg[0] = 0], search)
          [] cu.init /\ n = 0 -> Rc(SetTopKi(s, c, 0), "notfound")
          [] cu.init /\ n > 0 ->
                IF k = Key(0) THEN Set1(SetTopKi(s, c, 0), c)
                ELSE IF k > Key(0) /\ n > 1 /\ k = Key(n - 1) THEN Set1(SetTopKi(s, c, n - 1), c)
                ELSE IF k > Key(0) /\ n > 1 /\ k < Key(n - 1)
                THEN IF TopKi(s, c) < n /\ Key(TopKi(s, c)) = k THEN Set1(s, c)
                     ELSE With([s EXCEPT !.cur[c].eof = FALSE], LAMBDA u : Set2(u, c, k, exact))
                ELSE IF k > Key(0) /\ rightmost THEN Rc(SetTopKi(s, c, n), "notfound")
                ELSE IF cu.top > 0 THEN search(s)
                ELSE IF exact THEN Rc(SetTopKi(s, c, 0), "notfound")
                ELSE Set1(SetTopKi(s, c, 0), c)

\* MDB_GET_CURRENT.
GetCurrent(s, c) ==
    LET n == NUMKEYS(s, TopPg(s, c))
    IN  IF ~s.cur[c].init THEN Rc(s, "einval")
        ELSE IF TopKi(s, c) >= n THEN Rc(SetTopKi(s, c, n), "notfound")
        ELSE Rc(s, "ok")

-----------------------------------------------------------------------------
(* Inserting: mdb_node_add() and mdb_page_split().                         *)

\* Adds a node at index i of the page at the top of the stack.
mdb_node_add(s0, c, i, node) == With(s0, LAMBDA s :
    LET p == TopPg(s, c)
    IN  [Check(s, NodeSize(s.pg[p].leaf, node) <= SIZELEFT(s, p))
            EXCEPT !.pg[p].n = InsertAt(@, i + 1, node)])

mdb_node_del(s0, c) == With(s0, LAMBDA s :
    [Check(s, TopKi(s, c) < NUMKEYS(s, TopPg(s, c)))
        EXCEPT !.pg[TopPg(s, c)].n = RemoveAt(@, TopKi(s, c) + 1)])

\* The split point: the page's nodes and the new one are all; nkeys of them are old.
SplitIndex(leaf, all, newindx) ==
    LET nkeys == Len(all) - 1
        half == (nkeys + 1) \div 2
        over(from, to) == Used(leaf, SubSeq(all, from + 1, to + 1)) > PageMax(leaf)
        k == IF newindx >= nkeys THEN nkeys ELSE half + 1 + (IF leaf THEN 1 ELSE 0)
    IN  IF newindx <= half \/ newindx >= nkeys
        THEN Min({i \in 0..(k - 1) : over(0, i) \/ i = k - 1})
        ELSE 1 + Max({i \in half..nkeys : over(i, nkeys) \/ i = half})

\* A branch page's first node has the empty key.
NoFirstKey(leaf, nodes) == IF leaf THEN nodes ELSE [nodes EXCEPT ![1].k = Null]

\* A new root above the page at the top of cursor c's stack, which is the old root.
NewRoot(s, c) ==
    With(mdb_page_new(s, FALSE), LAMBDA u :
        LET cu == u.cur[c]
            shift(f, first) == [l \in 0..MaxDepth |->
                                   IF l = 0 THEN first ELSE IF l <= cu.snum THEN f[l - 1] ELSE f[l]]
        IN  With([u EXCEPT !.cur[c].pg = shift(cu.pg, u.ret), !.cur[c].ki = shift(cu.ki, 0),
                           !.root = u.ret, !.depth = @ + 1], LAMBDA v :
                [mdb_node_add(v, c, 0, [k |-> Null, v |-> cu.pg[0]])
                    EXCEPT !.cur[c].snum = @ + 1, !.cur[c].top = @ + 1]))

\* Copies the levels below l of cursor b's stack to cursor record m.
TakePath(m, b, l) ==
    [m EXCEPT !.pg = [i \in 0..MaxDepth |-> IF i < l THEN b.pg[i] ELSE m.pg[i]],
              !.ki = [i \in 0..MaxDepth |-> IF i < l THEN b.ki[i] ELSE m.ki[i]]]

\* Mistake: a cursor's place on the split page is repaired, its path above is not.
splitKeepsPath(m, mc, mn, mp, rp, nkeys, newindx, root, ptop, didSplit, replace) ==
    LET l == mc.top
        ki == m.ki[l] + (IF m.ki[l] >= newindx /\ ~replace THEN 1 ELSE 0)
    IN  IF root # 0 \/ m.top < l \/ m.pg[l] # mp THEN m
        ELSE IF ki >= nkeys THEN [m EXCEPT !.pg[l] = rp, !.ki[l] = ki - nkeys]
        ELSE [m EXCEPT !.ki[l] = ki]

\* What a split does to another cursor m: mc is the splitting cursor, mn the
\* one on the new right page rp, and root is the level at which the stacks
\* grew by a new root (0: they did not).
FixAfterSplit(m, mc, mn, mp, rp, nkeys, newindx, root, ptop, didSplit, replace) ==
    With(IF root = 0 THEN m
         ELSE [m EXCEPT !.pg = [l \in 0..MaxDepth |->
                                   IF l = 0 THEN mc.pg[0]
                                   ELSE IF l <= root + 1 THEN m.pg[l - 1] ELSE m.pg[l]],
                        !.ki = [l \in 0..MaxDepth |->
                                   IF l = 0 THEN IF m.ki[0] >= nkeys THEN 1 ELSE 0
                                   ELSE IF l <= root + 1 THEN m.ki[l - 1] ELSE m.ki[l]],
                        !.snum = @ + 1, !.top = @ + 1], LAMBDA grown :
    LET l == mc.top
        ki == grown.ki[l] + (IF grown.ki[l] >= newindx /\ ~replace THEN 1 ELSE 0)
    IN  IF grown.top >= l /\ grown.pg[l] = mp
        THEN IF ki >= nkeys
             THEN [TakePath(grown, mn, l) EXCEPT !.pg[l] = rp, !.ki[l] = ki - nkeys]
             ELSE [grown EXCEPT !.ki[l] = ki]
        ELSE IF ~didSplit /\ grown.top >= ptop /\ grown.pg[ptop] = mc.pg[ptop]
                /\ grown.ki[ptop] >= mc.ki[ptop]
        THEN [grown EXCEPT !.ki[ptop] = @ + 1]
        ELSE grown)

\* The left page changed parent together with the right one, on whose path mn is.
FollowLeftPage(s, c, mn, ptop) ==
    LET cu == s.cur[c]
    IN  IF mn.pg[ptop] = cu.pg[ptop] \/ cu.ki[ptop] < NUMKEYS(s, cu.pg[ptop]) THEN s
        ELSE With([s EXCEPT !.cur[c] = TakePath(cu, mn, ptop + 1)], LAMBDA u :
                IF mn.ki[ptop] > 0 THEN SetKi(u, c, ptop, mn.ki[ptop] - 1)
                ELSE mdb_cursor_sibling(u, c, FALSE))

\* Splits the page at the top of cursor c's stack and inserts node at c's index.
RECURSIVE mdb_page_split(_, _, _, _)
mdb_page_split(s, c, node, replace) ==
    LET mp == TopPg(s, c)
        leaf == s.pg[mp].leaf
        newindx == TopKi(s, c)
        isRoot == s.cur[c].top < 1
    IN
    With(InsertAt(s.pg[mp].n, newindx + 1, node), LAMBDA all :
    With(SplitIndex(leaf, all, newindx), LAMBDA split :
    With(mdb_page_new(s, leaf), LAMBDA a :
    With(IF isRoot THEN NewRoot(a, c) ELSE a, LAMBDA b :
    LET rp == a.ret
        cu == b.cur[c]
        ptop0 == cu.top - 1
        sep == [k |-> all[split + 1].k, v |-> rp]
        parentFull == SIZELEFT(b, cu.pg[ptop0]) < NodeSize(FALSE, sep)
        mn0 == [cu EXCEPT !.pg[cu.top] = rp, !.ki[ptop0] = @ + 1,
                          !.top = @ - 1, !.snum = IF parentFull THEN @ - 1 ELSE @]
        mnId == Len(b.cur) + 1
    IN
    With(IF parentFull
         THEN With(Track(Push(b, mn0)), LAMBDA w :
                  Untrack(mdb_page_split(w, mnId, sep, FALSE)))
         ELSE mdb_node_add(Push(b, mn0), mnId, mn0.ki[ptop0], sep), LAMBDA d :
    LET mn == d.cur[mnId]
        ptop == IF parentFull /\ d.cur[c].snum > cu.snum THEN ptop0 + 1 ELSE ptop0
        e == PopLast(IF parentFull THEN FollowLeftPage(d, c, mn, ptop) ELSE d)
    IN
    With(NoFirstKey(leaf, SubSeq(all, 1, split)), LAMBDA left :
    With(NoFirstKey(leaf, SubSeq(all, split + 1, Len(all))), LAMBDA right :
    With([Check(e, Used(leaf, left) <= PageMax(leaf) /\ Used(leaf, right) <= PageMax(leaf))
             EXCEPT !.pg[mp].n = left, !.pg[rp].n = right], LAMBDA f :
    LET m == f.cur[c]
        onLeft == [m EXCEPT !.pg[m.top] = mp, !.ki[m.top] = newindx]
        onRight == [m EXCEPT !.pg[m.top] = rp, !.ki[m.top] = newindx - split, !.ki[ptop] = @ + 1]
    IN
    With(IF newindx < split THEN onLeft
         ELSE IF mn.pg[ptop] # onRight.pg[ptop]
                 /\ onRight.ki[ptop] >= NUMKEYS(f, onRight.pg[ptop])
         THEN TakePath(onRight, mn, ptop + 1) ELSE onRight, LAMBDA mc :
    Rc(Repair([f EXCEPT !.cur[c] = mc], c,
              LAMBDA x : x.init /\ (isRoot => x.pg[0] = mp),
              LAMBDA x : FixAfterSplit(x, mc, mn, mp, rp, split, newindx,
                                       IF isRoot THEN s.depth ELSE 0, ptop, parentFull,
                                       replace)), "ok"))))))))))

\* Replaces the key of the branch node that cursor c is on.
mdb_update_key(s, c, k) ==
    LET p == TopPg(s, c)
        node == [NODEPTR(s, p, TopKi(s, c)) EXCEPT !.k = k]
        grows == NodeSize(FALSE, node) - NodeSize(FALSE, NODEPTR(s, p, TopKi(s, c)))
    IN  IF grows > 0 /\ SIZELEFT(s, p) < grows
        THEN With(mdb_node_del(s, c), LAMBDA u : mdb_page_split(u, c, node, TRUE))
        ELSE [s EXCEPT !.pg[p].n[TopKi(s, c) + 1] = node]

\* mdb_update_key() through a copy of cursor c that stands one level up and is
\* tracked meanwhile.
UpdateParentKey(s, c, k) ==
    LET cu == s.cur[c]
    IN  With(Track(Push(s, [cu EXCEPT !.snum = @ - 1, !.top = @ - 1])), LAMBDA u :
            PopLast(Untrack(mdb_update_key(u, Newest(u), k))))

\* The end of mdb_cursor_put(), the cursor being where the node belongs;
\* without insert_key the node of the same key was just deleted there.
PutNode(s, c, node, insert_key) ==
    LET cu == s.cur[c]
        mp == TopPg(s, c)
    IN  IF SIZELEFT(s, mp) < NodeSize(TRUE, node) THEN mdb_page_split(s, c, node, ~insert_key)
        ELSE Repair(mdb_node_add(s, c, TopKi(s, c), node), c,
                LAMBDA m : /\ m.snum >= cu.snum /\ m.pg[cu.top] = mp
                           /\ m.ki[cu.top] >= cu.ki[cu.top] /\ insert_key,
                LAMBDA m : [m EXCEPT !.ki[cu.top] = @ + 1])

mdb_cursor_put(s, c, k, size) ==
    With(IF s.root = P_INVALID
         THEN Rc([s EXCEPT !.cur[c].snum = 0, !.cur[c].top = 0, !.cur[c].init = FALSE], "noroot")
         ELSE mdb_cursor_set(s, c, k, TRUE), LAMBDA a :
    With([a EXCEPT !.cur[c].del = FALSE], LAMBDA b :
    With(IF b.rc = "noroot"
         THEN With(mdb_page_new(b, TRUE), LAMBDA u :
                  [mdb_cursor_push(u, c, u.ret) EXCEPT
                      !.root = u.ret, !.depth = @ + 1, !.cur[c].init = TRUE])
         ELSE mdb_cursor_touch(b, c), LAMBDA d :
        IF a.rc # "ok"
        THEN [PutNode(d, c, [k |-> k, v |-> size], TRUE) EXCEPT
                 !.entries = @ + 1, !.cur[c].init = TRUE, !.rc = "ok"]
        ELSE IF NODEPTR(d, TopPg(d, c), TopKi(d, c)).v = size THEN d
        ELSE With(mdb_node_del(d, c), LAMBDA u : PutNode(u, c, [k |-> k, v |-> size], FALSE)))))

-----------------------------------------------------------------------------
(* Deleting: mdb_rebalance() and its two remedies.                         *)

\* What moving one node from the page of cursor a to that of cursor b does to
\* another cursor m.
FixAfterMove(m, a, b, fromleft, onA, onB) ==
    LET l == a.top
        bumped == IF ~onB /\ m.pg[l] = b.pg[l] /\ m.ki[l] >= b.ki[l]
                  THEN [m EXCEPT !.ki[l] = @ + 1] ELSE m
    IN  IF fromleft
        THEN IF ~onA /\ bumped.pg[l] = a.pg[l] /\ bumped.ki[l] = a.ki[l]
             THEN [bumped EXCEPT !.pg[l] = b.pg[l], !.ki[l] = b.ki[l], !.ki[l - 1] = @ + 1]
             ELSE bumped
        ELSE IF onA \/ m.pg[l] # a.pg[l] THEN m
        ELSE IF m.ki[l] = 0
        THEN [m EXCEPT !.pg[l] = b.pg[l], !.ki[l] = b.ki[l], !.ki[l - 1] = @ - 1]
        ELSE [m EXCEPT !.ki[l] = @ - 1]

\* Mistake: the separator stays when the first node of a page moves away.
separatorStays(s, c) == s

\* The separator of the page of cursor c after its first node changed, and the
\* empty first key of a branch.
FixSeparator(s, c) ==
    LET cu == s.cur[c]
        l == cu.top
        p == TopPg(s, c)
    IN  IF cu.ki[l] # 0 THEN s
        ELSE With(IF cu.ki[l - 1] # 0 THEN UpdateParentKey(s, c, NODEPTR(s, p, 0).k) ELSE s,
                  LAMBDA u : IF u.pg[p].leaf THEN u ELSE mdb_update_key(u, c, Null))

\* Moves the node cursor src is on to where cursor dst is.
mdb_node_move(s, src, dst, fromleft) ==
    With(mdb_page_touch(mdb_page_touch(s, src), dst), LAMBDA u :
        LET sp == TopPg(u, src)
            dp == TopPg(u, dst)
            leaf == u.pg[sp].leaf
            moving == NODEPTR(u, sp, TopKi(u, src))
            key == IF TopKi(u, src) = 0 /\ ~leaf THEN LowestKey(u, moving.v) ELSE moving.k
            keyed == IF leaf \/ TopKi(u, dst) # 0 THEN u
                     ELSE PopLast(With(Push(u, u.cur[dst]), LAMBDA w :
                                           mdb_update_key(w, Newest(w), LowestKey(u, dp))))
        IN
        With(mdb_node_del(mdb_node_add(keyed, dst, TopKi(u, dst), [moving EXCEPT !.k = key]), src),
             LAMBDA moved :
        LET a == moved.cur[src]
            b == moved.cur[dst]
        IN
        With(ForTracked(moved, LAMBDA m :
                IF moved.cur[m].init /\ moved.cur[m].top >= a.top
                THEN FixAfterMove(moved.cur[m], a, b, fromleft, m = src, m = dst)
                ELSE moved.cur[m]), LAMBDA v :
        With(FixSeparator(v, src), LAMBDA w : FixSeparator(w, dst)))))

\* The root has become empty, or a branch with one child.
RootPage(s, c) ==
    LET mp == s.cur[c].pg[0]
        only == NODEPTR(s, mp, 0).v
        up(m, n) == [m EXCEPT !.pg = [l \in 0..MaxDepth |-> IF l < n THEN m.pg[l + 1] ELSE m.pg[l]],
                              !.ki = [l \in 0..MaxDepth |-> IF l < n THEN m.ki[l + 1] ELSE m.ki[l]]]
        gone(m) == [m EXCEPT !.snum = 0, !.top = 0, !.init = FALSE]
    IN  IF NUMKEYS(s, mp) = 0
        THEN Repair([FreePage(s, mp) EXCEPT !.root = P_INVALID, !.depth = 0, !.leaves = 0,
                                            !.cur[c] = gone(@)],
                    c, LAMBDA m : m.init /\ m.pg[0] = mp, gone)
        ELSE IF ~s.pg[mp].leaf /\ NUMKEYS(s, mp) = 1
        THEN Repair([FreePage(s, mp) EXCEPT !.root = only, !.depth = @ - 1, !.branches = @ - 1,
                        !.cur[c] = [up(@, s.depth - 1) EXCEPT !.pg[0] = only]],
                    c, LAMBDA m : m.init /\ m.pg[0] = mp,
                    LAMBDA m : [up(m, s.depth - 1) EXCEPT !.snum = @ - 1, !.top = @ - 1])
        ELSE s

\* Appends the nodes of cursor src's page to cursor dst's page, unlinks and
\* frees the former and rebalances the parent.
RECURSIVE mdb_rebalance(_, _)
mdb_page_merge(s, src, dst) ==
    With(mdb_page_touch(s, dst), LAMBDA u :
        LET sp == TopPg(u, src)
            dp == TopPg(u, dst)
            leaf == u.pg[sp].leaf
            nkeys == NUMKEYS(u, dp)
            nodes == IF leaf \/ u.pg[sp].n = <<>> THEN u.pg[sp].n
                     ELSE [u.pg[sp].n EXCEPT ![1].k = LowestKey(u, sp)]
            l == u.cur[src].top
            joined == [Check(u, Used(leaf, nodes) <= SIZELEFT(u, dp)) EXCEPT
                          !.pg[dp].n = @ \o nodes, !.cur[src].top = l - 1]
        IN
        With(mdb_node_del(joined, src), LAMBDA w :
        With([mdb_page_loose(IF TopKi(w, src) = 0 THEN mdb_update_key(w, src, Null) ELSE w, sp) EXCEPT
                 !.cur[src].top = l, !.leaves = IF leaf THEN @ - 1 ELSE @,
                 !.branches = IF leaf THEN @ ELSE @ - 1], LAMBDA freed :
        LET a == freed.cur[src]
            b == freed.cur[dst]
        IN
        With(Repair(freed, src,
                LAMBDA m : m.snum >= a.snum,
                LAMBDA m : IF m.pg[l] = sp
                           THEN [m EXCEPT !.pg[l] = dp, !.ki[l] = @ + nkeys,
                                          !.ki[l - 1] = b.ki[l - 1]]
                           ELSE IF m.pg[l - 1] = a.pg[l - 1] /\ m.ki[l - 1] > a.ki[l - 1]
                           THEN [m EXCEPT !.ki[l - 1] = @ - 1] ELSE m), LAMBDA fixed :
        With(mdb_cursor_pop(fixed, dst), LAMBDA v0 : With(mdb_rebalance(v0, dst), LAMBDA v :
        LET snum == b.snum + v.depth - s.depth
        IN  [v EXCEPT !.cur[dst].snum = snum, !.cur[dst].top = snum - 1]))))))

\* Brings the page at the top of cursor c's stack back to its minimum.
mdb_rebalance(s, c) ==
    LET cu == s.cur[c]
        p == TopPg(s, c)
        minkeys == IF s.pg[p].leaf THEN 1 ELSE 2
        ptop == cu.top - 1
        fromleft == cu.ki[ptop] # 0
        step == IF fromleft THEN -1 ELSE 1
        nb == NODEPTR(s, cu.pg[ptop], cu.ki[ptop] + step).v
        oldki == cu.ki[cu.top]
        mn == [cu EXCEPT !.ki[ptop] = @ + step, !.pg[cu.top] = nb,
                         !.ki[cu.top] = IF fromleft THEN NUMKEYS(s, nb) - 1 ELSE 0]
        here == IF fromleft THEN 0 ELSE NUMKEYS(s, p)
        n == Newest(s) + 1
        noEof(v) == [v EXCEPT !.cur[c].eof = FALSE]
    IN  IF Filled(s, p) /\ NUMKEYS(s, p) >= minkeys THEN s
        ELSE IF cu.snum < 2 THEN RootPage(s, c)
        ELSE IF NUMKEYS(s, cu.pg[ptop]) < 2 THEN Check(s, FALSE)
        ELSE With(Push(SetTopKi(s, c, here), mn), LAMBDA u :
            IF Filled(s, nb) /\ NUMKEYS(s, nb) > minkeys
            THEN SetTopKi(PopLast(mdb_node_move(u, n, c, fromleft)), c,
                          IF fromleft THEN oldki + 1 ELSE oldki)
            ELSE IF ~fromleft
            THEN SetTopKi(noEof(PopLast(mdb_page_merge(u, n, c))), c, oldki)
            ELSE With(Track([u EXCEPT !.cur[n].ki[cu.top] = @ + here + 1]), LAMBDA w :
                 With(mdb_page_merge(w, c, n), LAMBDA v :
                 LET m == v.cur[n]
                     copy == [TakePath(v.cur[c], m, m.snum) EXCEPT
                                 !.snum = m.snum, !.top = m.top, !.init = m.init, !.del = m.del]
                 IN  SetTopKi(noEof(PopLast(Untrack([v EXCEPT !.cur[c] = copy]))), c,
                              oldki + NUMKEYS(s, nb)))))

\* The last loop of mdb_cursor_del0(): cursors behind the last node of page mp
\* go to the next page.  m is the position in the list of cursors.
RECURSIVE PastLastNode(_, _, _, _)
PastLastNode(s, c, mp, m) ==
    IF m > Len(s.trk) THEN s
    ELSE LET x == s.trk[m]
             cu == s.cur[x]
             l == s.cur[c].top
         IN  IF cu.init /\ cu.snum >= s.cur[c].snum /\ cu.pg[l] = mp
                /\ cu.ki[l] >= s.cur[c].ki[l] /\ cu.ki[l] >= NUMKEYS(s, mp)
             THEN With(mdb_cursor_sibling(s, x, TRUE), LAMBDA u :
                  With(IF u.rc = "ok" THEN u ELSE [u EXCEPT !.cur[x].eof = TRUE], LAMBDA v :
                      PastLastNode(v, c, mp, m + 1)))
             ELSE PastLastNode(s, c, mp, m + 1)

\* Deletes the entry cursor c is on.
mdb_cursor_del0(s, c) ==
    LET cu == s.cur[c]
        l == cu.top
        mp == TopPg(s, c)
        ki == cu.ki[l]
    IN  With(Repair([mdb_node_del(s, c) EXCEPT !.entries = @ - 1], c,
                LAMBDA m : m.init /\ m.snum >= cu.snum /\ m.pg[l] = mp /\ m.ki[l] >= ki,
                LAMBDA m : IF m.ki[l] = ki THEN [m EXCEPT !.del = TRUE]
                           ELSE [m EXCEPT !.ki[l] = @ - 1]), LAMBDA deleted :
        With(mdb_rebalance(deleted, c), LAMBDA u :
            IF u.cur[c].snum = 0 THEN Rc(u, "ok")
            ELSE With(PastLastNode(u, c, TopPg(u, c), 1), LAMBDA v :
                    [v EXCEPT !.cur[c].del = TRUE, !.rc = "ok"])))

mdb_cursor_del(s, c) ==
    IF ~s.cur[c].init THEN Rc(s, "einval")
    ELSE IF TopKi(s, c) >= NUMKEYS(s, TopPg(s, c)) THEN Rc(s, "notfound")
    ELSE With(mdb_cursor_touch(s, c), LAMBDA u : mdb_cursor_del0(u, c))

-----------------------------------------------------------------------------
(* Dropping the table: mdb_drop0() frees the pages level by level.         *)

FreeChildren(s, p) == FoldSeq(LAMBDA node, u : FreePage(u, node.v), s, s.pg[p].n)

\* mx is the stack of the first leaf's path, from which each level restarts.
RECURSIVE DropLevels(_, _, _)
DropLevels(s, c, mx) ==
    LET cu == s.cur[c]
    IN  IF cu.snum = 0 THEN s
        ELSE With(FreeChildren(s, TopPg(s, c)), LAMBDA u :
            IF cu.top = 0 THEN u
            ELSE With(SetTopKi(u, c, NUMKEYS(u, TopPg(u, c))), LAMBDA v :
                 With(mdb_cursor_sibling(v, c, TRUE), LAMBDA w :
                 With(IF w.rc = "ok" THEN w
                      ELSE [mdb_cursor_pop(w, c) EXCEPT !.cur[c].ki = NoStack,
                               !.cur[c].pg = [mx EXCEPT ![0] = cu.pg[0]]], LAMBDA x :
                 DropLevels(x, c, mx)))))

\* The table has no overflow pages and no subtables: the leaves are not read.
mdb_drop0(s, c) ==
    With(mdb_page_search(s, c, Null, "first"), LAMBDA u :
        IF u.rc # "ok" THEN u
        ELSE With(mdb_cursor_pop(u, c), LAMBDA v : FreePage(DropLevels(v, c, v.cur[c].pg), s.root)))

-----------------------------------------------------------------------------
(* The operations of a program.                                            *)

NotBelow(S, k) == IF \E j \in S : j >= k THEN Min({j \in S : j >= k}) ELSE End

Nowhere == [at |-> Unplaced, gone |-> FALSE]
At(k) == [at |-> k, gone |-> FALSE]

\* The program's cursors, just opened.
Idle == [c \in Cursors |-> NewCursor] \o <<>>

Init ==
    /\ t = [pg |-> [p \in 1..MaxPg |-> [leaf |-> TRUE, n |-> <<>>]],
            root |-> P_INVALID, depth |-> 0, leaves |-> 0, branches |-> 0, entries |-> 0,
            live |-> {}, dirty |-> {}, loose |-> <<>>, cur |-> Idle,
            trk |-> Reverse([c \in Cursors |-> c]), bad |-> FALSE, rc |-> "ok", ret |-> 0,
            op |-> "begin"]
    /\ stored = <<>>
    /\ sizes \in Loads
    /\ on = [c \in Cursors |-> Nowhere]

Present == DOMAIN stored
Stores(k, size) == stored' = (k :> size) @@ stored
Forgets(k) == stored' = [j \in Present \ {k} |-> stored[j]]

Op(s, op) == [s EXCEPT !.op = op, !.ret = 0]

\* A bound: a cursor that a failed search left on no entry is placed afresh,
\* or the transaction ends, before the program goes on with the table.
Lost(c) == t.cur[c].init /\ on[c].at = Unplaced
NoneLost == \A c \in Cursors : ~Lost(c)

mdb_put(k, size) ==
    /\ NoneLost
    /\ t' = Op(With(Track(Push(t, NewCursor)), LAMBDA u :
                    PopLast(Untrack(mdb_cursor_put(u, Newest(u), k, size)))), "put")
    /\ Stores(k, size)
    /\ UNCHANGED <<sizes, on>>

\* Where the cursors are after key k was deleted.
AfterDelete(k, S) ==
    [c \in Cursors |-> IF S = {} THEN Nowhere
                       ELSE IF on[c].at = k THEN [at |-> NotBelow(S, k), gone |-> TRUE]
                       ELSE on[c]]

mdb_del(k) ==
    /\ NoneLost
    /\ t' = Op(With(Push(t, NewCursor), LAMBDA u : With(mdb_cursor_set(u, Newest(u), k, TRUE), LAMBDA v :
                    IF v.rc # "ok" THEN PopLast(v)
                    ELSE With(Track(v), LAMBDA w :
                             PopLast(Untrack(mdb_cursor_del(w, Newest(w))))))), "del")
    /\ Forgets(k)
    /\ on' = IF k \in Present THEN AfterDelete(k, Present \ {k}) ELSE on
    /\ UNCHANGED sizes

mdb_drop ==
    /\ t' = Op(With(With(Push(t, NewCursor), LAMBDA s : mdb_drop0(s, Newest(s))), LAMBDA u :
                ForTracked([PopLast(u) EXCEPT !.root = P_INVALID, !.depth = 0, !.leaves = 0,
                                              !.branches = 0, !.entries = 0],
                           LAMBDA m : [u.cur[m] EXCEPT !.init = FALSE, !.eof = FALSE])), "drop")
    /\ stored' = <<>>
    /\ on' = [c \in Cursors |-> Nowhere]
    /\ UNCHANGED sizes

\* The end of a transaction closes its cursors; the next one owns no page.
mdb_txn_commit ==
    /\ t' = Op([t EXCEPT !.dirty = {}, !.loose = <<>>, !.cur = Idle], "commit")
    /\ on' = [c \in Cursors |-> Nowhere]
    /\ UNCHANGED <<sizes, stored>>

CursorPut(c, k, size) ==
    /\ \A d \in Cursors \ {c} : ~Lost(d)
    /\ t' = Op(mdb_cursor_put(t, c, k, size), "put")
    /\ Stores(k, size)
    /\ on' = [on EXCEPT ![c] = At(k)]
    /\ UNCHANGED sizes

CursorDel(c) ==
    LET k == NODEPTR(t, TopPg(t, c), TopKi(t, c)).k
    IN  /\ NoneLost
        /\ t' = Op(mdb_cursor_del(t, c), "del")
        /\ IF t'.rc = "ok"
           THEN Forgets(k) /\ on' = AfterDelete(k, Present \ {k})
           ELSE UNCHANGED <<stored, on>>
        /\ UNCHANGED sizes

\* mdb_cursor_get(): s is what the operation made of the transaction, place
\* where the cursor must be if it succeeded, other where it is if it did not.
mdb_cursor_get(c, op, s, place, other) ==
    /\ t' = Op([s EXCEPT !.cur[c].del = FALSE], op)
    /\ on' = [on EXCEPT ![c] = At(IF t'.rc = "ok" THEN place ELSE other)]
    /\ UNCHANGED <<sizes, stored>>

\* The key MDB_NEXT has to find.
NextOf(c) ==
    LET o == on[c]
    IN  IF ~t.cur[c].init THEN NotBelow(Present, Null)
        ELSE IF o.gone THEN o.at
        ELSE NotBelow(Present, o.at + 1)

PrevOf(c) ==
    IF ~t.cur[c].init THEN Max(Present) ELSE Max({j \in Present : j < on[c].at})

CursorMove(c) ==
    \/ mdb_cursor_get(c, "first", mdb_cursor_first(t, c), Min(Present), on[c].at)
    \/ mdb_cursor_get(c, "last", mdb_cursor_last(t, c), Max(Present), on[c].at)
    \/ ~Lost(c) /\ mdb_cursor_get(c, "next", mdb_cursor_next(t, c), NextOf(c), on[c].at)
    \/ ~Lost(c) /\ mdb_cursor_get(c, "prev", mdb_cursor_prev(t, c), PrevOf(c), on[c].at)
    \/ ~Lost(c) /\ mdb_cursor_get(c, "current", GetCurrent(t, c), on[c].at, on[c].at)

CursorSet(c, k) ==
    \/ mdb_cursor_get(c, "set", mdb_cursor_set(t, c, k, TRUE), k, Unplaced)
    \/ mdb_cursor_get(c, "range", mdb_cursor_set(t, c, k, FALSE), NotBelow(Present, k), Unplaced)

Next ==
    \/ \E k \in Keys : \E size \in sizes[k] : mdb_put(k, size)
    \/ \E k \in Keys : mdb_del(k)
    \/ mdb_drop
    \/ mdb_txn_commit
    \/ \E c \in Cursors : CursorDel(c)
    \/ \E c \in Cursors : CursorMove(c)
    \/ \E c \in Cursors, k \in Keys : \E size \in sizes[k] : CursorPut(c, k, size)
    \/ \E c \in Cursors, k \in Keys : CursorSet(c, k)

Spec == Init /\ [][Next]_vars

-----------------------------------------------------------------------------
(* Properties.                                                             *)

RECURSIVE PagesBelow(_)
PagesBelow(p) ==
    IF t.pg[p].leaf THEN {p}
    ELSE {p} \cup UNION {PagesBelow(t.pg[p].n[i].v) : i \in DOMAIN t.pg[p].n}

\* The page and all below it hold keys from low (included) to high (not), in
\* order, each level as deep as the others and no page too empty.
RECURSIVE Sound(_, _, _, _)
Sound(p, low, high, depth) ==
    LET n == t.pg[p].n
        from(i) == IF i = 1 THEN low ELSE n[i].k
        upto(i) == IF i = Len(n) THEN high ELSE n[i + 1].k
    IN  IF t.pg[p].leaf
        THEN /\ depth = 1
             /\ n # <<>>
             /\ \A i \in DOMAIN n : low <= n[i].k /\ n[i].k < upto(i)
        ELSE /\ depth > 1
             /\ Len(n) >= 2
             /\ n[1].k = Null
             /\ \A i \in DOMAIN n : /\ low <= from(i) /\ from(i) < upto(i) /\ upto(i) <= high
                                    /\ Sound(n[i].v, from(i), upto(i), depth - 1)

\* Whatever is put and deleted, the tree stays a search tree: keys in order
\* and between their separators, leaves at the depth md_depth says, branches
\* with two children at least, no empty leaf; and no assertion of the code
\* fails and no page is freed twice.
TreeIsSound ==
    /\ ~t.bad
    /\ t.root # P_INVALID => Sound(t.root, Null, End, t.depth)

\* The pages of the table are those that its tree reaches, and the counts
\* md_branch_pages, md_leaf_pages and md_entries are right, so that splits,
\* merges, a collapse of the root and mdb_drop() lose no page.
PagesCounted ==
    LET pages == IF t.root = P_INVALID THEN {} ELSE PagesBelow(t.root)
    IN  /\ t.live = pages
        /\ t.leaves = Cardinality({p \in pages : t.pg[p].leaf})
        /\ t.branches = Cardinality({p \in pages : ~t.pg[p].leaf})
        /\ t.entries = Cardinality(Present)

\* mdb_get() finds the keys that were put and not deleted, and no other, each
\* with the data put last.
FindsWhatIsStored ==
    \A k \in Keys : With(Push(t, NewCursor), LAMBDA s :
                    With(mdb_cursor_set(s, Newest(s), k, TRUE), LAMBDA u :
        /\ u.rc = "ok" <=> k \in Present
        /\ u.rc = "ok" => NODEPTR(u, TopPg(u, Newest(u)), TopKi(u, Newest(u))).v = stored[k]))

\* The stack is a path from the root to a leaf.
PathOK(c) ==
    LET cu == t.cur[c]
    IN  /\ cu.snum = t.depth /\ cu.top = cu.snum - 1
        /\ cu.pg[0] = t.root
        /\ \A l \in 0..(cu.top - 1) : /\ cu.ki[l] < NUMKEYS(t, cu.pg[l])
                                      /\ NODEPTR(t, cu.pg[l], cu.ki[l]).v = cu.pg[l + 1]

Behind(c) == \A l \in 0..(t.cur[c].top - 1) : t.cur[c].ki[l] = NUMKEYS(t, t.cur[c].pg[l]) - 1

OnKey(c, k) ==
    IF k = End THEN Behind(c) /\ TopKi(t, c) >= NUMKEYS(t, TopPg(t, c))
    ELSE TopKi(t, c) < NUMKEYS(t, TopPg(t, c)) /\ NODEPTR(t, TopPg(t, c), TopKi(t, c)).k = k

\* A cursor stays on its entry while other cursors insert and delete around
\* it, split, move and merge pages under it and copy its pages; when its
\* entry is deleted it is on the one that follows.  A move that succeeds takes
\* it to the next or the previous entry, whatever happened since it was placed.
CursorsKeepTheirPlace ==
    \A c \in Cursors : t.cur[c].init =>
        PathOK(c) /\ (on[c].at # Unplaced => OnKey(c, on[c].at))

\* What the operations depend on: the tree without page numbers, and the
\* cursors' paths.  The slots of a stack that are not in use are left out: the
\* states TLC keeps have whatever pages are in them, loosened and used again or
\* not.
RECURSIVE Shape(_)
Shape(p) ==
    IF t.pg[p].leaf THEN <<p \in t.dirty, t.pg[p].n>>
    ELSE <<p \in t.dirty, [i \in DOMAIN t.pg[p].n |-> t.pg[p].n[i].k],
           [i \in DOMAIN t.pg[p].n |-> Shape(t.pg[p].n[i].v)]>>

CursorView(c) ==
    LET cu == t.cur[c]
    IN  IF cu.init
        THEN <<cu.eof, cu.del, on[c], PathOK(c),
               SubSeq([l \in 1..MaxDepth |-> cu.ki[l - 1]], 1, cu.snum)>>
        ELSE <<cu.del>>

TreeView ==
    <<IF t.root = P_INVALID THEN <<>> ELSE Shape(t.root), sizes,
      [c \in Cursors |-> CursorView(c)],
      t.bad, t.live = IF t.root = P_INVALID THEN {} ELSE PagesBelow(t.root)>>

=============================================================================
