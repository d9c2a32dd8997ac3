------------------------------ MODULE Patricia ------------------------------
(***************************************************************************)
(* patricia_trie (patricia.hxx): a binary trie whose nodes carry the bit   *)
(* they branch on, an optional key and value, two edges and a parent.  The *)
(* trie is a heap of nodes and a root; a node is a number, 0 is nullptr.   *)
(* Keys are sequences of bits.                                             *)
(***************************************************************************)
EXTENDS Integers, Sequences, FiniteSets, SequencesExt

CONSTANT Keys       \* the keys that are inserted and looked for

IsBits(k) == k \in Seq({0, 1}) /\ Len(k) > 0

\* Two extensions of a key go on with the same bit 0, as bytes of text do.
ASSUME KeysAssumption ==
    /\ \A k \in Keys : IsBits(k)
    /\ \A k, e \in Keys : IsStrictPrefix(k, e) => e[Len(k) + 1] = 0

VARIABLES
    trie,           \* [root, node]
    contents,       \* the keys that have been inserted and not removed
    crashed         \* insert() has found no parent: see insert_node; the model ends

vars == <<trie, contents, crashed>>

NoValue == <<>>
Null == 0

-----------------------------------------------------------------------------
(* Keys.                                                                    *)

\* The key's bytes stay in the node when its length is set to 0.
test_bit(k, b) == IF b < Len(k) THEN k[b + 1] ELSE 0

bit_diff(a, b) ==
    Max({n \in 0 .. Len(a) : n <= Len(b) /\ \A i \in 1 .. n : a[i] = b[i]})

Least(a, b) == IF a <= b THEN a ELSE b

-----------------------------------------------------------------------------
(* Nodes.                                                                   *)

Node(key, bit) ==
    [bit |-> bit, key |-> key, bits |-> Len(key), value |-> NoValue,
     edge |-> [e \in {0, 1} |-> Null], parent |-> Null]

HasValue(n) == n.value # NoValue
edgecount(n) == Cardinality({e \in {0, 1} : n.edge[e] # Null})
Fresh(t) == Min((1 .. Cardinality(DOMAIN t.node) + 1) \ DOMAIN t.node)
NewNode(t, key, bit) == [t EXCEPT !.node = @ @@ (Fresh(t) :> Node(key, bit))]
Delete(t, n) == [t EXCEPT !.node = [m \in DOMAIN @ \ {n} |-> @[m]]]
which(t, p, n) == IF t.node[p].edge[0] = n THEN 0 ELSE 1

\* The node n becomes edge e of p, and what was there loses its parent.
attach(t, p, e, n) ==
    LET prev == t.node[p].edge[e]
        d == IF prev = Null THEN t ELSE [t EXCEPT !.node[prev].parent = Null]
    IN  [d EXCEPT !.node[p].edge[e] = n, !.node[n].parent = p]

clear_value(t, n) == [t EXCEPT !.node[n].bits = 0, !.node[n].value = NoValue]

-----------------------------------------------------------------------------
(* Searching.                                                               *)

RECURSIVE Descend(_, _, _, _)
\* From n down the edges the key chooses: while the nodes branch on a bit of
\* the key, and with through = TRUE also through nodes that have no value.
Descend(t, k, n, through) ==
    LET next == t.node[n].edge[test_bit(k, t.node[n].bit)]
    IN  IF next # Null /\ (t.node[n].bit < Len(k) \/ (through /\ ~HasValue(t.node[n])))
        THEN Descend(t, k, next, through)
        ELSE n

\* The node with the key, or nullptr.
find_node(t, k) ==
    IF t.root = Null THEN Null
    ELSE LET n == Descend(t, k, t.root, FALSE)
         IN  IF t.node[n].bits = Len(k) /\ t.node[n].key = k THEN n ELSE Null

\* Mutant: only the lengths are compared.
ShorterKey(n, k) == n.bits <= Len(k)
\* prefix_compare: a key of length 0 compares the bytes it still has.
prefix_compare(n, k) == n.bits <= Len(k) /\ IsPrefix(n.key, k)

RECURSIVE Ascend(_, _, _)
Ascend(t, k, n) ==
    IF n = Null \/ prefix_compare(t.node[n], k) THEN n ELSE Ascend(t, k, t.node[n].parent)

prefix_match(t, k) ==
    IF t.root = Null THEN Null ELSE Ascend(t, k, Descend(t, k, t.root, FALSE))

-----------------------------------------------------------------------------
(* Inserting.                                                               *)

\* Mutant: the climb does not stop below the bit where the keys differ.
ClimbToRoot(t, n, bit) == t.root
RECURSIVE Climb(_, _, _)
\* Up to the first node whose parent branches before the bit.
Climb(t, n, bit) ==
    LET p == t.node[n].parent
    IN  IF p # Null /\ t.node[p].bit >= bit THEN Climb(t, p, bit) ELSE n

diffbit(k, n) == Least(bit_diff(k, n.key), Least(n.bit, Len(k)))

\* Mutant: the new key's node takes the place of the old one's, whose edge is lost.
AboveLost(t, new, n, k) ==
    LET p == t.node[n].parent
    IN  attach(t, p, which(t, p, n), new)
\* A node for a key that is a prefix goes between n and its parent.
Above(t, new, n, k) ==
    LET p == t.node[n].parent
    IN  [t EXCEPT !.node[new].parent = p,
                  !.node[new].edge[test_bit(t.node[n].key, Len(k))] = n,
                  !.node[p].edge[which(t, p, n)] = new,
                  !.node[n].parent = new]

\* A new branch at the bit where k and n differ.
Between(t, new, n, k, bit) ==
    LET p == t.node[n].parent
        b == Fresh(t)
        e == test_bit(k, bit)
        u == attach(NewNode(t, <<>>, bit), p, which(t, p, n), b)
    IN  [u EXCEPT !.node[b].edge = [i \in {0, 1} |-> IF i = e THEN new ELSE n],
                  !.node[new].parent = b, !.node[n].parent = b]

\* insert_node: the trie, the node for the key, and whether it got there.  It does
\* not when the new node has to go above a root: a new branch asks the parent that
\* is not there (null dereference), and for a key that is a prefix the root is
\* replaced by an unconnected node, all of the trie is deleted, and a deleted node
\* is written.
insert_node(t0, k) ==
    LET t == IF t0.root = Null THEN [NewNode(t0, <<>>, 0) EXCEPT !.root = Fresh(t0)] ELSE t0
        m == Descend(t, k, t.root, TRUE)
        diff == diffbit(k, t.node[m])
        n == Climb(t, m, diff)
        new == Fresh(t)
        u == NewNode(t, k, Len(k))
        Result(r, i) == [ok |-> TRUE, t |-> r, n |-> i]
    IN  IF diff = Len(k) /\ t.node[n].bit = Len(k) THEN Result(t, n)
        ELSE IF t.node[n].bit = diff
             THEN Result(attach(u, n, test_bit(k, diff), new), new)
        ELSE IF t.node[n].parent = Null THEN [ok |-> FALSE, t |-> t, n |-> n]
        ELSE IF diff = Len(k) THEN Result(Above(u, new, n, k), new)
        ELSE Result(Between(u, new, n, k, diff), new)

-----------------------------------------------------------------------------
(* Removing.                                                                *)

\* Mutant: a branch that is left with one edge and no value stays.
NoFurther(n) == TRUE
\* The loop goes on to the parent while that is of no use.
Useful(n) == HasValue(n) \/ edgecount(n) = 2

OnlyChild(n) == IF n.edge[0] # Null THEN n.edge[0] ELSE n.edge[1]

RECURSIVE remove_node(_, _)
remove_node(t, n) ==
    LET x == t.node[n]
        p == x.parent
        child == OnlyChild(x)
        u == IF child = Null
             THEN [t EXCEPT !.node[p].edge[which(t, p, n)] = Null]
             ELSE attach(t, p, which(t, p, n), child)
    IN  IF edgecount(x) = 2 THEN clear_value(t, n)
        ELSE IF n = t.root
             THEN IF child = Null THEN clear_value(t, n)
                  ELSE [Delete([t EXCEPT !.node[child].parent = Null], n) EXCEPT !.root = child]
        ELSE IF Useful(u.node[p]) THEN Delete(u, n)
        ELSE remove_node(Delete(u, n), p)

-----------------------------------------------------------------------------
(* Iterating.                                                               *)

Crash == -1

\* Mutant: the walk ends at the parent, whatever it branches to.
WalkUpOnce(t, n) == LET p == t.node[n].parent IN IF p = Null THEN Crash ELSE Null
RECURSIVE WalkUp(_, _)
\* Up to a node that was left by its left edge and has a right one.
WalkUp(t, n) ==
    LET p == t.node[n].parent
    IN  IF p = Null THEN Crash
        ELSE IF t.node[p].edge[0] = n /\ t.node[p].edge[1] # Null THEN t.node[p].edge[1]
        ELSE IF t.node[p].parent = Null THEN Null
        ELSE WalkUp(t, p)

RECURSIVE _advance(_, _)
_advance(t, n) ==
    LET child == OnlyChild(t.node[n])
        m == IF child # Null THEN child ELSE WalkUp(t, n)
    IN  IF m \in {Null, Crash} \/ HasValue(t.node[m]) THEN m ELSE _advance(t, m)

begin(t) ==
    IF t.root = Null \/ HasValue(t.node[t.root]) THEN t.root ELSE _advance(t, t.root)

RECURSIVE ValuesFrom(_, _)
\* The values that a loop from n on sees; Crash at the end if it goes wrong.
ValuesFrom(t, n) ==
    IF n = Null THEN <<>>
    ELSE IF n = Crash THEN <<Crash>>
    ELSE <<t.node[n].value>> \o ValuesFrom(t, _advance(t, n))

-----------------------------------------------------------------------------
(* The trie's owner.                                                        *)

Init ==
    /\ trie = [root |-> Null, node |-> <<>>]
    /\ contents = {} /\ crashed = FALSE

Has(t, k) == find_node(t, k) # Null /\ HasValue(t.node[find_node(t, k)])

insert(k) ==
    LET r == insert_node(trie, k)
    IN  /\ ~crashed
        /\ crashed' = ~r.ok
        /\ IF ~r.ok THEN UNCHANGED <<trie, contents>>
           ELSE IF HasValue(r.t.node[r.n]) THEN trie' = r.t /\ UNCHANGED contents
           ELSE /\ trie' = [r.t EXCEPT !.node[r.n].value = k]
                /\ contents' = contents \cup {k}

remove(k) ==
    /\ ~crashed
    /\ Has(trie, k)
    /\ trie' = remove_node(trie, find_node(trie, k))
    /\ contents' = contents \ {k}
    /\ UNCHANGED crashed

Next == \E k \in Keys : insert(k) \/ remove(k)

Spec == Init /\ [][Next]_vars

-----------------------------------------------------------------------------
(* Properties.                                                              *)

Live == DOMAIN trie.node

TypeOK ==
    /\ trie.root \in Live \cup {Null}
    /\ \A n \in Live :
          /\ trie.node[n].parent \in Live \cup {Null}
          /\ \A e \in {0, 1} : trie.node[n].edge[e] \in Live \cup {Null}
    /\ contents \subseteq Keys /\ crashed \in BOOLEAN

\* The value of k is in a node that a removal has left without a key, where
\* insert() puts it back and find() does not see it.
Unkeyed(k) == \E n \in Live : trie.node[n].value = k /\ trie.node[n].bits = 0

\* find() tells the keys that are in the trie, each with its own value, and no
\* others, after any sequence of insertions and removals that the program
\* survives, a key that came back to an emptied node excepted.
FindsContents ==
    \A k \in Keys :
       LET n == find_node(trie, k)
       IN  IF k \in contents THEN (n # Null /\ trie.node[n].value = k) \/ Unkeyed(k)
           ELSE n = Null \/ ~HasValue(trie.node[n])

\* What check() checks, and that no node is lost: parents and edges agree, the
\* bits grow from the root to the leaves, every branch that has no value is
\* needed, and every node is in the tree.
WellFormed ==
    TypeOK /\ \A n \in Live :
       LET x == trie.node[n]
       IN  /\ IF n = trie.root THEN x.parent = Null
              ELSE /\ x.parent # Null
                   /\ n \in Range(trie.node[x.parent].edge)
                   /\ trie.node[x.parent].bit < x.bit
                   /\ HasValue(x) \/ edgecount(x) = 2
           /\ \A e \in {0, 1} : x.edge[e] # Null => trie.node[x.edge[e]].parent = n
           /\ x.edge[0] = Null \/ x.edge[0] # x.edge[1]

\* A loop over the trie sees every value once, in the order of the keys, unless
\* the root is a leaf (_advance asks a parent it does not have).
Before(a, b) ==
    LET d == bit_diff(a, b) IN d = Len(a) \/ (d < Len(b) /\ a[d + 1] < b[d + 1])
IterationIsSorted ==
    (trie.root = Null \/ edgecount(trie.node[trie.root]) > 0) =>
       LET s == ValuesFrom(trie, begin(trie))
       IN  /\ Range(s) = contents /\ Len(s) = Cardinality(contents)
           /\ \A i \in 1 .. Len(s) - 1 : Before(s[i], s[i + 1])

\* A match that has a value is the longest prefix in the trie.
LongestPrefix ==
    \A k \in Keys :
       LET n == prefix_match(trie, k)
           m == {c \in contents : IsPrefix(c, k)}
       IN  n # Null /\ HasValue(trie.node[n]) =>
              /\ trie.node[n].value \in m
              /\ \A c \in m : Len(c) <= Len(trie.node[n].value)

\* insert() goes wrong at the root (a null dereference, or all of the trie is
\* deleted) only after a removal has replaced the root that was made with the trie.
CrashesOnlyWithNewRoot == crashed => trie.node[trie.root].bit > 0
=============================================================================
