------------------------------ MODULE SplayTree ------------------------------
(***************************************************************************)
(* splaytree.c: a search tree whose last used key is its root, with the    *)
(* sizes of the subtrees kept along the way down.  The left and the right  *)
(* tree that the loop builds are the sequences of the nodes linked.        *)
(***************************************************************************)
EXTENDS Integers, Sequences, SequencesExt

Nil == [size |-> 0]
Node(key, data, left, right, size) ==
    [key |-> key, data |-> data, left |-> left, right |-> right, size |-> size]
Measured(t) == [t EXCEPT !.size = t.left.size + t.right.size + 1]

RotateRight(t) == [t.left EXCEPT !.right = Measured([t EXCEPT !.left = t.left.right])]
RotateLeft(t) == [t.right EXCEPT !.left = Measured([t EXCEPT !.right = t.right.left])]

\* the loop: l and r hang together by their right and left sides
RECURSIVE Down(_, _)
Down(s, i) ==
    LET t == s.t
        right == IF t.left # Nil /\ i < t.left.key THEN RotateRight(t) ELSE t
        left == IF t.right # Nil /\ i > t.right.key THEN RotateLeft(t) ELSE t
    IN  CASE i < t.key ->
               IF t.left = Nil THEN s
               ELSE IF right.left = Nil THEN [s EXCEPT !.t = right]
               ELSE Down([s EXCEPT !.t = right.left, !.r = Append(@, right),
                                   !.r_size = @ + 1 + right.right.size], i)
          [] i > t.key ->
               IF t.right = Nil THEN s
               ELSE IF left.right = Nil THEN [s EXCEPT !.t = left]
               ELSE Down([s EXCEPT !.t = left.right, !.l = Append(@, left),
                                   !.l_size = @ + 1 + left.left.size], i)
          [] OTHER -> s

\* the sizes of the linked nodes, from the outer one to the inner one
Sized(nodes, size, side) ==
    FoldLeft(LAMBDA s, n : [nodes |-> Append(s.nodes, [n EXCEPT !.size = s.size]), size |-> s.size - 1 - n[side].size],
             [nodes |-> <<>>, size |-> size], nodes).nodes

splay(t, i) ==
    IF t = Nil THEN t
    ELSE LET s == Down([t |-> t, l |-> <<>>, r |-> <<>>, l_size |-> 0, r_size |-> 0], i)
             l_size == s.l_size + s.t.left.size
             r_size == s.r_size + s.t.right.size
             ls == Sized(s.l, l_size, "left")
             rs == Sized(s.r, r_size, "right")
             Left == FoldLeft(LAMBDA in, n : [n EXCEPT !.right = in], s.t.left, Reverse(ls))
             Right == FoldLeft(LAMBDA in, n : [n EXCEPT !.left = in], s.t.right, Reverse(rs))
         IN  [s.t EXCEPT !.left = Left, !.right = Right, !.size = l_size + r_size + 1]

insert(t, i, data) ==
    LET s == splay(t, i)
    IN  CASE s = Nil -> Node(i, data, Nil, Nil, 1)
          [] s # Nil /\ i = s.key -> s
          [] s # Nil /\ i < s.key ->
                Measured(Node(i, data, s.left, Measured([s EXCEPT !.left = Nil]), 0))
          [] OTHER -> Measured(Node(i, data, Measured([s EXCEPT !.right = Nil]), s.right, 0))

Joined(s, i) == IF s.left = Nil THEN s.right ELSE [splay(s.left, i) EXCEPT !.right = s.right]
delete(t, i) ==
    LET s == splay(t, i)
        x == Joined(s, i)
    IN  IF s = Nil \/ s.key # i THEN s
        ELSE IF x = Nil THEN Nil ELSE [x EXCEPT !.size = s.size - 1]

-----------------------------------------------------------------------------
RECURSIVE Nodes(_)
Nodes(t) == IF t = Nil THEN {} ELSE Nodes(t.left) \cup {t} \cup Nodes(t.right)
Keys(t) == {n.key : n \in Nodes(t)}
Lookup(t, i) == (CHOOSE n \in Nodes(t) : n.key = i).data

RECURSIVE Count(_)
Count(t) == IF t = Nil THEN 0 ELSE Count(t.left) + 1 + Count(t.right)

\* a search tree with its sizes right
IsTree(t) ==
    \A n \in Nodes(t) :
        /\ \A k \in Keys(n.left) : k < n.key
        /\ \A k \in Keys(n.right) : k > n.key
        /\ n.size = Count(n)
=============================================================================
