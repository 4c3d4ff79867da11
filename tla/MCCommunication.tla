---------------------------- MODULE MCCommunication ----------------------------
(* Jobs for Communication: operations on rows of up to eight elements on     *)
(* lines and grids of two to four devices.                                   *)
EXTENDS Communication

X(n) == Row([j \in 1 .. n |-> j])
Y(n) == Row([j \in 1 .. n |-> 10 + j])

Line(n) == [shards |-> n, other |-> 1, minor |-> TRUE]
Rows == [shards |-> 2, other |-> 2, minor |-> TRUE]
Columns == [shards |-> 2, other |-> 2, minor |-> FALSE]

Wraps == {Wrap(x, l, r) : x \in {X(4), X(6), Slice(X(6), 1, 5)}, l \in 0 .. 2, r \in 0 .. 2}
Extends == {Extend(x, l, r) : x \in {X(4), X(6), Slice(X(6), 1, 5)}, l \in 0 .. 2, r \in 0 .. 2}
Rotates == {Rotate(x, a) : x \in {X(4), X(6)}, a \in 1 .. 3} \union {Rotate(X(6), 5), Rotate(Rotate(X(4), 1), 3)}
MultiRotates == {t \in {MultiRotate(X(n), l, r, i) : n \in 3 .. 4, l \in 0 .. 2, r \in 0 .. 2, i \in 0 .. 4} : t.at[3] <= t.at[1] + t.at[2]}

Cuts(x, sizes) == {t \in {Slice(x, a, b) : a \in 0 .. x.n, b \in 0 .. x.n} : t.n \in sizes}
Halves == {X(1), X(3), X(4), Y(2), Const(0, 2), Const(7, 1)}
Concats == {Concat(<<l, r>>) : l \in Halves, r \in Halves}
             \union {Concat(<<l, r>>) : l \in Cuts(X(6), {2, 4}), r \in Cuts(X(6), {1, 4})}
             \union {Concat(<<Y(1), m, Const(0, 1)>>) : m \in {X(2), Const(0, 2)}}
Periodics == {Concat(<<Slice(X(8), a, 6), mid, Slice(X(8), 2, b)>>) :
                a \in 3 .. 5, b \in 3 .. 4, mid \in {Slice(X(8), 2, 6), Slice(X(8), 1, 5), Y(4), Y(6)}}
               \union {Concat(<<Slice(X(8), 5, 7), Y(4), Slice(X(8), 2, 4)>>)}

Updates == {Update(x, u, at) : x \in {X(4), X(6), X(7), Const(0, 6)}, u \in {Y(1), Y(2), Const(0, 2), Y(4)}, at \in 0 .. 6}
Parts(x) == Cuts(x, {1, 2})
SelfUpdates == {Update(X(6), Concat(<<l, r>>), at) : l \in Parts(X(6)), r \in Parts(X(6)), at \in 0 .. 3}

Programs == Wraps \union Extends \union Rotates \union MultiRotates \union Concats \union Periodics \union Updates \union SelfUpdates

Job(programs, meshes, kinds) == [program : programs, mesh : meshes, flattened : kinds]
MCJobs ==
  Job(Programs, {Line(2), Line(3)}, {FALSE})
    \union Job(Wraps \union Rotates \union MultiRotates \union Extends \union Periodics, {Rows, Columns}, {FALSE})
    \union Job({Concat(<<X(3), Y(2)>>), Concat(<<X(2), Y(2)>>)}, {Rows, Columns}, {FALSE})
    \union Job({Wrap(X(8), 2, 2), Extend(X(8), 2, 2), Wrap(X(8), 1, 2), Rotate(X(8), 2), Rotate(X(8), 7), Rotate(X(4), 1),
                Update(X(8), Y(4), 3), Concat(<<X(3), Y(5)>>), MultiRotate(X(8), 1, 1, 0),
                Concat(<<Slice(X(8), 6, 8), Y(8), Slice(X(8), 0, 2)>>)},
               {Line(4)}, BOOLEAN)

\* One job for each run that shows a condition the patterns leave out.
WrapOnFour(kinds) == Job({Wrap(X(8), 2, 2)}, {Line(4)}, kinds)
HalvesJobs == WrapOnFour({TRUE})
BranchesJobs == WrapOnFour({FALSE})
LeftHaloJobs == Job({MultiRotate(X(6), 1, 0, 0)}, {Line(3)}, {FALSE})
AxisJobs == Job({MultiRotate(X(3), 0, 1, 1)}, {Rows}, {FALSE})
=============================================================================
