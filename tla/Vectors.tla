------------------------------ MODULE Vectors ------------------------------
(***************************************************************************)
(* std::erase_if on a vector: what is left, in its order; the vectors of a *)
(* vector appended to one another; and a loop over a vector.  SelectSeq,   *)
(* FlattenSeq and FoldLeft say the same by recursions on operators; here   *)
(* the j-th element is named by its rank among the places there are, and a *)
(* loop's body is a function, which the proof system can reason about (see *)
(* VectorsProofs; MCPluginHost compares them with the recursions).         *)
(***************************************************************************)
EXTENDS Naturals, Sequences, FiniteSets

\* The places of s that hold an element of S, and the rank of a place among P.
Places(s, S) == {i \in 1 .. Len(s) : s[i] \in S}
Rank(P, i) == Cardinality({k \in P : k <= i})

\* s without the elements that are not in S.
OnlyIn(s, S) ==
    LET P == Places(s, S) IN
    [j \in 1 .. Cardinality(P) |-> s[CHOOSE i \in P : Rank(P, i) = j]]

\* The cells of a vector of vectors, <<r, i>> for place i of vector r, those up to one of
\* them, row by row, and the contents of all cells in that order.
Cells(ss) == UNION {{r} \X DOMAIN ss[r] : r \in DOMAIN ss}
Upto(ss, c) == {d \in Cells(ss) : d[1] < c[1] \/ (d[1] = c[1] /\ d[2] <= c[2])}

Joined(ss) ==
    LET cell(j) == CHOOSE c \in Cells(ss) : Cardinality(Upto(ss, c)) = j IN
    [j \in 1 .. Cardinality(Cells(ss)) |-> ss[cell(j)[1]][cell(j)[2]]]

\* f[a] is what an element a makes of a value: what x becomes by the elements of s, one
\* after the other.
Folded(f, x, s) ==
    LET acc[i \in 0 .. Len(s)] == IF i = 0 THEN x ELSE f[s[i]][acc[i - 1]] IN
    acc[Len(s)]
=============================================================================
