------------------------------- MODULE MCBarData -------------------------------
\* Adjoining and distant windows of one source, and one of another.
EXTENDS BarData, TLC

CONSTANTS a, b, p1, p2
W(source, from, to) == [source |-> source, from |-> from, to |-> to]
MCWindow == {W(a, 0, 1), W(a, 1, 2), W(a, 2, 3), W(b, 1, 2)}
MCAsks == [p \in Pane |-> IF p = p1 THEN MCWindow ELSE {W(a, 1, 2)}]
Symmetric == Permutations(Transaction)
=============================================================================
