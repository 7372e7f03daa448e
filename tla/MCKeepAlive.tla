----------------------------- MODULE MCKeepAlive -----------------------------
EXTENDS KeepAlive, TLC

CONSTANTS Robot, First, Second

One      == {Robot}
Two      == {First, Second}
Symmetry == Permutations(Two)
=============================================================================
