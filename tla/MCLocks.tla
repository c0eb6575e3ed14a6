------------------------------ MODULE MCLocks ------------------------------
\* Model values for Locks.
EXTENDS Locks, TLC

CONSTANTS a, b, c, d

ThreeMts == {a, b, c}
FourMts == {a, b, c, d}
OneMt == {c}
Symmetry == Permutations(Mts)
=============================================================================
