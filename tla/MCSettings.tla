---------------------------- MODULE MCSettings ------------------------------
EXTENDS Settings, TLC

\* Two passwords tell a kept one from a new one; one value and the empty one
\* tell a setting from its default; what is foreign turns into the other of two.
CONSTANTS pw1, pw2, far1, far2
Alternatives == Permutations({pw1, pw2}) \cup Permutations({far1, far2})
=============================================================================
