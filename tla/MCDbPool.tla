------------------------------ MODULE MCDbPool ------------------------------
(* Instances of DbPool for TLC.  The clients are interchangeable.            *)
EXTENDS DbPool, TLC

Symmetric == Permutations(Clients)

\* Numbers to the base 2, so that a number of two digits is among the indexes
\* of a small instance: 1 begins 10.
BinaryBegins == {<<1, 2>>}
=============================================================================
