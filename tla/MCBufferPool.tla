---------------------------- MODULE MCBufferPool ----------------------------
(* Instances of BufferPool for TLC.  Users are interchangeable.             *)
EXTENDS BufferPool, TLC

Symmetric == Permutations(Users)
=============================================================================
