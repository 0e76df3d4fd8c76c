---------------------------- MODULE MCDataSource ----------------------------
(* Instances of DataSource for TLC.  The coroutines, the connections and    *)
(* the schemas are each interchangeable: none is treated apart in the code. *)
EXTENDS DataSource, TLC

Symmetric == Permutations(Clients) \cup Permutations(Conns) \cup Permutations(Schemas)
=============================================================================
