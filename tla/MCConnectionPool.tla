-------------------------- MODULE MCConnectionPool --------------------------
(* An instance of ConnectionPool in which connections are interchangeable. *)
EXTENDS ConnectionPool, TLC

Symmetry == Permutations(Conn)
=============================================================================
