-------------------------- MODULE MCConnectionPool --------------------------
(* Small instances of ConnectionPool.                                      *)
EXTENDS ConnectionPool, TLC

CONSTANTS g1, g2, g3, g4, ec1, ec2, s1, s2, h1, h2, h3, h4, h5

(* Goroutines, objects and handles are interchangeable.                    *)
Symmetry == Permutations(Clients) \cup Permutations(Slots)
              \cup Permutations(Handles)

=============================================================================
