------------------------- MODULE MCCassandraTimeline -------------------------
(***************************************************************************)
(* Small instances of CassandraTimeline: a1 is the oldest activity by id.  *)
(***************************************************************************)
EXTENDS CassandraTimeline

CONSTANTS a1, a2, a3, h1, h2

MCTime == [a \in Activities |-> CASE a = a1 -> 1 [] a = a2 -> 2 [] a = a3 -> 3]

Singles == {{a} : a \in Activities}
OneOrTwo == {{a1}, {a2, a3}}
=============================================================================
