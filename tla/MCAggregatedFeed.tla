-------------------------- MODULE MCAggregatedFeed --------------------------
(***************************************************************************)
(* A small instance of AggregatedFeed: three groups; a2 and a3, of different *)
(* groups, were made in the same millisecond.                              *)
(***************************************************************************)
EXTENDS AggregatedFeed

CONSTANTS a1, a2, a3, a4

MCGroupOf == [a \in Activities |-> 
  CASE a \in {a1, a2} -> "likes" [] a = a3 -> "posts" [] a = a4 -> "shares"]
MCTimeOf == [a \in Activities |->
  CASE a = a1 -> 1 [] a \in {a2, a3} -> 2 [] a = a4 -> 3]
MCSerialOf == [a \in Activities |->
  CASE a = a1 -> 3 [] a = a2 -> 4 [] a = a3 -> 1 [] a = a4 -> 2]
MCBatches == {{a1}, {a1, a2}, {a2, a3}, {a3, a4}}
MayTrim == {FALSE, TRUE}
==============================================================================
