--------------------------- MODULE MCBatchImport ---------------------------
(***************************************************************************)
(* A small instance of BatchImport: ann imports three activities, or one   *)
(* of them alone; bob copies her feed.  a2 has a context in one piece, a3  *)
(* one with a comma in it, a1 a target.                                    *)
(***************************************************************************)
EXTENDS BatchImport

CONSTANTS ann, bob, a1, a2, a3, h1, h2

MCTimeOf == [a \in Activities |-> CASE a = a1 -> 1 [] a = a2 -> 2 [] a = a3 -> 3]
MCContextParts == [a \in Activities |-> CASE a = a1 -> 0 [] a = a2 -> 1 [] a = a3 -> 2]
MCImports == {<<ann, <<a1, a2, a3>>>>, <<ann, <<a2>>>>}
BobFollowsAnn == {<<ann, bob>>}
============================================================================
