-------------------------- MODULE MCInMemoryTimeline --------------------------
(***************************************************************************)
(* Small instances of InMemoryTimeline.                                    *)
(***************************************************************************)
EXTENDS InMemoryTimeline

CONSTANTS a1, a2, a3

MCAdds == {<<a1>>, <<a2, a1>>, <<a2, a3>>}
MCInserts == {{a1, a2}, {a2, a3}}
MCSlices == {<<0, 1>>, <<1, 2>>}
=============================================================================
