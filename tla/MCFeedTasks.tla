----------------------------- MODULE MCFeedTasks -----------------------------
(***************************************************************************)
(* Small instances of FeedTasks.  Ann, bob, cyd and dan are users; cyd is   *)
(* listed in the group LOW.  The activities, by actor and target: a1 of ann *)
(* and bob, a2 of bob and a thing, a3 of bob and nothing, a4 of two things. *)
(***************************************************************************)
EXTENDS FeedTasks

CONSTANTS ann, bob, cyd, dan, a1, a2, a3, a4, thing, h1, h2

ThreeUsers == {ann, bob, cyd}
AllButCyd == {ann, bob, dan}

MCActor == [a \in Activities |->
  CASE a = a1 -> ann [] a \in {a2, a3} -> bob [] a = a4 -> thing]
MCTarget == [a \in Activities |->
  CASE a = a1 -> bob [] a \in {a2, a4} -> thing [] a = a3 -> Null]
MCTime == [a \in Activities |->
  CASE a = a1 -> 1 [] a = a2 -> 2 [] a = a3 -> 3 [] a = a4 -> 4]
MCGroups == {"HIGH", "LOW"}
MCGroupOf == [u \in Users |-> IF u = cyd THEN "LOW" ELSE "HIGH"]
MCPriority == [g \in Groups |-> IF g = "HIGH" THEN 10 ELSE 5]

AnnPosts == {<<ann, a1>>}
AnnPostsOfThings == {<<ann, a4>>}
AnnAndBobPost == {<<ann, a1>>, <<bob, a2>>}
AnnAndBobPostMore == {<<ann, a1>>, <<bob, a2>>, <<bob, a3>>}

BobFollowsAnn == {<<bob, {ann}>>}
AnnFollowsBob == {<<ann, {bob}>>}
BobAndDanFollowAnn == {<<bob, {ann}>>, <<dan, {ann}>>}
BobAndCydFollow == {<<bob, {ann}>>, <<cyd, {ann, bob}>>}
EverybodyFollows == {<<bob, {ann}>>, <<ann, {bob}>>, <<cyd, {ann}>>}

NeverTrims == {FALSE}
MayTrim == {FALSE, TRUE}
==============================================================================
