--------------------------- MODULE MCListsStorage ---------------------------
(***************************************************************************)
(* A small instance of ListsStorage: two lists, cut to two values.  One    *)
(* addition is to both lists, one overfills a list by itself; a removal    *)
(* asks for 3 and 2, and takes out 0 and 1.                                *)
(***************************************************************************)
EXTENDS ListsStorage

CONSTANTS unread, unseen, zero, h1, h2

IndexNames == <<zero>>
MCAdds == {<<[list |-> unread, values |-> <<0, 2>>], [list |-> unseen, values |-> <<2>>]>>,
           <<[list |-> unread, values |-> <<3, 2, 3>>]>>}
MCRemovals == {<<[list |-> unread, values |-> <<3, 2>>]>>}
=============================================================================
