------------------------------- MODULE MCPage -------------------------------
(* A small instance of Page: two files of each kind, two users and one key. *)
EXTENDS Page, TLC
CONSTANTS t1, t2, i1, i2, c1, c2, b1, b2, p1, p2
MCLists == {<<>>, <<t1>>, <<t1, t2>>}
MCShows == {<<>>, <<i1>>, <<i1, i2>>}
MCComicPages == c1 :> 3 @@ c2 :> 2
MCSpine == b1 :> 3 @@ b2 :> 0
MCPdfPages == p1 :> 3 @@ p2 :> 2
=============================================================================
