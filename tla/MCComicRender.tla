--------------------------- MODULE MCComicRender ---------------------------
(* A chapter of two pages.  Body 3 is incomplete; two reference contents.   *)
EXTENDS ComicRender, TLC

CONSTANTS ja, jb

MCComplete == [t \in Texts |-> t # 3]
MCJob == {ja}
MCTwoJobs == {ja, jb}
=============================================================================
