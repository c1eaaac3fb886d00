---------------------------- MODULE MCComicJobs ----------------------------
(* Small comic works.  Bodies 1-2 are settings, 3-4 scripts, 5-7 storyboards *)
(* (5 lists page 1, 6 lists pages 1 and 2, 7 lists page 2 only and is        *)
(* incomplete), 8-10 page prompts (10 is incomplete); 11-12 chapter texts.   *)
EXTENDS ComicJobs, TLC

CONSTANTS ja, jb

MCTexts == 1..12
MCPart == [t \in MCTexts |-> t]
MCComplete == [t \in MCTexts |-> t \notin {7, 10}]
MCPages(t) == CASE t = 5 -> <<1>> [] t = 6 -> <<1, 2>> [] t = 7 -> <<2>> [] OTHER -> <<>>
MCPageList == [t \in MCTexts |-> SelectSeq(MCPages(t), LAMBDA p : p \in Pages)]
MCBodies == [settings |-> {1, 2}, script |-> {3, 4}, storyboard |-> {5, 6},
             page_prompt |-> {8, 9}]
MCBadBodies == [MCBodies EXCEPT !.script = {4}, !.storyboard = {5, 6, 7}, !.page_prompt = {8, 10}]
MCSources == {12}

\* Books as the user's own saves build them, from the pipeline's start.
MCEmpty == [docs |-> [s \in Slots |-> NoDocument],
            source |-> [c \in Chapters |-> [revision |-> 1, text |-> 11]]]
RECURSIVE MCWrite(_, _)
MCWrite(b, saves) ==
  IF saves = <<>> THEN b
  ELSE MCWrite(saveDocuments(b, Only(Head(saves)[1], Head(saves)[2]), TRUE), Tail(saves))

Page(c, p) == <<c, "page_prompt", p>>
Script(c) == <<c, "script", 0>>

MCChapter(c, board, pages) ==
  <<<<Script(c), 3>>, <<Storyboard(c), board>>>> \o [i \in 1..Len(pages) |-> <<Page(c, pages[i]), 8>>]

MCFull == MCWrite(MCEmpty, <<<<Settings, 1>>>> \o MCChapter(1, 6, <<1, 2>>))
MCMissing == MCWrite(MCEmpty, <<<<Settings, 1>>>> \o MCChapter(1, 6, <<2>>))
\* New settings leave the script stale; the storyboard was saved after them.
MCStale == MCWrite(MCFull, <<<<Settings, 2>>, <<Storyboard(1), 5>>>>)

\* Two chapters: the second one inherits the first one's state.
MCSecondChapter == MCWrite(MCEmpty, <<<<Settings, 1>>>> \o MCChapter(1, 5, <<1>>)
                                       \o <<<<Script(2), 3>>>>)
MCTwoChapters == MCWrite(MCSecondChapter, Tail(MCChapter(2, 5, <<1>>)))

MCJob == {ja}
MCTwoJobs == {ja, jb}
MCWrittenBooks == {MCEmpty, MCFull, MCMissing, MCStale}
MCChapterBooks == {MCTwoChapters, MCSecondChapter}
=============================================================================
