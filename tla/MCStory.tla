------------------------------ MODULE MCStory ------------------------------
(***************************************************************************)
(* The Markdown workspace alone, on the finished chain of one chapter or   *)
(* on a new drama: an answer that arrives after the user has left the page *)
(* and come back.                                                          *)
(***************************************************************************)
EXTENDS Storyboard

MCSpec == StorySpec
=============================================================================
