------------------------------ MODULE MCVideo ------------------------------
(***************************************************************************)
(* The video studio alone, in one project with one form: runs that fail,   *)
(* the resume they offer, and the retry in the task list.                  *)
(***************************************************************************)
EXTENDS VideoStudio

MCSpec == VideoInit /\ WindowInit /\ [][VideoNext]_videoVars
=============================================================================
