------------------------------ MODULE MCNovel ------------------------------
(***************************************************************************)
(* The novel manager alone, on a work of two chapters: what a read of it   *)
(* leaves in the shared resources.                                         *)
(***************************************************************************)
EXTENDS NovelDesk

MCSpec == NovelSpec
=============================================================================
