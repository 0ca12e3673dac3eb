--------------------------- MODULE MCWorktreeStash ---------------------------
(***************************************************************************)
(* Two hunks, so that a patch can conflict in one place and a checkout can *)
(* stop between them, and one intent-to-add file.                          *)
(***************************************************************************)
EXTENDS WorktreeStash
=============================================================================
