---------------------------- MODULE MCForumStats ----------------------------
(* A small instance of ForumStats for TLC. *)
EXTENDS ForumStats, TLC

=============================================================================
